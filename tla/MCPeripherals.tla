--------------------------- MODULE MCPeripherals ----------------------------
(* Peripherals with strips of one and two LEDs, of two brightnesses, and   *)
(* with steps and thresholds that differ, also ones that are not accepted. *)
EXTENDS Peripherals

Candidate(count, up, on, off, step, day) ==
    [led_count |-> count,
     emergency_cnt |-> [z \in Zone |-> IF z = "up" THEN up ELSE 0],
     led_on_value |-> on, led_off_value |-> off,
     led_on_step |-> step, led_off_step |-> step,
     light_sensor_day_value |-> day, light_sensor_night_value |-> 4]

MCCandidates ==
    {Candidate(2, 1, 3, 0, 2, 5), Candidate(1, 1, 2, 1, 1, 4),
     Candidate(2, 0, 3, 0, 0, 5), Candidate(1, 2, 3, 0, 1, 5)}
=============================================================================
