--------------------------- MODULE EmergencyLights ---------------------------
(***************************************************************************)
(* The emergency lights: the LEDs nearest to a landing light up while      *)
(* somebody stands at its FIRST sensor, before that person is counted.     *)
(* The code runs in the phases of Stairway: the decision to switch on      *)
(* right after the off timeout, the switching off with the animations.     *)
(*                                                                         *)
(* The clock is a uint64_t.  A difference of two readings that would be    *)
(* negative wraps to a huge value; it can be negative here because         *)
(* detector_block_ts is read from the clock later in the iteration than    *)
(* ts, which it is subtracted from.                                        *)
(***************************************************************************)
EXTENDS Stairway

CONSTANTS
    ConfirmMs,   \* EMERGENCY_CONFIRM_MS
    BlockMs      \* settings->emergency_block_ms

ASSUME EmergencyTimingAssumption == ConfirmMs \in Nat \ {0} /\ BlockMs \in Nat

VARIABLES
    emergency_sensor_on_ts,   \* since when FIRST is active, 0 if it is not
    detector_block_ts,        \* when the detector was last in SECOND_LOCK
    emergency_on

emergencyVars == <<emergency_sensor_on_ts, detector_block_ts, emergency_on>>

EmergencyInit ==
    /\ Init
    /\ emergency_sensor_on_ts = [d \in Detector |-> 0]
    /\ detector_block_ts = [d \in Detector |-> 0]
    /\ emergency_on = [d \in Detector |-> FALSE]

\* ts - t as an unsigned number is larger than limit.
LongerThan(t, limit) == ts < t \/ ts - t > limit

\* Mutant of Confirmed: no block after SECOND_LOCK.
ConfirmedUnblocked(d) ==
    /\ sens[d].first
    /\ ~block_by_light
    /\ ts - emergency_sensor_on_ts'[d] >= ConfirmMs

\* FIRST has been active long enough and the detector was not in SECOND_LOCK lately.
Confirmed(d) ==
    /\ sens[d].first
    /\ ~block_by_light
    /\ ts - emergency_sensor_on_ts'[d] >= ConfirmMs
    /\ LongerThan(detector_block_ts'[d], BlockMs)

Confirm ==
    /\ detector_block_ts' =
           [d \in Detector |-> IF det[d] = "SECOND_LOCK" THEN now ELSE detector_block_ts[d]]
    /\ emergency_sensor_on_ts' =
           [d \in Detector |-> IF ~sens[d].first THEN 0
                               ELSE IF emergency_sensor_on_ts[d] = 0 THEN ts
                               ELSE emergency_sensor_on_ts[d]]
    /\ emergency_on' = [d \in Detector |-> emergency_on[d] \/ Confirmed(d)]

TimeoutAndConfirm == Timeout /\ Confirm

\* Mutant of SwitchOff: it waits for the detector to return to IDLE.
SwitchOffIdle ==
    emergency_on' = IF ts - tick_ts > LedInterval
                    THEN [d \in Detector |-> emergency_on[d] /\ (sens[d].first \/ det[d] # "IDLE")]
                    ELSE emergency_on

\* With every step of the animations.
SwitchOff ==
    emergency_on' = IF ts - tick_ts > LedInterval
                    THEN [d \in Detector |-> emergency_on[d] /\ sens[d].first]
                    ELSE emergency_on

LightsAndSwitchOff ==
    /\ Lights
    /\ SwitchOff
    /\ UNCHANGED <<emergency_sensor_on_ts, detector_block_ts>>

EmergencyLoop ==
    \/ TimeoutAndConfirm
    \/ LightsAndSwitchOff
    \/ /\ \/ SenseAny
          \/ \E d \in Detector : Detect(d)
          \/ CountChange
          \/ Refresh
       /\ UNCHANGED emergencyVars

EmergencySpec == EmergencyInit /\ [][EmergencyLoop]_<<vars, emergencyVars>>

EmergencyFairSpec == EmergencySpec /\ WF_<<vars, emergencyVars>>(EmergencyLoop)

-----------------------------------------------------------------------------
\* What emergency_block_ms is for: the lights do not switch on at a landing
\* where SECOND was triggered first until that is emergency_block_ms ago
\* (main.c 327-349).  It holds while no sensor is faulty, because a detector
\* leaves SECOND_LOCK in the very iteration in which it sees FIRST.
SwitchesOn(d) == ~emergency_on[d] /\ emergency_on'[d]

BlockHonoured ==
    [][\A d \in Detector :
          SwitchesOn(d) => /\ ts >= detector_block_ts'[d]
                           /\ ts - detector_block_ts'[d] > BlockMs]_<<vars, emergencyVars>>

\* The emergency lights never outlast the person for good (main.c 354-359).
EmergencyEnds == <>[]Quiet => <>[](\A d \in Detector : ~emergency_on[d])
=============================================================================
