---------------------------- MODULE SensorReadings ----------------------------
(***************************************************************************)
(* ModbusMaster together with the use of its readings in the main loop     *)
(* (main.c, stairway_sensors.c): whether somebody stands at the FIRST      *)
(* sensor of a landing, and since when.  A reading is used in every        *)
(* iteration until the next answer of its device, or its failure, so the   *)
(* time for which FIRST has been active is not a time of measurements.     *)
(*                                                                         *)
(* The other conditions of the emergency lights (daylight, the block after *)
(* SECOND_LOCK) are in EmergencyLights; they only keep lights off.         *)
(***************************************************************************)
EXTENDS ModbusMaster

CONSTANT ConfirmMs    \* EMERGENCY_CONFIRM_MS

ASSUME ConfirmAssumption == ConfirmMs \in Nat \ {0}

VARIABLES
    ts,       \* the clock at the start of the iteration
    report,   \* what the device found when it had the request: FIRST is active
    first,    \* status.sensor_state[].current of FIRST
    on_ts,    \* emergency_sensor_on_ts, 0 while FIRST is not active
    answers,  \* history: how many answers in a row said so, 2 standing for more
    delayed   \* history: the main loop was held up since the device was asked
              \* for the first of them

readingVars == <<ts, report, first, on_ts, answers, delayed>>

ReadingsInit ==
    /\ Init
    /\ ts = 1
    /\ report = [d \in Device |-> FALSE]
    /\ first = [d \in Device |-> FALSE]
    /\ on_ts = [d \in Device |-> 0]
    /\ answers = [d \in Device |-> 0]
    /\ delayed = [d \in Device |-> FALSE]

\* sensor_parse and fill_device_values: a device with an error has no active sensor.
Note(success) ==
    LET d == last_request
        active == success /\ report[d]
    IN  /\ first' = [first EXCEPT ![d] = active]
        /\ answers' = [answers EXCEPT ![d] = IF ~active THEN 0 ELSE IF @ = 2 THEN 2 ELSE @ + 1]
        /\ UNCHANGED <<ts, report, on_ts, delayed>>

\* A healthy device has found FIRST active or not; the others are not watched.
Measure ==
    /\ \E b \in IF next_dev \in Healthy THEN BOOLEAN ELSE {FALSE} :
           report' = [report EXCEPT ![next_dev] = b]
    /\ delayed' = [delayed EXCEPT ![next_dev] = @ /\ answers[next_dev] # 0]
    /\ UNCHANGED <<ts, first, on_ts, answers>>

Delay ==
    /\ delayed' = [d \in Device |-> TRUE]
    /\ UNCHANGED <<ts, report, first, on_ts, answers>>

\* Mutant of LongEnough: the time of one poll is enough.
LongEnoughPoll(d) == ts - on_ts'[d] >= PollInterval

LongEnough(d) == ts - on_ts'[d] >= ConfirmMs

\* The emergency light of the landing may come on.
Confirms(d) == pc = "rest" /\ first[d] /\ LongEnough(d)

\* The rest of the iteration, and the start of the next one.
Confirm ==
    /\ on_ts' = [d \in Device |-> IF ~first[d] THEN 0
                                  ELSE IF on_ts[d] = 0 THEN ts ELSE on_ts[d]]
    /\ ts' = now'
    /\ UNCHANGED <<report, first, answers, delayed>>

Restarted ==
    /\ ts' = now'
    /\ report' = [d \in Device |-> FALSE]
    /\ first' = [d \in Device |-> FALSE]
    /\ on_ts' = [d \in Device |-> 0]
    /\ answers' = [d \in Device |-> 0]
    /\ delayed' = [d \in Device |-> FALSE]

ReadingsLoop ==
    \/ Decode /\ Note(Accepted)
    \/ Timeout /\ Note(FALSE)
    \/ Write /\ Measure
    \/ Rest /\ Confirm
    \/ (Serve \/ NothingYet \/ Request \/ Clear \/ Wipe) /\ UNCHANGED readingVars

ReadingsNext ==
    \/ ReadingsLoop
    \/ HeldUp /\ Delay
    \/ Watchdog /\ Restarted
    \/ (Noise \/ \E d \in Device : Arrive(d)) /\ UNCHANGED readingVars

\* The main loop and the clock go on, the watchdog runs, and the bytes of a device that is
\* not slow arrive.
ReadingsSpec ==
    /\ ReadingsInit /\ [][ReadingsNext]_<<vars, readingVars>>
    /\ WF_<<vars, readingVars>>(ReadingsLoop)
    /\ SF_<<vars, readingVars>>(Rest /\ Confirm /\ now' > now)
    /\ WF_<<vars, readingVars>>(Watchdog /\ Restarted)
    /\ \A d \in Device \ Slow : WF_<<vars, readingVars>>(Arrive(d) /\ UNCHANGED readingVars)

-----------------------------------------------------------------------------
\* What EMERGENCY_CONFIRM_MS is for: one measurement alone does not switch the
\* emergency light on, it takes a second answer of the same device, unless the
\* timeout of the other device has kept that answer from coming, or the main loop
\* was held up (main.c 122-166, 332-343, stairway_sensors.c 101-118,
\* modbus_master.c 199-215).
OneAnswerIsNotEnough ==
    [][\A d \in Healthy : Confirms(d) /\ pc' = "serve" =>
           answers[d] = 2 \/ dev_error[Other(d)] \/ delayed[d]]_<<vars, readingVars>>
=============================================================================
