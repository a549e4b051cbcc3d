------------------------------ MODULE Stairway ------------------------------
(***************************************************************************)
(* The core of the stairway controller: one iteration of the main loop of  *)
(* main.c, from the sensor readings to the state of the LEDs.              *)
(*                                                                         *)
(* Two detectors, UP and DOWN, each own two distance sensors, FIRST (on    *)
(* the outside of the stairs) and SECOND (on the inside).  Passing FIRST   *)
(* and then SECOND adds a person, the other order removes one.  A change   *)
(* of the number of people starts animations that walk along the LED strip *)
(* and stamp every LED they visit with the time of their event; an LED     *)
(* takes the state of an event only if that event is newer than the one it *)
(* holds.                                                                  *)
(*                                                                         *)
(* The loop is single threaded, so an iteration is a fixed sequence of     *)
(* phases, recorded in pc.  The code reads the clock once at the start of  *)
(* an iteration (ts) and again wherever it needs the time (get_time_ms()). *)
(* The only slow thing in between is the blocking send of a Modbus request *)
(* in stairway_sensors_routine, so all readings after it are one value,    *)
(* now.  The next iteration starts 0 or more milliseconds later.           *)
(***************************************************************************)
EXTENDS Integers, FiniteSets

CONSTANTS
    Readings,       \* what the two sensors of a detector may report
    LightStates,    \* values of status.light_state && use_light_sensor
    LedCounts,      \* values of settings->led_count
    EmergencyCnt,   \* settings->emergency_cnt, 0 when use_emergency is off
    Debounce,       \* settings->sensor_debouce_time
    OffTimeout,     \* settings->leds_off_timeout
    LedInterval,    \* settings->leds_time_interval
    RefreshPeriod,  \* period of stairway_leds_refresh, 2 ms in the code
    Elapsed,        \* bound: milliseconds from one iteration to the next
    SendTimes,      \* bound: milliseconds a Modbus request blocks the loop, or 0
    MaxPeople       \* bound: people that may be on the stairs at once

Detector == {"UP", "DOWN"}
OnAnim   == {"on_up", "on_down"}
OffAnim  == {"off_up", "off_down"}
Anim     == OnAnim \union OffAnim

\* A sensor reports something nearer than its trigger distance, nothing
\* there, or an error.
SensorValue == {"near", "far", "error"}
Reading == [first : SensorValue, second : SensorValue]

ASSUME ReadingsAssumption == Readings \subseteq Reading
ASSUME LightAssumption == LightStates \subseteq BOOLEAN
\* settings_validate rejects led_count = 0 and emergency_cnt > led_count
ASSUME LedCountsAssumption == LedCounts \subseteq Nat \ {0}
ASSUME EmergencyAssumption ==
    /\ EmergencyCnt \in [Detector -> Nat]
    /\ \A d \in Detector, n \in LedCounts : EmergencyCnt[d] =< n
ASSUME TimingAssumption ==
    /\ Debounce \in Nat
    /\ OffTimeout \in Nat
    /\ LedInterval \in Nat
    /\ RefreshPeriod \in Nat
ASSUME BoundAssumption ==
    Elapsed \subseteq Nat /\ SendTimes \subseteq Nat /\ MaxPeople \in Nat

VARIABLES
    pc,            \* the phase of the main loop
    ts,            \* the clock at the start of this iteration
    now,           \* get_time_ms() in the rest of it
    sens,          \* status.sensor_state[].current, per detector
    err,           \* a sensor of the detector reports an error
    block_by_light,
    det,           \* status.detector[].state
    det_ts,        \* status.detector[].ts
    people_count,
    prev_people_count,
    people_ts,
    last_det,
    run,           \* led_on_up, led_off_up, led_on_down, led_off_down
    cnt,           \* led_on_up_cnt ...
    ev_ts,         \* led_on_up_ts ...
    tick_ts,       \* prev_ts, time of the last animation step
    refresh_ts,    \* rdt, time of the last refresh
    leds,          \* buf: state and time stamp of every LED of the strip
    led_count,     \* settings->led_count; DOMAIN leds is the strip's own
    test_request,  \* status.test_mode
    test_mode,     \* the main loop's copy of it
    covered        \* history: see Covers

loopVars   == <<pc, ts, now>>
sensorVars == <<sens, err, block_by_light>>
detVars    == <<det, det_ts>>
countVars  == <<people_count, people_ts>>
eventVars  == <<prev_people_count, last_det, run, ev_ts, covered>>
stripVars  == <<cnt, tick_ts, refresh_ts, leds, test_mode>>
userVars   == <<led_count, test_request>>
vars == <<loopVars, sensorVars, detVars, countVars, eventVars, stripVars, userVars>>

-----------------------------------------------------------------------------
\* A strip of n LEDs that are off and carry the oldest stamp.
DarkStrip(n) == [i \in 0 .. n - 1 |-> [state |-> FALSE, ts |-> 0]]

\* Boot has taken some time before the loop starts: 0 is older than any event.
Init ==
    /\ pc = "sense"
    /\ ts = 1
    /\ now = 1
    /\ sens = [d \in Detector |-> [first |-> FALSE, second |-> FALSE]]
    /\ err = [d \in Detector |-> FALSE]
    /\ block_by_light = FALSE
    /\ det = [d \in Detector |-> "IDLE"]
    /\ det_ts = [d \in Detector |-> 0]
    /\ people_count = 0
    /\ prev_people_count = 0
    /\ people_ts = 0
    /\ last_det = "UP"
    /\ run = [a \in Anim |-> FALSE]
    /\ cnt = [a \in Anim |-> 0]
    /\ ev_ts = [a \in Anim |-> 0]
    /\ tick_ts = 0
    /\ refresh_ts = 0
    /\ led_count \in LedCounts
    /\ leds = DarkStrip(led_count)
    /\ test_request = FALSE
    /\ test_mode = FALSE
    /\ covered = TRUE

-----------------------------------------------------------------------------
(* Requests served at the start of an iteration, by net_poll and the CLI.  *)

\* "test_on" and "test_off" of the web page.
PostTest(b) ==
    /\ pc = "sense"
    /\ test_request' = b
    /\ UNCHANGED <<loopVars, sensorVars, detVars, countVars, eventVars,
                   stripVars, led_count>>

\* settings_apply with a new number of LEDs; the strip follows at the next refresh.
SetLedCount(n) ==
    /\ pc = "sense"
    /\ n # led_count
    /\ led_count' = n
    /\ covered' = FALSE
    /\ UNCHANGED <<loopVars, sensorVars, detVars, countVars, stripVars,
                   prev_people_count, last_det, run, ev_ts, test_request>>

-----------------------------------------------------------------------------
(* Sensors and the block by light.                                         *)

\* The bound on people: at MaxPeople nobody completes another entrance.
Admitted(r) ==
    people_count + Cardinality({d \in Detector : /\ det[d] = "FIRST_LOCK"
                                                 /\ r[d].second = "near"}) =< MaxPeople

\* Mutant of Block: daylight blocks also while people are on the stairs.
BlockOccupied(light) == light

\* Daylight blocks empty stairs, and keeps them blocked.
Block(light) == light /\ (block_by_light \/ people_count = 0)

\* A sensor with an error counts as inactive, and its detector as faulty.
Sense(r, light, e, s) ==
    /\ pc = "sense"
    /\ Admitted(r)
    /\ ts' = now + e
    /\ now' = now + e + s
    /\ sens' = [d \in Detector |-> [first  |-> r[d].first = "near",
                                    second |-> r[d].second = "near"]]
    /\ err' = [d \in Detector |-> "error" \in {r[d].first, r[d].second}]
    /\ block_by_light' = Block(light)
    /\ pc' = "UP"
    /\ UNCHANGED <<detVars, countVars, eventVars, stripVars, userVars>>

-----------------------------------------------------------------------------
(* The detectors: one turn of the loop of main.c over DETECTOR_TYPE_MAX.   *)

NextPc == IF pc = "UP" THEN "DOWN" ELSE "count"

\* The detector enters state s now.
Enter(d, s) ==
    /\ det' = [det EXCEPT ![d] = s]
    /\ det_ts' = [det_ts EXCEPT ![d] = now]

\* Mutant of Settled: no debounce.
SettledAtOnce(d) == TRUE

Settled(d) == now - det_ts[d] > Debounce

\* The detector takes part in this iteration.
Works(d) == pc = d /\ ~block_by_light /\ ~err[d]

DetectorDone ==
    /\ pc' = NextPc
    /\ UNCHANGED <<ts, now, sensorVars, eventVars, stripVars, userVars>>

\* Daylight holds every detector in IDLE.
Blocked(d) ==
    /\ pc = d /\ block_by_light
    /\ Enter(d, "IDLE")
    /\ UNCHANGED countVars
    /\ DetectorDone

\* An error freezes the detector.
Frozen(d) ==
    /\ pc = d /\ ~block_by_light /\ err[d]
    /\ UNCHANGED <<detVars, countVars>>
    /\ DetectorDone

Idle(d) ==
    /\ Works(d) /\ det[d] = "IDLE"
    /\ CASE sens[d].first                      -> Enter(d, "FIRST_LOCK")
         [] ~sens[d].first /\ sens[d].second   -> Enter(d, "SECOND_LOCK")
         [] ~sens[d].first /\ ~sens[d].second  -> UNCHANGED detVars
    /\ UNCHANGED countVars
    /\ DetectorDone

\* FIRST_LOCK or SECOND_LOCK is given up when its sensor is released for good.
Released(d) ==
    /\ Works(d)
    /\ \/ det[d] = "FIRST_LOCK" /\ ~sens[d].first
       \/ det[d] = "SECOND_LOCK" /\ ~sens[d].second
    /\ Settled(d)

GiveUp(d) ==
    /\ Released(d)
    /\ Enter(d, "IDLE")
    /\ UNCHANGED countVars
    /\ DetectorDone

\* FIRST, then SECOND: a person enters the stairs.
Inc(d) ==
    /\ Works(d) /\ det[d] = "FIRST_LOCK" /\ ~Released(d)
    /\ sens[d].second
    /\ Enter(d, "INC")
    /\ people_count' = people_count + 1
    /\ people_ts' = now
    /\ DetectorDone

\* Mutant of Dec: also below zero.
DecBelowZero(d) ==
    /\ Works(d) /\ det[d] = "SECOND_LOCK" /\ ~Released(d)
    /\ sens[d].first
    /\ Enter(d, "DEC")
    /\ people_count' = people_count - 1
    /\ people_ts' = now
    /\ DetectorDone

\* SECOND, then FIRST: a person leaves the stairs, if there is one.
Dec(d) ==
    /\ Works(d) /\ det[d] = "SECOND_LOCK" /\ ~Released(d)
    /\ sens[d].first
    /\ Enter(d, "DEC")
    /\ IF people_count > 0
       THEN people_count' = people_count - 1 /\ people_ts' = now
       ELSE UNCHANGED countVars
    /\ DetectorDone

KeepLock(d) ==
    /\ Works(d) /\ ~Released(d)
    /\ \/ det[d] = "FIRST_LOCK" /\ ~sens[d].second
       \/ det[d] = "SECOND_LOCK" /\ ~sens[d].first
    /\ UNCHANGED <<detVars, countVars>>
    /\ DetectorDone

\* After a passage the detector waits until both sensors are clear.
Passed(d) ==
    /\ Works(d) /\ det[d] \in {"INC", "DEC"}
    /\ IF ~sens[d].first /\ ~sens[d].second /\ Settled(d)
       THEN Enter(d, "IDLE")
       ELSE UNCHANGED detVars
    /\ UNCHANGED countVars
    /\ DetectorDone

Detect(d) ==
    \/ Blocked(d) \/ Frozen(d) \/ Idle(d) \/ GiveUp(d)
    \/ Inc(d) \/ Dec(d) \/ KeepLock(d) \/ Passed(d)

-----------------------------------------------------------------------------
(* From a change of the number of people to animations.                    *)

AnimOf(d, on) ==
    CASE d = "UP"   /\ on  -> "on_up"
      [] d = "UP"   /\ ~on -> "off_up"
      [] d = "DOWN" /\ on  -> "on_down"
      [] d = "DOWN" /\ ~on -> "off_down"

\* The detectors whose state counts as the cause of this change: also one
\* that still lingers in INC or DEC from an earlier passage.
Causes ==
    CASE people_count > prev_people_count -> {d \in Detector : det[d] = "INC"}
      [] people_count < prev_people_count -> {d \in Detector : det[d] = "DEC"}
      [] people_count = prev_people_count -> {}

\* The animations the change starts: none while people remain after a fall,
\* and none that is about to finish its sweep (its counter at led_count).
Events ==
    LET on == people_count > prev_people_count
    IN  {a \in {AnimOf(d, on) : d \in Causes} :
            /\ on \/ people_count = 0
            /\ cnt[a] # led_count}

Start(S) ==
    /\ run' = [a \in Anim |-> run[a] \/ a \in S]
    /\ ev_ts' = [a \in Anim |-> IF a \in S THEN now ELSE ev_ts[a]]

\* History, not in the code: the stairs have just become occupied or empty;
\* the change is covered when one of the animations S it starts is at the
\* beginning of its sweep and newer than every stamp still in use.
Covers(S) ==
    /\ \E a \in S : cnt[a] = 0
    /\ \A a \in Anim : run[a] => ev_ts[a] < now
    /\ \A i \in DOMAIN leds : leds[i].ts < now

CountChange ==
    /\ pc = "count"
    /\ last_det' = IF people_count =< prev_people_count \/ Causes = {} THEN last_det
                   ELSE IF "DOWN" \in Causes THEN "DOWN" ELSE "UP"
    /\ Start(Events)
    /\ covered' = IF (people_count = 0) # (prev_people_count = 0)
                  THEN Covers(Events) /\ DOMAIN leds = 0 .. led_count - 1
                  ELSE covered
    /\ prev_people_count' = people_count
    /\ pc' = "timeout"
    /\ UNCHANGED <<ts, now, sensorVars, detVars, countVars, stripVars, userVars>>

\* Mutant of TimedOut: a faulty sensor holds it up.
TimedOutHealthy ==
    /\ people_count > 0
    /\ \A a \in Anim : ~run[a]
    /\ \A d \in Detector : ~err[d]
    /\ now - people_ts > OffTimeout

TimedOut ==
    /\ people_count > 0
    /\ \A a \in Anim : ~run[a]
    /\ now - people_ts > OffTimeout

\* leds_off_timeout after the last passage the stairs are declared empty.
Timeout ==
    /\ pc = "timeout"
    /\ LET off == IF last_det = "UP" THEN "off_down" ELSE "off_up"
       IN  IF TimedOut
           THEN /\ people_count' = 0
                /\ prev_people_count' = 0
                /\ Start({off})
                /\ covered' = (Covers({off}) /\ DOMAIN leds = 0 .. led_count - 1)
           ELSE UNCHANGED <<people_count, prev_people_count, run, ev_ts, covered>>
    /\ pc' = "lights"
    /\ UNCHANGED <<ts, now, sensorVars, detVars, people_ts, last_det, stripVars, userVars>>

-----------------------------------------------------------------------------
(* The animations.                                                         *)

\* Mutant of Put: no stamps.
PutAlways(strip, I, on, event_ts) ==
    [i \in DOMAIN strip |-> IF i \in I THEN [state |-> on, ts |-> event_ts] ELSE strip[i]]

\* stairway_leds_set_state for every index in I: an LED takes a newer event only.
Put(strip, I, on, event_ts) ==
    [i \in DOMAIN strip |->
        IF i \in I /\ strip[i].ts < event_ts
        THEN [state |-> on, ts |-> event_ts]
        ELSE strip[i]]

Larger(m, n)  == IF m > n THEN m ELSE n
Smaller(m, n) == IF m < n THEN m ELSE n

\* LEDs an animation lights at once at its start: the ones of the emergency zone.
Jump(a) ==
    CASE a = "on_up"    -> EmergencyCnt["UP"]
      [] a = "on_down"  -> EmergencyCnt["DOWN"]
      [] a \in OffAnim  -> 0

Sweeping(a) == run[a] /\ cnt[a] < led_count

\* The counter after one step of a sweep, and the LEDs the step visits.
NextCnt(a) == Larger(cnt[a], Smaller(Jump(a), led_count - 1)) + 1

Position(a, k) == IF a \in {"on_up", "off_down"} THEN led_count - k - 1 ELSE k

Visited(a) ==
    IF Sweeping(a) THEN {Position(a, k) : k \in cnt[a] .. NextCnt(a) - 1} ELSE {}

Sweep(strip, a) == Put(strip, Visited(a), a \in OnAnim, ev_ts[a])

\* Mutants of Step: a counter that is not reset; an animation that does not stop.
StepKeepsCounter ==
    /\ leds' = Sweep(Sweep(Sweep(Sweep(leds, "on_up"), "off_up"), "on_down"), "off_down")
    /\ cnt' = [a \in Anim |-> IF Sweeping(a) THEN NextCnt(a) ELSE cnt[a]]
    /\ run' = [a \in Anim |-> Sweeping(a)]
    /\ tick_ts' = ts

StepKeepsRunning ==
    /\ leds' = Sweep(Sweep(Sweep(Sweep(leds, "on_up"), "off_up"), "on_down"), "off_down")
    /\ cnt' = [a \in Anim |-> IF ~run[a] THEN cnt[a]
                              ELSE IF Sweeping(a) THEN NextCnt(a) ELSE 0]
    /\ UNCHANGED run
    /\ tick_ts' = ts

\* One step of every running animation; one whose sweep is over stops.
Step ==
    /\ leds' = Sweep(Sweep(Sweep(Sweep(leds, "on_up"), "off_up"), "on_down"), "off_down")
    /\ cnt' = [a \in Anim |-> IF ~run[a] THEN cnt[a]
                              ELSE IF Sweeping(a) THEN NextCnt(a) ELSE 0]
    /\ run' = [a \in Anim |-> Sweeping(a)]
    /\ tick_ts' = ts

Lights ==
    /\ pc = "lights"
    /\ IF ts - tick_ts > LedInterval
       THEN Step
       ELSE UNCHANGED <<leds, cnt, run, tick_ts>>
    /\ pc' = "refresh"
    /\ UNCHANGED <<ts, now, sensorVars, detVars, countVars, prev_people_count, last_det,
                   ev_ts, covered, refresh_ts, test_mode, userVars>>

\* Test mode writes the whole strip; a refresh first adapts the strip to led_count.
Tested ==
    IF test_mode # test_request
    THEN Put(leds, 0 .. led_count - 1, test_request, now)
    ELSE leds

Refresh ==
    /\ pc = "refresh"
    /\ test_mode' = test_request
    /\ covered' = (covered /\ test_mode = test_request)
    /\ IF now - refresh_ts > RefreshPeriod
       THEN /\ refresh_ts' = now
            /\ leds' = IF DOMAIN leds = 0 .. led_count - 1 THEN Tested ELSE DarkStrip(led_count)
       ELSE /\ leds' = Tested
            /\ UNCHANGED refresh_ts
    /\ pc' = "sense"
    /\ UNCHANGED <<ts, now, sensorVars, detVars, countVars, prev_people_count, last_det,
                   run, ev_ts, cnt, tick_ts, userVars>>

-----------------------------------------------------------------------------
Request ==
    \/ \E b \in BOOLEAN : PostTest(b)
    \/ \E n \in LedCounts : SetLedCount(n)

SenseAny ==
    \E r \in [Detector -> Readings], light \in LightStates, e \in Elapsed, s \in SendTimes :
        Sense(r, light, e, s)

Loop ==
    \/ SenseAny
    \/ \E d \in Detector : Detect(d)
    \/ CountChange
    \/ Timeout
    \/ Lights
    \/ Refresh

Next == Request \/ Loop

Spec == Init /\ [][Next]_vars

-----------------------------------------------------------------------------
(* Properties.                                                             *)

Phase == {"sense", "UP", "DOWN", "count", "timeout", "lights", "refresh"}
DetectorState == {"IDLE", "FIRST_LOCK", "SECOND_LOCK", "INC", "DEC"}
LedState == [state : BOOLEAN, ts : Nat]

TypeOK ==
    /\ pc \in Phase
    /\ now \in Nat \ {0}
    /\ ts \in 0 .. now
    /\ sens \in [Detector -> [first : BOOLEAN, second : BOOLEAN]]
    /\ err \in [Detector -> BOOLEAN]
    /\ block_by_light \in BOOLEAN
    /\ det \in [Detector -> DetectorState]
    /\ det_ts \in [Detector -> 0 .. now]
    /\ people_count \in Nat
    /\ prev_people_count \in Nat
    /\ people_ts \in 0 .. now
    /\ last_det \in Detector
    /\ run \in [Anim -> BOOLEAN]
    /\ cnt \in [Anim -> Nat]
    /\ ev_ts \in [Anim -> 0 .. now]
    /\ tick_ts \in 0 .. now
    /\ refresh_ts \in 0 .. now
    /\ led_count \in LedCounts
    /\ \E n \in LedCounts : leds \in [0 .. n - 1 -> LedState]
    /\ test_request \in BOOLEAN
    /\ test_mode \in BOOLEAN
    /\ covered \in BOOLEAN

\* Between two iterations, and no animation is running.
AtRest == pc = "sense" /\ \A a \in Anim : ~run[a]

\* Daylight blocks the lights only while nobody is on the stairs, and nobody
\* is counted, in any phase, while it does (main.c 190-207).
BlockedMeansEmpty == block_by_light => people_count = 0 /\ prev_people_count = 0

\* No change of the number of people goes unnoticed by the animations: only
\* between the detectors and CountChange do the two counts differ, and the
\* sweep counter of an animation that is not running is back at 0, so that
\* its next sweep visits every LED (main.c 276-325, 361-411).
SweepsStartAtZero ==
    /\ pc \notin {"DOWN", "count"} => prev_people_count = people_count
    /\ \A a \in Anim : ~run[a] => cnt[a] = 0

\* Once the animations have come to rest, every LED is lit exactly if there
\* are people on the stairs, provided the last change between empty and
\* occupied was covered by a full sweep and neither test mode nor led_count
\* changed since (main.c 276-420, stairway_leds.c 62-72).
LightsFollowPeople ==
    AtRest /\ covered => \A i \in DOMAIN leds : leds[i].state = (people_count > 0)

\* What the off timeout is for: with nobody counted on the stairs and nothing
\* running or requested, no LED stays lit.  The code does not keep this.
NoLedStaysLit ==
    AtRest /\ people_count = 0 => \A i \in DOMAIN leds : ~leds[i].state

\* The sensors see nobody (looked at where a detector reads them).
Quiet == pc \in Detector => ~sens[pc].first /\ ~sens[pc].second

\* When nobody passes any more, the people still counted are forgotten, also
\* with a faulty sensor, and the animations come to an end (main.c 312-411).
QuietStairsEmpty == <>[]Quiet => <>[](people_count = 0 /\ \A a \in Anim : ~run[a])

\* Every animation ends, however often it is restarted on its way and however
\* led_count changes under it (main.c 361-411).
AnimationsEnd == \A a \in Anim : run[a] ~> ~run[a]
=============================================================================
