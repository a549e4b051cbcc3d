--------------------------- MODULE StairwayProofs ---------------------------
(***************************************************************************)
(* Theorems about Stairway, for every value of its constants.  Inv is the  *)
(* inductive invariant of the count: the types and the two safety          *)
(* invariants that do not depend on the LED stamps; each of the two needs  *)
(* the other (a block can only begin when the two counts agree).           *)
(*                                                                         *)
(* LitInv, below, is what the LEDs add to it: a moment from which on the   *)
(* animations that are still running agree about the light, and have or    *)
(* will come to every LED that is older.                                   *)
(***************************************************************************)
EXTENDS Stairway, TLAPS

Inv == TypeOK /\ BlockedMeansEmpty /\ SweepsStartAtZero

\* What the detectors change: everything else is as before the phase.
DetectorFrame ==
    UNCHANGED <<ts, now, sens, err, block_by_light, prev_people_count, last_det, run, ev_ts,
                covered, cnt, tick_ts, refresh_ts, leds, test_mode, led_count, test_request>>

-----------------------------------------------------------------------------
\* A strip that is switched off has the type of a strip.
LEMMA DarkStripType ==
    ASSUME NEW n \in LedCounts
    PROVE  DarkStrip(n) \in [0 .. n - 1 -> LedState]
BY LedCountsAssumption DEF DarkStrip, LedState

\* Writing to a strip keeps its length and its type (stairway_leds_set_state
\* ignores an index outside the strip).
LEMMA PutType ==
    ASSUME NEW n \in LedCounts, NEW strip \in [0 .. n - 1 -> LedState],
           NEW I, NEW on \in BOOLEAN, NEW at \in Nat
    PROVE  Put(strip, I, on, at) \in [0 .. n - 1 -> LedState]
BY DEF Put, LedState

\* A step of a sweep moves its counter forward and never beyond led_count.
LEMMA NextCntBounds ==
    ASSUME TypeOK, NEW a \in Anim, Sweeping(a)
    PROVE  NextCnt(a) \in cnt[a] + 1 .. led_count
<1>1. led_count \in Nat \ {0}
  BY LedCountsAssumption DEF TypeOK
<1>2. cnt[a] \in Nat /\ cnt[a] < led_count
  BY DEF TypeOK, Sweeping
<1>3. Jump(a) \in Nat
  BY EmergencyAssumption DEF Jump, Anim, OnAnim, OffAnim, Detector
<1> QED
  BY <1>1, <1>2, <1>3 DEF NextCnt, Larger, Smaller

\* The strip after one step of all four animations is a strip.
LEMMA SweepType ==
    ASSUME TypeOK, NEW n \in LedCounts, NEW strip \in [0 .. n - 1 -> LedState], NEW a \in Anim
    PROVE  Sweep(strip, a) \in [0 .. n - 1 -> LedState]
<1>1. ev_ts[a] \in Nat
  BY DEF TypeOK
<1>2. (a \in OnAnim) \in BOOLEAN
  OBVIOUS
<1> QED
  BY <1>1, <1>2, PutType DEF Sweep

-----------------------------------------------------------------------------
\* The initial states satisfy the invariant.
LEMMA InitInv == Init => Inv
<1> SUFFICES ASSUME Init PROVE Inv
  OBVIOUS
<1>1. TypeOK
  <2>1. \E n \in LedCounts : leds \in [0 .. n - 1 -> LedState]
    BY DarkStripType DEF Init
  <2>2. now \in Nat \ {0} /\ 0 \in 0 .. now /\ ts \in 0 .. now
    BY DEF Init
  <2>3. det_ts \in [Detector -> 0 .. now] /\ ev_ts \in [Anim -> 0 .. now]
    BY <2>2 DEF Init
  <2>4. sens \in [Detector -> [first : BOOLEAN, second : BOOLEAN]]
    BY DEF Init
  <2>5. run \in [Anim -> BOOLEAN] /\ cnt \in [Anim -> Nat]
    BY DEF Init
  <2>6. last_det \in Detector /\ pc \in Phase
    BY DEF Init, Detector, Phase
  <2>7. det \in [Detector -> DetectorState] /\ err \in [Detector -> BOOLEAN]
    BY DEF Init, DetectorState
  <2>8. people_ts \in 0 .. now /\ tick_ts \in 0 .. now /\ refresh_ts \in 0 .. now
    BY <2>2 DEF Init
  <2> QED
    BY <2>1, <2>2, <2>3, <2>4, <2>5, <2>6, <2>7, <2>8 DEF Init, TypeOK
<1>2. BlockedMeansEmpty
  BY DEF Init, BlockedMeansEmpty
<1>3. SweepsStartAtZero
  BY DEF Init, SweepsStartAtZero
<1> QED
  BY <1>1, <1>2, <1>3 DEF Inv

\* A request of the user changes nothing but led_count and the test mode.
LEMMA RequestInv == Inv /\ Request => Inv'
<1> SUFFICES ASSUME Inv, Request PROVE Inv'
  OBVIOUS
<1> USE DEF Inv
<1>1. ASSUME NEW b \in BOOLEAN, PostTest(b) PROVE Inv'
  BY <1>1 DEF PostTest, TypeOK, BlockedMeansEmpty, SweepsStartAtZero, loopVars,
              sensorVars, detVars, countVars, eventVars, stripVars
<1>2. ASSUME NEW n \in LedCounts, SetLedCount(n) PROVE Inv'
  BY <1>2 DEF SetLedCount, TypeOK, BlockedMeansEmpty, SweepsStartAtZero, loopVars,
              sensorVars, detVars, countVars, stripVars
<1> QED
  BY <1>1, <1>2 DEF Request

\* Sensing: the block by light begins only on empty stairs.
LEMMA SenseInv == Inv /\ SenseAny => Inv'
<1> SUFFICES ASSUME Inv,
                    NEW r \in [Detector -> Readings], NEW light \in LightStates,
                    NEW e \in Elapsed, NEW s \in SendTimes,
                    Sense(r, light, e, s)
             PROVE  Inv'
  BY DEF SenseAny
<1> USE DEF Inv
<1>1. now' \in Nat \ {0} /\ now =< now' /\ ts' \in 0 .. now'
  BY BoundAssumption DEF Sense, TypeOK
<1>2. sens' \in [Detector -> [first : BOOLEAN, second : BOOLEAN]]
  BY DEF Sense
<1>3. err' \in [Detector -> BOOLEAN]
  BY DEF Sense
<1>4. block_by_light' \in BOOLEAN
  BY LightAssumption DEF Sense, Block, TypeOK
<1>5. 0 .. now \subseteq 0 .. now'
  BY <1>1 DEF TypeOK
<1>6. TypeOK'
  BY <1>1, <1>2, <1>3, <1>4, <1>5
     DEF Sense, TypeOK, Phase, detVars, countVars, eventVars, stripVars, userVars
<1>7. BlockedMeansEmpty'
  BY DEF Sense, Block, BlockedMeansEmpty, SweepsStartAtZero, countVars, eventVars
<1>8. SweepsStartAtZero'
  BY DEF Sense, SweepsStartAtZero, countVars, eventVars, stripVars
<1> QED
  BY <1>6, <1>7, <1>8

-----------------------------------------------------------------------------
\* What each turn of a detector leaves alone, where it goes next, and that it
\* counts nobody while the lights are blocked.
LEMMA DetectFrame ==
    ASSUME NEW d \in Detector, Detect(d)
    PROVE  /\ pc = d /\ pc' = NextPc
           /\ DetectorFrame
           /\ block_by_light => UNCHANGED people_count
BY DEF Detect, Blocked, Frozen, Idle, GiveUp, Inc, Dec, KeepLock, Passed, Works, Released,
       DetectorDone, DetectorFrame, countVars, sensorVars, eventVars, stripVars, userVars

\* The types of what a detector changes.
LEMMA DetectTypes ==
    ASSUME TypeOK, NEW d \in Detector, Detect(d)
    PROVE  /\ det' \in [Detector -> DetectorState]
           /\ det_ts' \in [Detector -> 0 .. now]
           /\ people_count' \in Nat
           /\ people_ts' \in 0 .. now
<1> USE DEF TypeOK, DetectorState
<1>1. now \in 0 .. now
  OBVIOUS
<1>2. ASSUME NEW s \in DetectorState, Enter(d, s)
      PROVE  det' \in [Detector -> DetectorState] /\ det_ts' \in [Detector -> 0 .. now]
  BY <1>1, <1>2 DEF Enter
<1>3. CASE Blocked(d)
  BY <1>2, <1>3 DEF Blocked, countVars
<1>4. CASE Frozen(d)
  BY <1>4 DEF Frozen, countVars, detVars
<1>5. CASE Idle(d)
  <2>1. \/ Enter(d, "FIRST_LOCK") \/ Enter(d, "SECOND_LOCK") \/ UNCHANGED detVars
    <3>1. sens[d].first \in BOOLEAN /\ sens[d].second \in BOOLEAN
      OBVIOUS
    <3> QED
      BY <1>5, <3>1 DEF Idle
  <2> QED
    BY <1>2, <1>5, <2>1 DEF Idle, countVars, detVars
<1>6. CASE GiveUp(d)
  BY <1>2, <1>6 DEF GiveUp, countVars
<1>7. CASE Inc(d)
  BY <1>1, <1>2, <1>7 DEF Inc
<1>8. CASE Dec(d)
  BY <1>1, <1>2, <1>8 DEF Dec, countVars
<1>9. CASE KeepLock(d)
  BY <1>9 DEF KeepLock, countVars, detVars
<1>10. CASE Passed(d)
  BY <1>2, <1>10 DEF Passed, countVars, detVars
<1> QED
  BY <1>3, <1>4, <1>5, <1>6, <1>7, <1>8, <1>9, <1>10 DEF Detect

\* The turn of a detector.
LEMMA DetectInv ==
    ASSUME Inv, NEW d \in Detector, Detect(d)
    PROVE  Inv'
<1> USE DEF Inv
<1>1. pc' \in {"DOWN", "count"}
  BY DetectFrame DEF NextPc
<1>2. TypeOK'
  BY <1>1, DetectFrame, DetectTypes, SMTT(30) DEF DetectorFrame, TypeOK, Phase
<1>3. BlockedMeansEmpty'
  BY DetectFrame DEF DetectorFrame, BlockedMeansEmpty
<1>4. SweepsStartAtZero'
  BY <1>1, DetectFrame DEF DetectorFrame, SweepsStartAtZero
<1> QED
  BY <1>2, <1>3, <1>4

-----------------------------------------------------------------------------
\* Starting animations keeps the types, and only adds running ones.
LEMMA StartTypes ==
    ASSUME TypeOK, NEW S, Start(S)
    PROVE  /\ run' \in [Anim -> BOOLEAN]
           /\ ev_ts' \in [Anim -> 0 .. now]
           /\ \A a \in Anim : run[a] => run'[a]
BY DEF Start, TypeOK

\* The change of the number of people.
LEMMA CountChangeInv == Inv /\ CountChange => Inv'
<1> SUFFICES ASSUME Inv, CountChange PROVE Inv'
  OBVIOUS
<1> USE DEF Inv
<1>1. Start(Events) /\ pc' = "timeout" /\ prev_people_count' = people_count
  BY DEF CountChange
<1>2. last_det' \in Detector
  BY DEF CountChange, TypeOK, Detector
<1>3. covered' \in BOOLEAN
  BY DEF CountChange, TypeOK, Covers
<1>4. UNCHANGED <<ts, now, sensorVars, detVars, countVars, stripVars, userVars>>
  BY DEF CountChange
<1>5. TypeOK'
  BY <1>1, <1>2, <1>3, <1>4, StartTypes
     DEF TypeOK, Phase, sensorVars, detVars, countVars, stripVars, userVars
<1>6. BlockedMeansEmpty'
  BY <1>1, <1>4 DEF BlockedMeansEmpty, sensorVars, countVars
<1>7. SweepsStartAtZero'
  BY <1>1, <1>4, <1>5, StartTypes DEF SweepsStartAtZero, TypeOK, countVars, stripVars
<1> QED
  BY <1>5, <1>6, <1>7

\* The off timeout.
LEMMA TimeoutInv == Inv /\ Timeout => Inv'
<1> SUFFICES ASSUME Inv, Timeout PROVE Inv'
  OBVIOUS
<1> USE DEF Inv
<1>1. \/ \E a : Start({a})
      \/ UNCHANGED <<run, ev_ts>>
  BY DEF Timeout
<1>2. /\ run' \in [Anim -> BOOLEAN]
      /\ ev_ts' \in [Anim -> 0 .. now]
      /\ \A a \in Anim : run[a] => run'[a]
  BY <1>1, StartTypes DEF TypeOK
<1>3. \/ people_count' = 0 /\ prev_people_count' = 0
      \/ UNCHANGED <<people_count, prev_people_count>>
  BY DEF Timeout
<1>4. covered' \in BOOLEAN
  BY DEF Timeout, TypeOK, Covers
<1>5. /\ pc = "timeout" /\ pc' = "lights"
      /\ UNCHANGED <<ts, now, sensorVars, detVars, people_ts, last_det, stripVars, userVars>>
  BY DEF Timeout
<1>6. TypeOK'
  BY <1>2, <1>3, <1>4, <1>5 DEF TypeOK, Phase, sensorVars, detVars, stripVars, userVars
<1>7. BlockedMeansEmpty'
  BY <1>3, <1>5 DEF BlockedMeansEmpty, sensorVars
<1>8. SweepsStartAtZero'
  BY <1>2, <1>3, <1>5, <1>6 DEF SweepsStartAtZero, TypeOK, stripVars
<1> QED
  BY <1>6, <1>7, <1>8

\* A step of the animations: one that stops leaves its counter at 0.
LEMMA LightsInv == Inv /\ Lights => Inv'
<1> SUFFICES ASSUME Inv, Lights PROVE Inv'
  OBVIOUS
<1> USE DEF Inv
<1>1. PICK n \in LedCounts : leds \in [0 .. n - 1 -> LedState]
  BY DEF TypeOK
<1>2. Step => leds' \in [0 .. n - 1 -> LedState]
  BY <1>1, SweepType DEF Step, Anim, OnAnim, OffAnim
<1>3. Step => cnt' \in [Anim -> Nat]
  <2>1. ASSUME NEW a \in Anim, Sweeping(a) PROVE NextCnt(a) \in Nat
    BY <2>1, NextCntBounds, LedCountsAssumption DEF TypeOK
  <2> QED
    BY <2>1 DEF Step, TypeOK
<1>4. Step => run' \in [Anim -> BOOLEAN] /\ tick_ts' \in 0 .. now
  BY DEF Step, Sweeping, TypeOK
<1>5. /\ pc = "lights" /\ pc' = "refresh"
      /\ Step \/ UNCHANGED <<leds, cnt, run, tick_ts>>
      /\ UNCHANGED <<ts, now, sensorVars, detVars, countVars, prev_people_count, last_det,
                     ev_ts, covered, refresh_ts, test_mode, userVars>>
  BY DEF Lights
<1>6. TypeOK'
  BY <1>1, <1>2, <1>3, <1>4, <1>5 DEF TypeOK, Phase, sensorVars, detVars, countVars, userVars
<1>7. BlockedMeansEmpty'
  BY <1>5 DEF BlockedMeansEmpty, sensorVars, countVars
<1>8. SweepsStartAtZero'
  <2>1. Step => \A a \in Anim : ~run'[a] => cnt'[a] = 0
    BY DEF Step, SweepsStartAtZero
  <2> QED
    BY <1>5, <2>1 DEF SweepsStartAtZero, countVars
<1> QED
  BY <1>6, <1>7, <1>8

\* Test mode and the refresh of the strip.
LEMMA RefreshInv == Inv /\ Refresh => Inv'
<1> SUFFICES ASSUME Inv, Refresh PROVE Inv'
  OBVIOUS
<1> USE DEF Inv
<1>1. PICK n \in LedCounts : leds \in [0 .. n - 1 -> LedState]
  BY DEF TypeOK
<1>2. Tested \in [0 .. n - 1 -> LedState]
  BY <1>1, PutType DEF Tested, TypeOK
<1>3. leds' \in {Tested, DarkStrip(led_count)}
  BY DEF Refresh
<1>4. \E m \in LedCounts : leds' \in [0 .. m - 1 -> LedState]
  BY <1>2, <1>3, DarkStripType DEF TypeOK
<1>5. refresh_ts' \in 0 .. now /\ test_mode' \in BOOLEAN /\ covered' \in BOOLEAN
  BY DEF Refresh, TypeOK
<1>6. /\ pc = "refresh" /\ pc' = "sense"
      /\ UNCHANGED <<ts, now, sensorVars, detVars, countVars, prev_people_count, last_det,
                     run, ev_ts, cnt, tick_ts, userVars>>
  BY DEF Refresh
<1>7. TypeOK'
  BY <1>4, <1>5, <1>6 DEF TypeOK, Phase, sensorVars, detVars, countVars, userVars
<1>8. BlockedMeansEmpty' /\ SweepsStartAtZero'
  BY <1>6 DEF BlockedMeansEmpty, SweepsStartAtZero, sensorVars, countVars
<1> QED
  BY <1>7, <1>8

-----------------------------------------------------------------------------
\* Every step keeps the invariant.
LEMMA NextInv == Inv /\ [Next]_vars => Inv'
<1> SUFFICES ASSUME Inv, [Next]_vars PROVE Inv'
  OBVIOUS
<1>1. CASE Request
  BY <1>1, RequestInv
<1>2. CASE SenseAny
  BY <1>2, SenseInv
<1>3. CASE \E d \in Detector : Detect(d)
  BY <1>3, DetectInv
<1>4. CASE CountChange
  BY <1>4, CountChangeInv
<1>5. CASE Timeout
  BY <1>5, TimeoutInv
<1>6. CASE Lights
  BY <1>6, LightsInv
<1>7. CASE Refresh
  BY <1>7, RefreshInv
<1>8. CASE UNCHANGED vars
  BY <1>8 DEF Inv, TypeOK, BlockedMeansEmpty, SweepsStartAtZero, vars, loopVars, sensorVars,
              detVars, countVars, eventVars, stripVars, userVars
<1> QED
  BY <1>1, <1>2, <1>3, <1>4, <1>5, <1>6, <1>7, <1>8 DEF Next, Loop

\* The variables keep their types, for any settings and any readings.
THEOREM TypeCorrect == Spec => []TypeOK
<1>1. Inv => TypeOK
  BY DEF Inv
<1> QED
  BY <1>1, InitInv, NextInv, PTL DEF Spec

\* Nobody is counted while daylight blocks the lights (main.c 190-207).
THEOREM BlockedEmpty == Spec => []BlockedMeansEmpty
<1>1. Inv => BlockedMeansEmpty
  BY DEF Inv
<1> QED
  BY <1>1, InitInv, NextInv, PTL DEF Spec

\* Every change of the number of people reaches the animations, and every
\* animation begins its sweep at the first LED (main.c 276-325, 361-411).
THEOREM SweepsComplete == Spec => []SweepsStartAtZero
<1>1. Inv => SweepsStartAtZero
  BY DEF Inv
<1> QED
  BY <1>1, InitInv, NextInv, PTL DEF Spec

-----------------------------------------------------------------------------
(* The LEDs follow the people.  A covered change leaves a moment T from    *)
(* which on the lights are decided: an LED or a running animation that is  *)
(* not older than T has the wanted state, and either every LED has been    *)
(* reached since T or a running sweep is on its way to those that have     *)
(* not.  T is the time of the change; 0 does for the dark strip of boot.   *)

Wanted == prev_people_count > 0

\* When animation a comes to LED i.
Turn(a, i) == IF a \in {"on_up", "off_down"} THEN led_count - i - 1 ELSE i

LedsRight(strip, T) == \A i \in DOMAIN strip : strip[i].ts >= T => strip[i].state = Wanted

AnimsRight(T) == \A a \in Anim : run[a] /\ ev_ts[a] >= T => (a \in OnAnim) = Wanted

SweptBy(a, T) ==
    /\ run[a]
    /\ ev_ts[a] >= T
    /\ \A i \in DOMAIN leds : Turn(a, i) < cnt[a] => leds[i].ts >= T

Reached(T) ==
    \/ \A i \in DOMAIN leds : leds[i].ts >= T
    \/ \E a \in Anim : SweptBy(a, T)

Decided(T) == LedsRight(leds, T) /\ AnimsRight(T) /\ Reached(T)

StripFits == DOMAIN leds = 0 .. led_count - 1

LitInv == covered => StripFits /\ \E T \in 0 .. now : Decided(T)

\* A step that touches neither lights nor animations nor what is wanted of them.
LEMMA LightsFrame ==
    ASSUME TypeOK, LitInv, now' \in Nat, now =< now',
           UNCHANGED <<prev_people_count, run, ev_ts, covered, cnt, leds, led_count>>
    PROVE  LitInv'
<1>1. 0 .. now \subseteq 0 .. now'
  BY DEF TypeOK
<1>2. ASSUME NEW T, Decided(T) PROVE Decided(T)'
  BY <1>2 DEF Decided, LedsRight, AnimsRight, Reached, SweptBy, Turn, Wanted
<1> QED
  BY <1>1, <1>2 DEF LitInv, StripFits

\* One animation keeps the decided LEDs right and the stamps growing, and
\* leaves nothing older than its event where it went.
LEMMA SweepRight ==
    ASSUME TypeOK, NEW n \in LedCounts, NEW strip \in [0 .. n - 1 -> LedState],
           NEW a \in Anim, NEW T \in Nat, LedsRight(strip, T), AnimsRight(T)
    PROVE  /\ LedsRight(Sweep(strip, a), T)
           /\ \A i \in 0 .. n - 1 :
                 /\ Sweep(strip, a)[i].ts >= strip[i].ts
                 /\ i \in Visited(a) => Sweep(strip, a)[i].ts >= ev_ts[a]
<1> DEFINE new == Sweep(strip, a)
<1>1. ev_ts[a] \in Nat
  BY DEF TypeOK
<1>2. \A i \in 0 .. n - 1 : strip[i].ts \in Nat
  BY DEF LedState
<1>3. \A i \in 0 .. n - 1 :
         \/ new[i] = strip[i] /\ (i \in Visited(a) => strip[i].ts >= ev_ts[a])
         \/ /\ i \in Visited(a) /\ strip[i].ts < ev_ts[a]
            /\ new[i] = [state |-> a \in OnAnim, ts |-> ev_ts[a]]
  BY <1>1, <1>2 DEF Sweep, Put
<1>4. DOMAIN new = 0 .. n - 1 /\ DOMAIN strip = 0 .. n - 1
  BY DEF Sweep, Put
<1>5. ASSUME NEW i \in 0 .. n - 1, i \in Visited(a), ev_ts[a] >= T
      PROVE  (a \in OnAnim) = Wanted
  BY <1>5 DEF Visited, Sweeping, AnimsRight
<1>6. \A i \in 0 .. n - 1 : new[i].ts >= strip[i].ts /\ (i \in Visited(a) => new[i].ts >= ev_ts[a])
  BY <1>1, <1>2, <1>3
<1>7. ASSUME NEW i \in 0 .. n - 1, new[i].ts >= T
      PROVE  new[i].state = Wanted
  <2>1. CASE new[i] = strip[i]
    BY <2>1, <1>4, <1>7 DEF LedsRight
  <2>2. CASE i \in Visited(a) /\ new[i] = [state |-> a \in OnAnim, ts |-> ev_ts[a]]
    BY <2>2, <1>5, <1>7
  <2> QED
    BY <2>1, <2>2, <1>3
<1>8. LedsRight(new, T)
  BY <1>4, <1>7 DEF LedsRight
<1> QED
  BY <1>6, <1>8

\* A sweep goes through the strip in the order of Turn.
LEMMA TurnVisited ==
    ASSUME TypeOK, StripFits, NEW a \in Anim, Sweeping(a), NEW i \in DOMAIN leds
    PROVE  Turn(a, i) < NextCnt(a) => Turn(a, i) < cnt[a] \/ i \in Visited(a)
<1>1. NextCnt(a) \in cnt[a] + 1 .. led_count /\ cnt[a] \in Nat /\ led_count \in Nat
  BY NextCntBounds, LedCountsAssumption DEF TypeOK
<1>2. i \in 0 .. led_count - 1 /\ Turn(a, i) \in Nat
  BY <1>1 DEF StripFits, Turn
<1>3. Position(a, Turn(a, i)) = i
  BY <1>1, <1>2 DEF Position, Turn
<1>4. ASSUME Turn(a, i) < NextCnt(a), ~(Turn(a, i) < cnt[a])
      PROVE  Turn(a, i) \in cnt[a] .. NextCnt(a) - 1
  BY <1>1, <1>2, <1>4
<1> QED
  BY <1>3, <1>4 DEF Visited

\* A step of the animations goes on with what was decided.
LEMMA StepDecides ==
    ASSUME TypeOK, StripFits, NEW T \in Nat, Decided(T), Step,
           UNCHANGED <<prev_people_count, ev_ts, led_count>>
    PROVE  StripFits' /\ Decided(T)'
<1>1. PICK n \in LedCounts : leds \in [0 .. n - 1 -> LedState]
  BY DEF TypeOK
<1> DEFINE s1 == Sweep(leds, "on_up")
           s2 == Sweep(s1, "off_up")
           s3 == Sweep(s2, "on_down")
           s4 == Sweep(s3, "off_down")
<1>2. "on_up" \in Anim /\ "off_up" \in Anim /\ "on_down" \in Anim /\ "off_down" \in Anim
  BY DEF Anim, OnAnim, OffAnim
<1>3. LedsRight(leds, T) /\ AnimsRight(T) /\ Reached(T)
  BY DEF Decided
<1>4. s1 \in [0 .. n - 1 -> LedState] /\ s2 \in [0 .. n - 1 -> LedState]
  BY <1>1, <1>2, SweepType
<1>5. s3 \in [0 .. n - 1 -> LedState] /\ s4 \in [0 .. n - 1 -> LedState]
  BY <1>2, <1>4, SweepType
<1>6. /\ LedsRight(s1, T)
      /\ \A i \in 0 .. n - 1 : /\ s1[i].ts >= leds[i].ts
                               /\ i \in Visited("on_up") => s1[i].ts >= ev_ts["on_up"]
  BY <1>1, <1>2, <1>3, SweepRight
<1>7. /\ LedsRight(s2, T)
      /\ \A i \in 0 .. n - 1 : /\ s2[i].ts >= s1[i].ts
                               /\ i \in Visited("off_up") => s2[i].ts >= ev_ts["off_up"]
  BY <1>2, <1>3, <1>4, <1>6, SweepRight
<1>8. /\ LedsRight(s3, T)
      /\ \A i \in 0 .. n - 1 : /\ s3[i].ts >= s2[i].ts
                               /\ i \in Visited("on_down") => s3[i].ts >= ev_ts["on_down"]
  BY <1>2, <1>3, <1>4, <1>7, SweepRight
<1>9. /\ LedsRight(s4, T)
      /\ \A i \in 0 .. n - 1 : /\ s4[i].ts >= s3[i].ts
                               /\ i \in Visited("off_down") => s4[i].ts >= ev_ts["off_down"]
  BY <1>2, <1>3, <1>5, <1>8, SweepRight
<1>10. leds' = s4
  BY DEF Step
<1>11. DOMAIN leds = 0 .. n - 1 /\ DOMAIN leds' = DOMAIN leds
  BY <1>1, <1>5, <1>10
<1>12. \A i \in DOMAIN leds :
          /\ leds[i].ts \in Nat /\ s1[i].ts \in Nat /\ s2[i].ts \in Nat
          /\ s3[i].ts \in Nat /\ s4[i].ts \in Nat
  BY <1>1, <1>4, <1>5, <1>11 DEF LedState
<1>13. \A a \in Anim : ev_ts[a] \in Nat
  BY DEF TypeOK
<1>14. ASSUME NEW a \in Anim, NEW i \in DOMAIN leds
       PROVE  /\ leds'[i].ts \in Nat
              /\ leds'[i].ts >= leds[i].ts
              /\ i \in Visited(a) => leds'[i].ts >= ev_ts[a]
  <2> HIDE DEF s1, s2, s3, s4
  <2>1. a = "on_up" \/ a = "off_up" \/ a = "on_down" \/ a = "off_down"
    BY DEF Anim, OnAnim, OffAnim
  <2>2. i \in 0 .. n - 1
    BY <1>11
  <2>3. /\ s1[i].ts >= leds[i].ts
        /\ i \in Visited("on_up") => s1[i].ts >= ev_ts["on_up"]
    BY <1>6, <2>2
  <2>4. /\ s2[i].ts >= s1[i].ts
        /\ i \in Visited("off_up") => s2[i].ts >= ev_ts["off_up"]
    BY <1>7, <2>2
  <2>5. /\ s3[i].ts >= s2[i].ts
        /\ i \in Visited("on_down") => s3[i].ts >= ev_ts["on_down"]
    BY <1>8, <2>2
  <2>6. /\ s4[i].ts >= s3[i].ts
        /\ i \in Visited("off_down") => s4[i].ts >= ev_ts["off_down"]
    BY <1>9, <2>2
  <2>7. /\ leds[i].ts \in Nat /\ s1[i].ts \in Nat /\ s2[i].ts \in Nat
        /\ s3[i].ts \in Nat /\ s4[i].ts \in Nat
    BY <1>12
  <2>8. ev_ts[a] \in Nat
    BY <1>13
  <2> HIDE DEF Visited
  <2> QED
    BY <1>10, <2>1, <2>3, <2>4, <2>5, <2>6, <2>7, <2>8
<1>15. StripFits'
  BY <1>11 DEF StripFits
<1>16. LedsRight(leds, T)'
  <2>1. \A i \in DOMAIN s4 : s4[i].ts >= T => s4[i].state = Wanted
    BY <1>9 DEF LedsRight
  <2> QED
    BY <1>10, <2>1 DEF LedsRight, Wanted
<1>17. AnimsRight(T)'
  BY <1>3 DEF AnimsRight, Wanted, Step, Sweeping
<1>18. Reached(T)'
  <2>1. CASE \A i \in DOMAIN leds : leds[i].ts >= T
    <3>1. \A i \in DOMAIN leds : leds'[i].ts >= T
      BY <1>2, <1>12, <1>14, <2>1
    <3> QED
      BY <1>11, <3>1 DEF Reached
  <2>2. ASSUME NEW a \in Anim, SweptBy(a, T), Sweeping(a) PROVE Reached(T)'
    <3>1. run'[a] /\ cnt'[a] = NextCnt(a)
      BY <2>2 DEF Step, SweptBy
    <3>2. ASSUME NEW i \in DOMAIN leds, Turn(a, i) < NextCnt(a) PROVE leds'[i].ts >= T
      <4>1. Turn(a, i) < cnt[a] \/ i \in Visited(a)
        BY <2>2, <3>2, TurnVisited
      <4>2. leds[i].ts >= T \/ i \in Visited(a)
        BY <2>2, <4>1 DEF SweptBy
      <4>3. leds'[i].ts >= leds[i].ts /\ (i \in Visited(a) => leds'[i].ts >= ev_ts[a])
        BY <1>14
      <4>4. leds'[i].ts \in Nat /\ leds[i].ts \in Nat /\ ev_ts[a] \in Nat /\ ev_ts[a] >= T
        BY <1>12, <1>13, <1>14, <2>2 DEF SweptBy
      <4> QED
        BY <4>2, <4>3, <4>4
    <3>3. \A i : Turn(a, i)' = Turn(a, i)
      BY DEF Turn
    <3>4. SweptBy(a, T)'
      BY <1>11, <2>2, <3>1, <3>2, <3>3 DEF SweptBy
    <3> QED
      BY <3>4 DEF Reached
  <2>3. ASSUME NEW a \in Anim, SweptBy(a, T), ~Sweeping(a) PROVE Reached(T)'
    <3>1. cnt[a] \in Nat /\ led_count \in Nat /\ cnt[a] >= led_count
      BY <2>3, LedCountsAssumption DEF SweptBy, Sweeping, TypeOK
    <3>2. \A i \in DOMAIN leds : Turn(a, i) < cnt[a]
      BY <3>1 DEF StripFits, Turn
    <3>3. \A i \in DOMAIN leds : leds[i].ts >= T
      BY <2>3, <3>2 DEF SweptBy
    <3> QED
      BY <2>1, <3>3
  <2> QED
    BY <1>3, <2>1, <2>2, <2>3 DEF Reached
<1> QED
  BY <1>15, <1>16, <1>17, <1>18 DEF Decided

\* Animations started for a covered change decide the lights from now on.
LEMMA StartCovers ==
    ASSUME TypeOK, StripFits, NEW S \in SUBSET Anim, Start(S), Covers(S),
           UNCHANGED <<now, cnt, leds, led_count>>,
           \A a \in S : (a \in OnAnim) = (prev_people_count' > 0)
    PROVE  StripFits' /\ Decided(now)'
<1>1. \A i \in DOMAIN leds : ~(leds[i].ts >= now)
  <2>1. \A i \in DOMAIN leds : leds[i].ts \in Nat /\ now \in Nat
    BY DEF TypeOK, LedState
  <2>2. \A i \in DOMAIN leds : leds[i].ts < now
    BY DEF Covers
  <2> QED
    BY <2>1, <2>2
<1>2. LedsRight(leds, now)'
  BY <1>1 DEF LedsRight
<1>3. \A a \in Anim : run'[a] /\ ev_ts'[a] >= now => a \in S
  <2> SUFFICES ASSUME NEW a \in Anim, run'[a], ev_ts'[a] >= now, a \notin S PROVE FALSE
    OBVIOUS
  <2>1. ev_ts[a] \in Nat /\ now \in Nat
    BY DEF TypeOK
  <2>2. run[a] /\ ev_ts'[a] = ev_ts[a]
    BY DEF Start
  <2>3. ev_ts[a] < now
    BY <2>2 DEF Covers
  <2> QED
    BY <2>1, <2>2, <2>3
<1>4. AnimsRight(now)'
  BY <1>3 DEF AnimsRight, Wanted
<1>5. PICK a \in S : cnt[a] = 0
  BY DEF Covers
<1>6. run'[a] /\ ev_ts'[a] = now /\ cnt'[a] = 0
  BY <1>5 DEF Start
<1>7. \A i \in DOMAIN leds' : ~(Turn(a, i)' < 0)
  BY LedCountsAssumption DEF Turn, StripFits, TypeOK
<1>8. SweptBy(a, now)'
  BY <1>6, <1>7 DEF SweptBy, TypeOK
<1>9. Reached(now)'
  BY <1>5, <1>8 DEF Reached
<1> QED
  BY <1>2, <1>4, <1>9 DEF Decided, StripFits

\* Animations of the wanted kind that are started later do not disturb it.
LEMMA StartKeeps ==
    ASSUME TypeOK, NEW T \in 0 .. now, Decided(T), NEW S \in SUBSET Anim, Start(S),
           UNCHANGED <<now, cnt, leds, led_count>>, Wanted' = Wanted,
           \A a \in S : (a \in OnAnim) = Wanted
    PROVE  Decided(T)'
<1>1. LedsRight(leds, T)'
  BY DEF Decided, LedsRight
<1>2. \A a \in Anim : /\ ev_ts'[a] = IF a \in S THEN now ELSE ev_ts[a]
                      /\ run'[a] = (run[a] \/ a \in S)
  BY DEF Start
<1>3. AnimsRight(T)'
  <2> SUFFICES ASSUME NEW a \in Anim, run'[a], ev_ts'[a] >= T
               PROVE  (a \in OnAnim) = Wanted
    BY DEF AnimsRight
  <2> QED
    BY <1>2 DEF Decided, AnimsRight
<1>4. CASE \A i \in DOMAIN leds : leds[i].ts >= T
  BY <1>1, <1>3, <1>4 DEF Decided, Reached
<1>5. ASSUME NEW a \in Anim, SweptBy(a, T) PROVE Decided(T)'
  <2>1. run'[a] /\ ev_ts'[a] >= T
    <3>1. run[a] /\ ev_ts[a] >= T /\ now >= T
      BY <1>5 DEF SweptBy, TypeOK
    <3> QED
      BY <1>2, <3>1
  <2>2. \A i : Turn(a, i)' = Turn(a, i)
    BY DEF Turn
  <2>3. SweptBy(a, T)'
    BY <1>5, <2>1, <2>2 DEF SweptBy
  <2> QED
    BY <1>1, <1>3, <2>3 DEF Decided, Reached
<1> QED
  BY <1>4, <1>5 DEF Decided, Reached

\* What a change of the number of people starts.
LEMMA EventsKind ==
    ASSUME TypeOK
    PROVE  /\ Events \in SUBSET Anim
           /\ \A a \in Events : /\ (a \in OnAnim) = (people_count > prev_people_count)
                                /\ people_count > prev_people_count \/ people_count = 0
           /\ people_count = prev_people_count => Events = {}
<1>1. \A d \in Detector, on \in BOOLEAN :
         AnimOf(d, on) \in Anim /\ (AnimOf(d, on) \in OnAnim) = on
  BY DEF Detector, AnimOf, Anim, OnAnim, OffAnim
<1>2. Causes \in SUBSET Detector /\ (people_count = prev_people_count => Causes = {})
  BY DEF Causes, TypeOK
<1>3. (people_count > prev_people_count) \in BOOLEAN
  OBVIOUS
<1> QED
  BY <1>1, <1>2, <1>3 DEF Events

-----------------------------------------------------------------------------
\* The change of the number of people decides the lights, or keeps them as they were.
LEMMA CountChangeLights ==
    ASSUME Inv, LitInv, CountChange
    PROVE  LitInv'
<1> USE DEF Inv
<1>1. /\ Start(Events) /\ prev_people_count' = people_count
      /\ UNCHANGED <<now, cnt, leds, led_count>>
      /\ covered' = IF (people_count = 0) # (prev_people_count = 0)
                    THEN Covers(Events) /\ StripFits ELSE covered
  BY DEF CountChange, StripFits, stripVars, userVars
<1>2. people_count \in Nat /\ prev_people_count \in Nat /\ now \in Nat
  BY DEF TypeOK
<1>3. CASE (people_count = 0) # (prev_people_count = 0)
  <2> SUFFICES ASSUME Covers(Events), StripFits PROVE StripFits' /\ Decided(now)'
    <3>1. now' \in 0 .. now'
      BY <1>1, <1>2
    <3>2. covered' => Covers(Events) /\ StripFits
      BY <1>1, <1>3
    <3> QED
      BY <3>1, <3>2 DEF LitInv
  <2>1. \A a \in Events : (a \in OnAnim) = (prev_people_count' > 0)
    BY <1>1, <1>2, <1>3, EventsKind
  <2> QED
    BY <1>1, <2>1, EventsKind, StartCovers
<1>4. CASE (people_count = 0) = (prev_people_count = 0)
  <2> SUFFICES ASSUME covered, NEW T \in 0 .. now, Decided(T), StripFits
               PROVE  StripFits' /\ Decided(T)'
    BY <1>1, <1>4 DEF LitInv
  <2>1. Wanted' = Wanted
    BY <1>1, <1>2, <1>4 DEF Wanted
  <2>2. \A a \in Events : (a \in OnAnim) = Wanted
    BY <1>2, <1>4, EventsKind DEF Wanted
  <2> QED
    BY <1>1, <2>1, <2>2, EventsKind, StartKeeps DEF StripFits
<1> QED
  BY <1>3, <1>4

\* So does the off timeout, which comes when no animation is running.
LEMMA TimeoutLights ==
    ASSUME Inv, LitInv, Timeout
    PROVE  LitInv'
<1> USE DEF Inv
<1>1. UNCHANGED <<now, cnt, leds, led_count>>
  BY DEF Timeout, stripVars, userVars
<1>2. CASE ~TimedOut
  BY <1>1, <1>2, LightsFrame DEF Timeout, TypeOK
<1>3. CASE TimedOut
  <2>1. PICK off \in OffAnim :
           /\ Start({off}) /\ prev_people_count' = 0
           /\ covered' = (Covers({off}) /\ StripFits)
    BY <1>3 DEF Timeout, OffAnim, StripFits
  <2>2. {off} \in SUBSET Anim /\ off \notin OnAnim
    BY DEF Anim, OnAnim, OffAnim
  <2> SUFFICES ASSUME Covers({off}), StripFits PROVE StripFits' /\ Decided(now)'
    <3>1. now' \in 0 .. now'
      BY <1>1 DEF TypeOK
    <3> QED
      BY <2>1, <3>1 DEF LitInv
  <2> QED
    BY <1>1, <2>1, <2>2, StartCovers
<1> QED
  BY <1>2, <1>3

\* A refresh writes nothing to a strip that fits, unless test mode changes.
LEMMA RefreshLights ==
    ASSUME Inv, LitInv, Refresh
    PROVE  LitInv'
<1> USE DEF Inv
<1>1. /\ covered' = (covered /\ test_mode = test_request)
      /\ UNCHANGED <<now, prev_people_count, run, ev_ts, cnt, led_count>>
  BY DEF Refresh, userVars
<1>2. CASE ~covered'
  BY <1>2 DEF LitInv
<1>3. CASE covered'
  <2>1. StripFits /\ Tested = leds
    BY <1>1, <1>3 DEF LitInv, Tested
  <2>2. leds' = leds /\ covered' = covered
    BY <1>1, <1>3, <2>1 DEF Refresh, StripFits
  <2> QED
    BY <1>1, <2>2, LightsFrame DEF TypeOK
<1> QED
  BY <1>2, <1>3

\* Every step keeps what was decided about the lights.
LEMMA NextLights == Inv /\ LitInv /\ [Next]_vars => LitInv'
<1> SUFFICES ASSUME Inv, LitInv, [Next]_vars PROVE LitInv'
  OBVIOUS
<1>1. TypeOK
  BY DEF Inv
<1>2. CASE Request
  <2>1. ASSUME NEW b \in BOOLEAN, PostTest(b) PROVE LitInv'
    BY <1>1, <2>1, LightsFrame DEF PostTest, TypeOK, loopVars, eventVars, stripVars
  <2>2. ASSUME NEW n \in LedCounts, SetLedCount(n) PROVE LitInv'
    BY <2>2 DEF SetLedCount, LitInv
  <2> QED
    BY <1>2, <2>1, <2>2 DEF Request
<1>3. CASE SenseAny
  <2> SUFFICES ASSUME NEW r \in [Detector -> Readings], NEW light \in LightStates,
                      NEW e \in Elapsed, NEW s \in SendTimes, Sense(r, light, e, s)
               PROVE  LitInv'
    BY <1>3 DEF SenseAny
  <2>1. now' \in Nat /\ now =< now'
    BY <1>1, BoundAssumption DEF Sense, TypeOK
  <2> QED
    BY <1>1, <2>1, LightsFrame DEF Sense, eventVars, stripVars, userVars
<1>4. ASSUME NEW d \in Detector, Detect(d) PROVE LitInv'
  BY <1>1, <1>4, DetectFrame, LightsFrame DEF DetectorFrame, TypeOK
<1>5. CASE CountChange
  BY <1>5, CountChangeLights
<1>6. CASE Timeout
  BY <1>6, TimeoutLights
<1>7. CASE Lights
  <2>1. UNCHANGED <<now, prev_people_count, ev_ts, covered, led_count>>
    BY <1>7 DEF Lights, userVars
  <2>2. CASE Step
    BY <1>1, <2>1, <2>2, StepDecides DEF LitInv
  <2>3. CASE UNCHANGED <<leds, cnt, run, tick_ts>>
    BY <1>1, <2>1, <2>3, LightsFrame DEF TypeOK
  <2> QED
    BY <1>7, <2>2, <2>3 DEF Lights
<1>8. CASE Refresh
  BY <1>8, RefreshLights
<1>9. CASE UNCHANGED vars
  BY <1>1, <1>9, LightsFrame DEF TypeOK, vars, loopVars, eventVars, stripVars, userVars
<1> QED
  BY <1>2, <1>3, <1>4, <1>5, <1>6, <1>7, <1>8, <1>9 DEF Next, Loop

\* The strip that boot switches off is as wanted.
LEMMA InitLights == Init => LitInv
<1> SUFFICES ASSUME Init PROVE LitInv
  OBVIOUS
<1>1. led_count \in Nat \ {0} /\ leds = [i \in 0 .. led_count - 1 |-> [state |-> FALSE, ts |-> 0]]
  BY LedCountsAssumption DEF Init, DarkStrip
<1>2. Wanted = FALSE /\ \A a \in Anim : ~run[a]
  BY DEF Init, Wanted
<1>3. Decided(0)
  <2>1. \A i \in DOMAIN leds : leds[i].state = FALSE /\ leds[i].ts = 0
    BY <1>1
  <2>2. \A i \in DOMAIN leds : leds[i].state = Wanted
    BY <1>2, <2>1
  <2>3. \A i \in DOMAIN leds : leds[i].ts >= 0
    BY <2>1
  <2> QED
    BY <1>2, <2>2, <2>3 DEF Decided, LedsRight, AnimsRight, Reached
<1>4. StripFits /\ 0 \in 0 .. now
  BY <1>1 DEF StripFits, Init
<1> QED
  BY <1>3, <1>4 DEF LitInv

\* When the animations have come to rest after a covered change, every LED of
\* a strip of any length is lit exactly if there are people on the stairs
\* (main.c 276-420, stairway_leds.c 62-72).
THEOREM LightsRight == Spec => []LightsFollowPeople
<1>1. Inv /\ LitInv => LightsFollowPeople
  <2> SUFFICES ASSUME Inv, AtRest, NEW T \in 0 .. now, Decided(T)
               PROVE  \A i \in DOMAIN leds : leds[i].state = (people_count > 0)
    BY DEF LitInv, LightsFollowPeople
  <2>1. \A i \in DOMAIN leds : leds[i].ts >= T
    BY DEF AtRest, Decided, Reached, SweptBy
  <2>2. prev_people_count = people_count
    BY DEF Inv, SweepsStartAtZero, AtRest
  <2> QED
    BY <2>1, <2>2 DEF Decided, LedsRight, Wanted
<1> QED
  BY <1>1, InitInv, NextInv, InitLights, NextLights, PTL DEF Spec
=============================================================================
