---------------------------- MODULE PeopleProofs -----------------------------
(***************************************************************************)
(* Theorems about the two modules that extend Stairway by the people in    *)
(* front of its sensors, for every value of their constants.               *)
(*                                                                         *)
(* Walkers: the people on the stairs are counted correctly, for every      *)
(* debounce time, every speed of the loop, every number of people and      *)
(* every fault of an empty doorway.  It is proved for darkness             *)
(* (LightStates = {FALSE}): by day the controller does not count who       *)
(* enters empty stairs, which is what the block by light is for.           *)
(*                                                                         *)
(* EmergencyLights: the block after SECOND_LOCK is honoured, as long as no *)
(* SECOND sensor has a fault; a faulty one freezes its detector, and the   *)
(* run EmergencyFault shows that the block does fail then.                 *)
(***************************************************************************)
EXTENDS Walkers, EmergencyLights, StairwayProofs, FiniteSetTheorems

(***************************************************************************)
(* The bookkeeping that CountIsRight rests on.  A person who is in a       *)
(* doorway is on one side of it for the controller and may be on the other *)
(* in fact: Balance is the number of people the controller should know of. *)
(* Matches says how far a detector has got with the person in its doorway, *)
(* which is what makes every passage counted exactly once.                 *)
(***************************************************************************)
Bit(b) == IF b THEN 1 ELSE 0

Early(d) == walker[d] \in Entering /\ det[d] = "INC"
Gone(d)  == walker[d] \in Leaving /\ det[d] = "DEC"

Balance ==
    inside + Bit(Early("UP")) + Bit(Early("DOWN")) - Bit(Gone("UP")) - Bit(Gone("DOWN"))

Balanced ==
    /\ people_count =< Balance
    /\ ~lost => people_count = Balance

\* Detector d has yet to take its turn in this iteration.
Fresh(d) == pc = d \/ pc = "UP"

\* The states a detector goes through for a person at stage w.
LockFor(w) == IF w \in Entering THEN "FIRST_LOCK" ELSE "SECOND_LOCK"
PassFor(w) == IF w \in Entering THEN "INC" ELSE "DEC"

Outside == {"in_first", "out_second"}
Both    == {"in_both", "out_both"}
Through == {"in_second", "out_first"}

Matches(d) ==
    /\ walker[d] = "none" => det[d] \in {"IDLE", "INC", "DEC"}
    /\ walker[d] \in Outside =>
          det[d] = LockFor(walker[d]) \/ (Fresh(d) /\ det[d] = "IDLE")
    /\ walker[d] \in Both =>
          det[d] = PassFor(walker[d]) \/ (Fresh(d) /\ det[d] = LockFor(walker[d]))
    /\ walker[d] \in Gap =>
          det[d] = LockFor(walker[d]) /\ now + Slowest - det_ts[d] =< Debounce
    /\ walker[d] \in Through =>
          \/ det[d] = PassFor(walker[d])
          \/ Fresh(d) /\ det[d] = LockFor(walker[d]) /\ now - det_ts[d] =< Debounce

\* While the detectors work, the readings are those of the people in the doorways.
Sees(d) ==
    pc \in Detector =>
        /\ sens[d].first = (walker[d] \in {"in_first", "in_both", "out_first", "out_both"})
        /\ sens[d].second = (walker[d] \in {"in_second", "in_both", "out_second", "out_both"})
        /\ walker[d] # "none" => ~err[d]

Leavers == Bit(walker["UP"] \in Leaving) + Bit(walker["DOWN"] \in Leaving)

WalkTypeOK ==
    /\ walker \in [Detector -> Stage]
    /\ inside \in Nat
    /\ lost \in BOOLEAN

WalkInv ==
    /\ WalkTypeOK
    /\ ~block_by_light
    /\ Balanced
    /\ Leavers =< inside
    /\ \A d \in Detector : Matches(d) /\ Sees(d)

-----------------------------------------------------------------------------
\* The size of a set of detectors, detector by detector.
LEMMA SizeOfDetectors ==
    ASSUME NEW S \in SUBSET Detector
    PROVE  Cardinality(S) = Bit("UP" \in S) + Bit("DOWN" \in S)
<1>1. S \in {{}, {"UP"}, {"DOWN"}, {"UP"} \union {"DOWN"}}
  BY DEF Detector
<1>2. CASE S = {}
  BY <1>2, FS_EmptySet DEF Bit
<1>3. CASE S = {"UP"}
  <2>1. Cardinality(S) = 1
    BY <1>3, FS_Singleton
  <2>2. "UP" \in S /\ "DOWN" \notin S
    BY <1>3
  <2> QED
    BY <2>1, <2>2 DEF Bit
<1>4. CASE S = {"DOWN"}
  <2>1. Cardinality(S) = 1
    BY <1>4, FS_Singleton
  <2>2. "DOWN" \in S /\ "UP" \notin S
    BY <1>4
  <2> QED
    BY <2>1, <2>2 DEF Bit
<1>5. CASE S = {"UP"} \union {"DOWN"}
  <2>1. IsFiniteSet({"UP"}) /\ Cardinality({"UP"}) = 1 /\ "DOWN" \notin {"UP"}
    BY FS_Singleton
  <2>2. Cardinality({"UP"} \union {"DOWN"}) = 2
    BY <2>1, FS_AddElement
  <2> QED
    BY <1>5, <2>2 DEF Bit
<1> QED
  BY <1>1, <1>2, <1>3, <1>4, <1>5

\* Who is on the way out at the stages w.
LEMMA LeaversCounted ==
    ASSUME NEW w \in [Detector -> Stage]
    PROVE  Count(w, Leaving) = Bit(w["UP"] \in Leaving) + Bit(w["DOWN"] \in Leaving)
<1> DEFINE S == {d \in Detector : w[d] \in Leaving}
<1>1. Cardinality(S) = Bit("UP" \in S) + Bit("DOWN" \in S)
  BY SizeOfDetectors
<1>2. ("UP" \in S) = (w["UP"] \in Leaving) /\ ("DOWN" \in S) = (w["DOWN"] \in Leaving)
  BY DEF Detector
<1> QED
  BY <1>1, <1>2 DEF Count

\* The steps of Walkers are steps of Stairway.
LEMMA WalkStepsAreSteps == [WalkNext]_<<vars, walkVars>> => [Next]_vars
<1> SUFFICES ASSUME [WalkNext]_<<vars, walkVars>> PROVE [Next]_vars
  OBVIOUS
<1>1. CASE WalkAndSense
  <2>1. SenseAny
    BY <1>1 DEF WalkAndSense, SenseAny
  <2> QED
    BY <2>1 DEF Next, Loop
<1>2. CASE WalkTimeout
  BY <1>2 DEF WalkTimeout, Next, Loop
<1>3. CASE (\E d \in Detector : Detect(d)) \/ CountChange \/ Lights \/ Refresh
  BY <1>3 DEF Next, Loop
<1>4. CASE \E n \in LedCounts : SetLedCount(n)
  BY <1>4 DEF Next, Request
<1>5. CASE UNCHANGED <<vars, walkVars>>
  BY <1>5
<1> QED
  BY <1>1, <1>2, <1>3, <1>4, <1>5 DEF WalkNext, WalkLoop

-----------------------------------------------------------------------------
\* A detector with a person in its doorway does what its state says.
LEMMA WorkingDetector ==
    ASSUME NEW d \in Detector, Detect(d), ~block_by_light, ~err[d],
           det[d] \in {"IDLE", "FIRST_LOCK", "SECOND_LOCK", "INC", "DEC"},
           sens[d].first \in BOOLEAN, sens[d].second \in BOOLEAN
    PROVE  /\ det[d] = "IDLE" => Idle(d)
           /\ det[d] = "FIRST_LOCK" /\ ~Released(d) /\ sens[d].second => Inc(d)
           /\ det[d] = "SECOND_LOCK" /\ ~Released(d) /\ sens[d].first => Dec(d)
           /\ det[d] = "FIRST_LOCK" /\ ~Released(d) /\ ~sens[d].second => KeepLock(d)
           /\ det[d] = "SECOND_LOCK" /\ ~Released(d) /\ ~sens[d].first => KeepLock(d)
           /\ det[d] \in {"INC", "DEC"} => Passed(d)
BY DEF Detect, Blocked, Frozen, Idle, GiveUp, Inc, Dec, KeepLock, Passed, Works, Released

\* The turn of detector d: the person in its doorway is counted once, when
\* the second sensor is reached, and at no other stage.
LEMMA TurnMatches ==
    ASSUME TypeOK, WalkTypeOK, ~block_by_light, NEW d \in Detector, Matches(d), Sees(d),
           Detect(d), UNCHANGED walkVars
    PROVE  /\ Matches(d)'
           /\ \/ UNCHANGED people_count /\ Early(d)' = Early(d) /\ Gone(d)' = Gone(d)
              \/ /\ Inc(d)
                 /\ walker[d] \in Entering
                 /\ ~Early(d) /\ ~Gone(d) /\ Early(d)' /\ ~Gone(d)'
              \/ /\ Dec(d)
                 /\ walker[d] \in Leaving
                 /\ ~Early(d) /\ ~Gone(d) /\ ~Early(d)' /\ Gone(d)'
<1>1. pc = d /\ pc' = NextPc /\ ts' = ts /\ now' = now
  BY DetectFrame DEF DetectorFrame
<1>2. Fresh(d)
  BY <1>1 DEF Fresh
<1>3. /\ sens[d].first = (walker[d] \in {"in_first", "in_both", "out_first", "out_both"})
      /\ sens[d].second = (walker[d] \in {"in_second", "in_both", "out_second", "out_both"})
      /\ walker[d] # "none" => ~err[d]
  BY <1>1 DEF Sees
<1>4. sens[d].first \in BOOLEAN /\ sens[d].second \in BOOLEAN /\ err[d] \in BOOLEAN
  BY DEF TypeOK
<1>5. walker' = walker /\ walker[d] \in Stage
  BY DEF walkVars, WalkTypeOK
<1>6. det[d] \in {"IDLE", "FIRST_LOCK", "SECOND_LOCK", "INC", "DEC"}
  BY DEF TypeOK, DetectorState
<1>7. now \in Nat /\ Debounce \in Nat /\ Slowest \in Nat /\ det_ts[d] \in Nat
  BY TimingAssumption, SlowestAssumption DEF TypeOK
<1>8. ~err[d] => /\ det[d] = "IDLE" => Idle(d)
                 /\ det[d] = "FIRST_LOCK" /\ ~Released(d) /\ sens[d].second => Inc(d)
                 /\ det[d] = "SECOND_LOCK" /\ ~Released(d) /\ sens[d].first => Dec(d)
                 /\ det[d] = "FIRST_LOCK" /\ ~Released(d) /\ ~sens[d].second => KeepLock(d)
                 /\ det[d] = "SECOND_LOCK" /\ ~Released(d) /\ ~sens[d].first => KeepLock(d)
                 /\ det[d] \in {"INC", "DEC"} => Passed(d)
  BY <1>4, <1>6, WorkingDetector
<1>9. \A x : Enter(d, x) => det'[d] = x
  BY DEF Enter, TypeOK
<1> USE DEF Entering, Leaving, Gap, Outside, Both, Through, LockFor, PassFor
<1>10. CASE walker[d] = "none"
  <2>1. ~sens[d].first /\ ~sens[d].second
    BY <1>3, <1>10
  <2>2. det[d] \in {"IDLE", "INC", "DEC"}
    BY <1>10 DEF Matches
  <2>3. det'[d] \in {"IDLE", "INC", "DEC"} /\ UNCHANGED people_count
    <3>1. CASE err[d]
      BY <1>1, <3>1, <2>2 DEF Detect, Blocked, Frozen, Idle, GiveUp, Inc, Dec, KeepLock, Passed,
                         Works, Released, detVars, countVars
    <3>2. CASE ~err[d] /\ det[d] = "IDLE"
      BY <1>8, <2>1, <2>2, <3>2 DEF Idle, detVars, countVars
    <3>3. CASE ~err[d] /\ det[d] \in {"INC", "DEC"}
      BY <1>8, <1>9, <2>2, <3>3 DEF Passed, detVars, countVars
    <3> QED
      BY <2>2, <3>1, <3>2, <3>3
  <2> QED
    BY <1>5, <1>10, <2>3 DEF Matches, Early, Gone
<1>11. CASE walker[d] \in Outside
  <2>1. det'[d] = LockFor(walker[d]) /\ UNCHANGED people_count
    <3>1. CASE det[d] = "IDLE"
      <4>1. Enter(d, LockFor(walker[d])) /\ UNCHANGED countVars
        BY <1>3, <1>8, <1>11, <3>1 DEF Idle
      <4> QED
        BY <1>9, <4>1 DEF countVars
    <3>2. CASE det[d] = LockFor(walker[d])
      BY <1>3, <1>8, <1>11, <3>2 DEF KeepLock, Released, detVars, countVars
    <3> QED
      BY <1>11, <3>1, <3>2 DEF Matches
  <2>2. det[d] \in {"IDLE", LockFor(walker[d])}
    BY <1>11 DEF Matches
  <2> QED
    BY <1>5, <1>11, <2>1, <2>2 DEF Matches, Early, Gone
<1>12. CASE walker[d] \in Gap
  <2>1. det[d] = LockFor(walker[d]) /\ now + Slowest - det_ts[d] =< Debounce
    BY <1>12 DEF Matches
  <2>2. ~Settled(d)
    BY <1>7, <2>1 DEF Settled
  <2>3. KeepLock(d)
    BY <1>3, <1>8, <1>12, <2>1, <2>2 DEF Released
  <2>4. UNCHANGED <<det, det_ts, people_count>>
    BY <2>3 DEF KeepLock, detVars, countVars
  <2> QED
    BY <1>1, <1>5, <1>12, <2>1, <2>4 DEF Matches, Early, Gone
<1>13. CASE walker[d] \in Both \union Through /\ det[d] = PassFor(walker[d])
  <2>1. Passed(d)
    BY <1>3, <1>8, <1>13
  <2>2. UNCHANGED <<det, det_ts, people_count>>
    BY <1>3, <1>13, <2>1 DEF Passed, detVars, countVars
  <2> QED
    BY <1>5, <1>13, <2>2 DEF Matches, Early, Gone
<1>14. CASE walker[d] \in Both \union Through /\ det[d] # PassFor(walker[d])
  <2>1. det[d] = LockFor(walker[d])
    BY <1>14 DEF Matches
  <2>2. ~Released(d)
    <3>1. CASE walker[d] \in Both
      BY <1>3, <2>1, <3>1 DEF Released
    <3>2. CASE walker[d] \in Through
      <4>1. now - det_ts[d] =< Debounce
        BY <1>14, <3>2 DEF Matches
      <4> QED
        BY <1>7, <4>1 DEF Released, Settled
    <3> QED
      BY <1>14, <3>1, <3>2
  <2>3. CASE walker[d] \in Entering
    <3>1. Inc(d)
      BY <1>3, <1>8, <1>14, <2>1, <2>2, <2>3
    <3>2. det'[d] = "INC"
      BY <1>9, <3>1 DEF Inc
    <3> QED
      BY <1>5, <1>14, <2>1, <2>3, <3>1, <3>2 DEF Matches, Early, Gone
  <2>4. CASE walker[d] \in Leaving
    <3>1. Dec(d)
      BY <1>3, <1>8, <1>14, <2>1, <2>2, <2>4
    <3>2. det'[d] = "DEC"
      BY <1>9, <3>1 DEF Dec
    <3> QED
      BY <1>5, <1>14, <2>1, <2>4, <3>1, <3>2 DEF Matches, Early, Gone
  <2> QED
    BY <1>14, <2>3, <2>4
<1> QED
  BY <1>5, <1>10, <1>11, <1>12, <1>13, <1>14 DEF Stage

\* It leaves the other detector alone.
LEMMA OtherMatches ==
    ASSUME TypeOK, NEW d \in Detector, Detect(d), UNCHANGED walkVars,
           NEW e \in Detector, e # d, Matches(e)
    PROVE  Matches(e)' /\ Early(e)' = Early(e) /\ Gone(e)' = Gone(e)
<1>1. pc = d /\ pc' = NextPc /\ now' = now
  BY DetectFrame DEF DetectorFrame
<1>2. Fresh(e)' = Fresh(e)
  BY <1>1 DEF Fresh, NextPc, Detector
<1>3. ASSUME NEW x, Enter(d, x) PROVE det'[e] = det[e] /\ det_ts'[e] = det_ts[e]
  BY <1>3 DEF Enter, TypeOK
<1>4. det'[e] = det[e] /\ det_ts'[e] = det_ts[e]
  BY <1>3 DEF Detect, Blocked, Frozen, Idle, GiveUp, Inc, Dec, KeepLock, Passed, detVars
<1> QED
  BY <1>1, <1>2, <1>4 DEF Matches, Early, Gone, walkVars

-----------------------------------------------------------------------------
\* Balance, detector by detector.
Share(d) == Bit(Early(d)) - Bit(Gone(d))

LEMMA BalanceOfShares == WalkTypeOK =>
    /\ Share("UP") \in {-1, 0, 1} /\ Share("DOWN") \in {-1, 0, 1}
    /\ Balance = inside + Share("UP") + Share("DOWN")
<1> SUFFICES ASSUME WalkTypeOK
             PROVE  /\ Share("UP") \in {-1, 0, 1} /\ Share("DOWN") \in {-1, 0, 1}
                    /\ Balance = inside + Share("UP") + Share("DOWN")
  OBVIOUS
<1>1. \A d \in Detector : Bit(Early(d)) \in {0, 1} /\ Bit(Gone(d)) \in {0, 1}
  BY DEF Bit
<1>2. inside \in Nat
  BY DEF WalkTypeOK
<1> QED
  BY <1>1, <1>2 DEF Balance, Share, Detector

\* Somebody on the way out is still inside: the balance cannot be used up by others.
LEMMA LeaverInside ==
    ASSUME WalkTypeOK, Leavers =< inside
    PROVE  /\ Balance >= 0
           /\ \A d \in Detector :
                 walker[d] \in Leaving /\ ~Gone(d) => Balance >= 1
<1>1. ASSUME NEW d \in Detector
      PROVE  /\ Share(d) >= 0 - Bit(walker[d] \in Leaving)
             /\ Share(d) \in Int /\ Bit(walker[d] \in Leaving) \in {0, 1}
             /\ walker[d] \in Leaving /\ ~Gone(d) => Share(d) >= 1 - Bit(walker[d] \in Leaving)
  BY DEF Share, Bit, Early, Gone
<1>2. inside \in Nat
  BY DEF WalkTypeOK
<1>3. "UP" \in Detector /\ "DOWN" \in Detector /\ \A d \in Detector : d = "UP" \/ d = "DOWN"
  BY DEF Detector
<1> DEFINE su == Share("UP")
           sd == Share("DOWN")
           lu == Bit(walker["UP"] \in Leaving)
           ld == Bit(walker["DOWN"] \in Leaving)
<1>4. Balance = inside + su + sd
  BY BalanceOfShares
<1>5. Leavers = lu + ld
  BY DEF Leavers
<1>6. su >= 0 - lu /\ sd >= 0 - ld /\ su \in Int /\ sd \in Int /\ lu \in {0, 1} /\ ld \in {0, 1}
  BY <1>1, <1>3
<1>7. /\ walker["UP"] \in Leaving /\ ~Gone("UP") => su >= 1 - lu
      /\ walker["DOWN"] \in Leaving /\ ~Gone("DOWN") => sd >= 1 - ld
  BY <1>1, <1>3
<1> HIDE DEF su, sd, lu, ld
<1>8. Balance >= 0
  BY <1>2, <1>4, <1>5, <1>6
<1>9. walker["UP"] \in Leaving /\ ~Gone("UP") => Balance >= 1
  BY <1>2, <1>4, <1>5, <1>6, <1>7
<1>10. walker["DOWN"] \in Leaving /\ ~Gone("DOWN") => Balance >= 1
  BY <1>2, <1>4, <1>5, <1>6, <1>7
<1> QED
  BY <1>3, <1>8, <1>9, <1>10

\* The turn of a detector keeps the balance.
LEMMA TurnBalanced ==
    ASSUME TypeOK, WalkTypeOK, Balanced, Leavers =< inside,
           NEW d \in Detector, NEW e \in Detector, e # d,
           UNCHANGED walkVars, Early(e)' = Early(e), Gone(e)' = Gone(e),
           \/ UNCHANGED people_count /\ Early(d)' = Early(d) /\ Gone(d)' = Gone(d)
           \/ /\ Inc(d)
              /\ ~Early(d) /\ ~Gone(d) /\ Early(d)' /\ ~Gone(d)'
           \/ /\ Dec(d)
              /\ walker[d] \in Leaving
              /\ ~Early(d) /\ ~Gone(d) /\ ~Early(d)' /\ Gone(d)'
    PROVE  Balanced'
<1>1. people_count \in Nat /\ inside \in Nat /\ inside' = inside /\ lost' = lost /\ WalkTypeOK'
  BY DEF TypeOK, WalkTypeOK, walkVars
<1>2. Balance = inside + Share(d) + Share(e) /\ Balance' = inside + Share(d)' + Share(e)'
  <2>1. (d = "UP" /\ e = "DOWN") \/ (d = "DOWN" /\ e = "UP")
    BY DEF Detector
  <2>2. /\ Share("UP") \in {-1, 0, 1} /\ Share("DOWN") \in {-1, 0, 1}
        /\ Balance = inside + Share("UP") + Share("DOWN")
    BY BalanceOfShares
  <2>3. (/\ Share("UP") \in {-1, 0, 1} /\ Share("DOWN") \in {-1, 0, 1}
         /\ Balance = inside + Share("UP") + Share("DOWN"))'
    BY <1>1, BalanceOfShares, PTL
  <2>4. CASE d = "UP" /\ e = "DOWN"
    <3>1. Share(d)' = Share("UP")' /\ Share(e)' = Share("DOWN")'
      BY <2>4 DEF Share, Early, Gone
    <3> QED
      BY <1>1, <2>2, <2>3, <2>4, <3>1
  <2>5. CASE d = "DOWN" /\ e = "UP"
    <3>1. Share(d)' = Share("DOWN")' /\ Share(e)' = Share("UP")'
      BY <2>5 DEF Share, Early, Gone
    <3> QED
      BY <1>1, <2>2, <2>3, <2>5, <3>1
  <2> QED
    BY <2>1, <2>4, <2>5
<1>3. Share(e)' = Share(e) /\ Share(e) \in Int /\ Share(d) \in Int
  BY DEF Share, Bit
<1>4. CASE UNCHANGED people_count /\ Early(d)' = Early(d) /\ Gone(d)' = Gone(d)
  <2>1. Share(d)' = Share(d)
    BY <1>4 DEF Share, Bit
  <2> QED
    BY <1>1, <1>2, <1>3, <1>4, <2>1 DEF Balanced
<1>5. CASE Inc(d) /\ ~Early(d) /\ ~Gone(d) /\ Early(d)' /\ ~Gone(d)'
  <2>1. Share(d) = 0 /\ Share(d)' = 1 /\ people_count' = people_count + 1
    BY <1>5 DEF Share, Bit, Inc
  <2> QED
    BY <1>1, <1>2, <1>3, <2>1 DEF Balanced
<1>6. CASE Dec(d) /\ walker[d] \in Leaving /\ ~Early(d) /\ ~Gone(d) /\ ~Early(d)' /\ Gone(d)'
  <2>1. Share(d) = 0 /\ Share(d)' = 0 - 1
    BY <1>6 DEF Share, Bit
  <2>2. people_count' = IF people_count > 0 THEN people_count - 1 ELSE people_count
    BY <1>6 DEF Dec, countVars
  <2>3. Balance >= 1
    BY <1>6, LeaverInside
  <2> QED
    BY <1>1, <1>2, <1>3, <2>1, <2>2, <2>3 DEF Balanced
<1> QED
  BY <1>4, <1>5, <1>6

LEMMA DetectWalk ==
    ASSUME TypeOK, WalkInv, NEW d \in Detector, Detect(d), UNCHANGED walkVars
    PROVE  WalkInv'
<1> USE DEF WalkInv
<1>1. PICK e \in Detector : e # d /\ \A x \in Detector : x = d \/ x = e
  BY DEF Detector
<1>2. ~block_by_light' /\ UNCHANGED <<sens, err>> /\ pc = d
  BY DetectFrame DEF DetectorFrame
<1>3. WalkTypeOK' /\ (Leavers =< inside)'
  BY DEF WalkTypeOK, Leavers, walkVars
<1>4. \A x \in Detector : Sees(x)'
  BY <1>2 DEF Sees, walkVars
<1>5. Matches(d)' /\ Matches(e)'
  BY <1>1, TurnMatches, OtherMatches
<1>6. Balanced'
  <2>1. Early(e)' = Early(e) /\ Gone(e)' = Gone(e)
    BY <1>1, OtherMatches
  <2>2. \/ UNCHANGED people_count /\ Early(d)' = Early(d) /\ Gone(d)' = Gone(d)
        \/ /\ Inc(d)
           /\ walker[d] \in Entering
           /\ ~Early(d) /\ ~Gone(d) /\ Early(d)' /\ ~Gone(d)'
        \/ /\ Dec(d)
           /\ walker[d] \in Leaving
           /\ ~Early(d) /\ ~Gone(d) /\ ~Early(d)' /\ Gone(d)'
    BY TurnMatches
  <2> QED
    BY <1>1, <2>1, <2>2, TurnBalanced
<1> QED
  BY <1>1, <1>2, <1>3, <1>4, <1>5, <1>6

-----------------------------------------------------------------------------
\* A person goes on by at most one stage: the detector has taken notice of the
\* stage before, and the balance changes with the number of people inside.
LEMMA StageMatches ==
    ASSUME TypeOK, WalkTypeOK, pc = "sense", NEW d \in Detector, Matches(d),
           NEW w \in [Detector -> Stage], NEW e \in 0 .. Slowest,
           MayGo(d, walker[d], w[d], e),
           walker' = w, now' = now + e, pc' = "UP", UNCHANGED <<det, det_ts>>
    PROVE  /\ Matches(d)'
           /\ Share(d)' = Share(d) - Bit(walker[d] = "in_second" /\ w[d] = "none")
                                   + Bit(walker[d] = "out_first" /\ w[d] = "none")
<1>1. ~Fresh(d) /\ Fresh(d)'
  BY DEF Fresh, Detector
<1>2. now \in Nat /\ Debounce \in Nat /\ Slowest \in Nat /\ det_ts[d] \in Nat /\ e \in Nat /\ e =< Slowest
  BY TimingAssumption, SlowestAssumption DEF TypeOK
<1> USE DEF Entering, Leaving, Gap, Outside, Both, Through, LockFor, PassFor
<1>3. /\ walker[d] = "none" => det[d] \in {"IDLE", "INC", "DEC"}
      /\ walker[d] \in Outside => det[d] = LockFor(walker[d])
      /\ walker[d] \in Both \union Through => det[d] = PassFor(walker[d])
      /\ walker[d] \in Gap => /\ det[d] = LockFor(walker[d])
                              /\ now + Slowest - det_ts[d] =< Debounce
  BY <1>1 DEF Matches
<1>4. /\ walker'[d] = w[d]
      /\ det'[d] = det[d] /\ det_ts'[d] = det_ts[d]
      /\ walker[d] \in Stage
  BY DEF WalkTypeOK
<1>5. Share(d)' = Bit(w[d] \in Entering /\ det[d] = "INC") - Bit(w[d] \in Leaving /\ det[d] = "DEC")
  BY <1>4 DEF Share, Bit, Early, Gone
<1>6. Share(d) = Bit(walker[d] \in Entering /\ det[d] = "INC")
                 - Bit(walker[d] \in Leaving /\ det[d] = "DEC")
  BY DEF Share, Bit, Early, Gone
<1>7. CASE walker[d] = w[d] /\ walker[d] \notin Gap
  <2>1. Matches(d)'
    BY <1>1, <1>3, <1>4, <1>7 DEF Matches, Stage
  <2>2. Share(d)' = Share(d)
    BY <1>5, <1>6, <1>7
  <2>3. Share(d) \in Int
    BY <1>6 DEF Bit
  <2> QED
    BY <1>7, <2>1, <2>2, <2>3 DEF Bit
<1>8. CASE /\ <<walker[d], w[d]>> \in Follows
           /\ walker[d] = "none" => det[d] = "IDLE"
           /\ w[d] \in Gap => now + e + Slowest - det_ts[d] =< Debounce
  <2>1. Matches(d)'
    <3>1. CASE w[d] = "none"
      BY <1>1, <1>3, <1>4, <1>8, <3>1 DEF Matches, Follows
    <3>2. CASE w[d] \in Outside
      BY <1>1, <1>3, <1>4, <1>8, <3>2 DEF Matches, Follows
    <3>3. CASE w[d] \in Both
      BY <1>1, <1>3, <1>4, <1>8, <3>3 DEF Matches, Follows
    <3>4. CASE w[d] \in Gap
      <4>1. det[d] = LockFor(w[d])
        BY <1>3, <1>8, <3>4 DEF Follows
      <4> QED
        BY <1>1, <1>4, <1>8, <3>4, <4>1 DEF Matches
    <3>5. CASE w[d] \in Through
      <4>1. CASE walker[d] \in Both
        <5>1. det[d] = PassFor(w[d])
          BY <1>3, <1>8, <3>5, <4>1 DEF Follows
        <5> QED
          BY <1>1, <1>4, <3>5, <5>1 DEF Matches
      <4>2. CASE walker[d] \in Gap
        <5>1. det[d] = LockFor(w[d])
          BY <1>3, <1>8, <3>5, <4>2 DEF Follows
        <5>2. now' - det_ts'[d] =< Debounce
          BY <1>2, <1>3, <1>4, <4>2
        <5>3. walker'[d] \in Through /\ det'[d] = LockFor(walker'[d])
          BY <1>4, <3>5, <5>1
        <5> QED
          BY <1>1, <5>2, <5>3 DEF Matches
      <4>3. walker[d] \in Both \union Gap
        BY <1>8, <3>5 DEF Follows
      <4> QED
        BY <4>1, <4>2, <4>3
    <3> QED
      BY <3>1, <3>2, <3>3, <3>4, <3>5 DEF Stage
  <2>2. CASE walker[d] = "none"
    BY <1>5, <1>6, <1>8, <2>1, <2>2 DEF Bit
  <2>3. CASE walker[d] = "in_second"
    <3>1. w[d] = "none" /\ det[d] = "INC"
      BY <1>3, <1>8, <2>3 DEF Follows
    <3> QED
      BY <1>5, <1>6, <2>1, <2>3, <3>1 DEF Bit
  <2>4. CASE walker[d] = "out_first"
    <3>1. w[d] = "none" /\ det[d] = "DEC"
      BY <1>3, <1>8, <2>4 DEF Follows
    <3>2. Share(d)' = 0
      <4>1. ~(w[d] \in Entering /\ det[d] = "INC") /\ ~(w[d] \in Leaving /\ det[d] = "DEC")
        BY <3>1
      <4> QED
        BY <1>5, <4>1 DEF Bit
    <3>3. Share(d) = 0 - 1
      BY <1>6, <2>4, <3>1 DEF Bit
    <3> QED
      BY <2>1, <2>4, <3>1, <3>2, <3>3 DEF Bit
  <2>5. CASE walker[d] \notin {"none", "in_second", "out_first"}
    <3>1. /\ w[d] # "none"
          /\ walker[d] \in Entering => w[d] \in Entering
          /\ walker[d] \in Leaving => w[d] \in Leaving
          /\ walker[d] \in Entering \union Leaving
      BY <1>4, <1>8, <2>5 DEF Follows, Stage
    <3>2. (w[d] \in Entering) = (walker[d] \in Entering) /\ (w[d] \in Leaving) = (walker[d] \in Leaving)
      BY <3>1
    <3>3. Share(d)' = Share(d) /\ Share(d) \in Int
      BY <1>5, <1>6, <3>2 DEF Bit
    <3> QED
      BY <2>1, <3>1, <3>3, <2>5 DEF Bit
  <2> QED
    BY <2>2, <2>3, <2>4, <2>5
<1> QED
  BY <1>7, <1>8 DEF MayGo

\* People go on and the sensors see it.
LEMMA SenseWalk ==
    ASSUME TypeOK, WalkInv, WalkAndSense, LightStates = {FALSE}
    PROVE  WalkInv'
<1> USE DEF WalkInv
<1>1. PICK w \in [Detector -> Stage], f \in Elapsed, s \in SendTimes,
           r \in [Detector -> Readings], light \in LightStates :
         /\ pc = "sense"
         /\ Walk(w, f + s)
         /\ \A d \in Detector : r[d] \in Seen(w[d])
         /\ Sense(r, light, f, s)
  BY DEF WalkAndSense
<1>2. lost' = (lost /\ ~(NoPassage /\ inside = 0))
  BY DEF WalkAndSense
<1> DEFINE e == f + s
           in(d) == Bit(walker[d] = "in_second" /\ w[d] = "none")
           out(d) == Bit(walker[d] = "out_first" /\ w[d] = "none")
<1>3. e \in 0 .. Slowest /\ now' = now + e /\ pc' = "UP" /\ UNCHANGED <<det, det_ts, people_count>>
  <2>1. f \in Nat /\ s \in Nat /\ f + s =< Slowest /\ now \in Nat /\ Slowest \in Nat
    BY BoundAssumption, SlowestAssumption DEF TypeOK
  <2>2. now' = now + f + s
    BY <1>1 DEF Sense
  <2> QED
    BY <1>1, <2>1, <2>2 DEF Sense, detVars, countVars
<1>4. walker' = w /\ \A d \in Detector : MayGo(d, walker[d], w[d], e)
  BY <1>1 DEF Walk
<1> HIDE DEF e
<1>5. \A d \in Detector : Matches(d)' /\ Share(d)' = Share(d) - in(d) + out(d)
  BY <1>1, <1>3, <1>4, StageMatches
<1>6. inside' = inside + in("UP") + in("DOWN") - (out("UP") + out("DOWN"))
  <2> DEFINE I == {d \in Detector : walker[d] = "in_second" /\ w[d] = "none"}
             O == {d \in Detector : walker[d] = "out_first" /\ w[d] = "none"}
  <2>1. Cardinality(I) = Bit("UP" \in I) + Bit("DOWN" \in I)
    BY SizeOfDetectors
  <2>2. Cardinality(O) = Bit("UP" \in O) + Bit("DOWN" \in O)
    BY SizeOfDetectors
  <2>3. /\ Bit("UP" \in I) = in("UP") /\ Bit("DOWN" \in I) = in("DOWN")
        /\ Bit("UP" \in O) = out("UP") /\ Bit("DOWN" \in O) = out("DOWN")
    BY DEF Detector, Bit
  <2>4. inside' = inside + Cardinality(I) - Cardinality(O)
    BY <1>1 DEF Walk
  <2>5. /\ in("UP") \in {0, 1} /\ in("DOWN") \in {0, 1}
        /\ out("UP") \in {0, 1} /\ out("DOWN") \in {0, 1} /\ inside \in Nat
    BY DEF Bit, WalkTypeOK
  <2> HIDE DEF I, O, in, out
  <2> QED
    BY <2>1, <2>2, <2>3, <2>4, <2>5
<1>7. /\ in("UP") \in {0, 1} /\ in("DOWN") \in {0, 1}
      /\ out("UP") \in {0, 1} /\ out("DOWN") \in {0, 1} /\ inside \in Nat
  BY DEF Bit, WalkTypeOK
<1>8. Leavers' =< inside' /\ inside' \in Nat
  <2>1. Count(w, Leaving) =< inside'
    BY <1>1 DEF Walk, Possible
  <2>2. Count(w, Leaving) = Bit(w["UP"] \in Leaving) + Bit(w["DOWN"] \in Leaving)
    BY LeaversCounted
  <2>3. Leavers' = Count(w, Leaving)
    BY <1>4, <2>2 DEF Leavers, Bit
  <2>4. Count(w, Leaving) \in Nat
    BY <2>2 DEF Bit
  <2>5. inside' \in Int
    BY <1>6, <1>7
  <2> QED
    BY <2>1, <2>3, <2>4, <2>5
<1>9. WalkTypeOK'
  BY <1>2, <1>4, <1>8 DEF WalkTypeOK
<1>10. Balance' = Balance
  <2>1. /\ Share("UP") \in {-1, 0, 1} /\ Share("DOWN") \in {-1, 0, 1}
        /\ Balance = inside + Share("UP") + Share("DOWN")
    BY BalanceOfShares
  <2>2. (/\ Share("UP") \in {-1, 0, 1} /\ Share("DOWN") \in {-1, 0, 1}
         /\ Balance = inside + Share("UP") + Share("DOWN"))'
    BY <1>9, BalanceOfShares, PTL
  <2>3. /\ Share("UP")' = Share("UP") - in("UP") + out("UP")
        /\ Share("DOWN")' = Share("DOWN") - in("DOWN") + out("DOWN")
    BY <1>5 DEF Detector
  <2> HIDE DEF in, out
  <2> QED
    BY <1>6, <1>7, <2>1, <2>2, <2>3
<1>11. Balanced'
  <2>1. people_count \in Nat /\ people_count =< Balance /\ (~lost => people_count = Balance)
    BY DEF Balanced, TypeOK
  <2>2. CASE NoPassage /\ inside = 0
    <3>1. Balance = 0
      BY <2>2 DEF NoPassage, Balance, Early, Gone, Bit, Entering, Leaving, Detector
    <3> QED
      BY <1>3, <1>10, <2>1, <3>1 DEF Balanced
  <2>3. CASE ~(NoPassage /\ inside = 0)
    <3>1. lost' = lost
      BY <1>2, <2>3 DEF WalkTypeOK
    <3> QED
      BY <1>3, <1>10, <2>1, <3>1 DEF Balanced
  <2> QED
    BY <2>2, <2>3
<1>12. ~block_by_light'
  BY <1>1 DEF Sense, Block
<1>13. ASSUME NEW d \in Detector PROVE Sees(d)'
  <2>1. r[d] \in Seen(w[d]) /\ w[d] \in Stage
    BY <1>1
  <2>2. /\ (r[d].first = "near") = (w[d] \in {"in_first", "in_both", "out_first", "out_both"})
        /\ (r[d].second = "near") = (w[d] \in {"in_second", "in_both", "out_second", "out_both"})
        /\ w[d] # "none" => r[d].first # "error" /\ r[d].second # "error"
    BY <2>1 DEF Seen
  <2>3. /\ sens'[d].first = (r[d].first = "near") /\ sens'[d].second = (r[d].second = "near")
        /\ err'[d] = ("error" \in {r[d].first, r[d].second})
    BY <1>1 DEF Sense
  <2> QED
    BY <1>4, <2>2, <2>3 DEF Sees
<1> QED
  BY <1>5, <1>8, <1>9, <1>11, <1>12, <1>13

-----------------------------------------------------------------------------
\* A step in which no detector works and nobody is counted.
LEMMA WalkFrame ==
    ASSUME TypeOK, WalkInv, pc \notin Detector, pc' \notin Detector,
           UNCHANGED <<now, block_by_light, det, det_ts, people_count, walkVars>>
    PROVE  WalkInv'
<1> USE DEF WalkInv, walkVars
<1>1. \A d \in Detector : ~Fresh(d) /\ ~Fresh(d)'
  BY DEF Fresh, Detector
<1>2. \A d \in Detector : Matches(d)'
  BY <1>1 DEF Matches
<1>3. \A d \in Detector : Sees(d)'
  BY DEF Sees
<1>4. Balanced'
  BY DEF Balanced, Balance, Early, Gone, Bit
<1>5. WalkTypeOK' /\ (Leavers =< inside)'
  BY DEF WalkTypeOK, Leavers, Bit
<1> QED
  BY <1>2, <1>3, <1>4, <1>5

\* The off timeout can only forget people: the controller stays on the safe side.
LEMMA TimeoutWalk ==
    ASSUME TypeOK, WalkInv, WalkTimeout
    PROVE  WalkInv'
<1> USE DEF WalkInv
<1>1. /\ pc = "timeout" /\ pc' = "lights"
      /\ UNCHANGED <<now, block_by_light, det, det_ts, walker, inside>>
      /\ lost' = (lost \/ TimedOut)
      /\ IF TimedOut THEN people_count' = 0 ELSE UNCHANGED people_count
  BY DEF WalkTimeout, Timeout, sensorVars, detVars
<1>2. \A d \in Detector : Matches(d)'
  BY <1>1 DEF Matches, Fresh, Detector
<1>3. \A d \in Detector : Sees(d)'
  BY <1>1 DEF Sees, Detector
<1>4. Balance' = Balance
  BY <1>1 DEF Balance, Early, Gone, Bit
<1>5. Balanced'
  <2>1. Balance >= 0
    BY LeaverInside
  <2>2. people_count \in Nat /\ Balance \in Int
    BY BalanceOfShares DEF TypeOK, WalkTypeOK
  <2> QED
    BY <1>1, <1>4, <2>1, <2>2 DEF Balanced
<1>6. WalkTypeOK' /\ (Leavers =< inside)'
  <2>1. TimedOut \in BOOLEAN
    BY DEF TimedOut
  <2> QED
    BY <1>1, <2>1 DEF WalkTypeOK, Leavers, Bit
<1> QED
  BY <1>1, <1>2, <1>3, <1>5, <1>6

\* Every step keeps the bookkeeping.
LEMMA NextWalk ==
    ASSUME LightStates = {FALSE}
    PROVE  TypeOK /\ WalkInv /\ [WalkNext]_<<vars, walkVars>> => WalkInv'
<1> SUFFICES ASSUME TypeOK, WalkInv, [WalkNext]_<<vars, walkVars>> PROVE WalkInv'
  OBVIOUS
<1>1. CASE WalkAndSense
  BY <1>1, SenseWalk
<1>2. CASE WalkTimeout
  BY <1>2, TimeoutWalk
<1>3. CASE (\E d \in Detector : Detect(d)) /\ UNCHANGED walkVars
  BY <1>3, DetectWalk
<1>4. CASE CountChange /\ UNCHANGED walkVars
  <2>1. /\ pc = "count" /\ pc' = "timeout"
        /\ UNCHANGED <<now, block_by_light, det, det_ts, people_count>>
    BY <1>4 DEF CountChange, sensorVars, detVars, countVars
  <2> QED
    BY <1>4, <2>1, WalkFrame DEF Detector
<1>5. CASE Lights /\ UNCHANGED walkVars
  <2>1. /\ pc = "lights" /\ pc' = "refresh"
        /\ UNCHANGED <<now, block_by_light, det, det_ts, people_count>>
    BY <1>5 DEF Lights, sensorVars, detVars, countVars
  <2> QED
    BY <1>5, <2>1, WalkFrame DEF Detector
<1>6. CASE Refresh /\ UNCHANGED walkVars
  <2>1. /\ pc = "refresh" /\ pc' = "sense"
        /\ UNCHANGED <<now, block_by_light, det, det_ts, people_count>>
    BY <1>6 DEF Refresh, sensorVars, detVars, countVars
  <2> QED
    BY <1>6, <2>1, WalkFrame DEF Detector
<1>7. CASE (\E n \in LedCounts : SetLedCount(n)) /\ UNCHANGED walkVars
  <2>1. /\ pc = "sense" /\ pc' = "sense"
        /\ UNCHANGED <<now, block_by_light, det, det_ts, people_count>>
    BY <1>7 DEF SetLedCount, loopVars, sensorVars, detVars, countVars
  <2> QED
    BY <1>7, <2>1, WalkFrame DEF Detector
<1>8. CASE UNCHANGED <<vars, walkVars>>
  <2>1. /\ UNCHANGED walkVars
        /\ UNCHANGED <<pc, now, sens, err, block_by_light, det, det_ts, people_count>>
    BY <1>8 DEF vars, loopVars, sensorVars, detVars, countVars
  <2>2. \A d \in Detector : Matches(d)'
    BY <2>1 DEF Matches, Fresh, WalkInv, walkVars
  <2>3. \A d \in Detector : Sees(d)'
    BY <2>1 DEF Sees, WalkInv, walkVars
  <2>4. Balanced'
    BY <2>1 DEF Balanced, Balance, Early, Gone, Bit, WalkInv, walkVars
  <2>5. WalkTypeOK' /\ (Leavers =< inside)'
    BY <2>1 DEF WalkTypeOK, Leavers, Bit, WalkInv, walkVars
  <2> QED
    BY <2>1, <2>2, <2>3, <2>4, <2>5 DEF WalkInv
<1> QED
  BY <1>1, <1>2, <1>3, <1>4, <1>5, <1>6, <1>7, <1>8 DEF WalkNext, WalkLoop

LEMMA InitWalk == WalkInit => WalkInv
<1> SUFFICES ASSUME WalkInit PROVE WalkInv
  OBVIOUS
<1> USE DEF WalkInit, Init
<1>1. WalkTypeOK /\ ~block_by_light /\ \A d \in Detector : walker[d] = "none" /\ det[d] = "IDLE"
  BY DEF WalkTypeOK, Stage
<1>2. Balanced /\ Leavers =< inside
  BY <1>1 DEF Balanced, Balance, Leavers, Bit, Early, Gone, Entering, Leaving, Detector
<1>3. \A d \in Detector : Matches(d) /\ Sees(d)
  BY <1>1 DEF Matches, Sees, Outside, Both, Gap, Through, Detector
<1> QED
  BY <1>1, <1>2, <1>3 DEF WalkInv

\* Between two passages nobody is counted who is not there, and nobody who is
\* there is missed unless the off timeout has forgotten them, whatever the
\* debounce time, the speed of the loop and the number of people, as long as
\* it is dark (main.c 202-325).
THEOREM PeopleCounted ==
    ASSUME LightStates = {FALSE}
    PROVE  WalkSpec => []CountIsRight
<1>1. WalkInit => Inv /\ WalkInv
  BY InitInv, InitWalk DEF WalkInit
<1>2. Inv /\ WalkInv /\ [WalkNext]_<<vars, walkVars>> => Inv' /\ WalkInv'
  BY NextInv, NextWalk, WalkStepsAreSteps DEF Inv
<1>3. WalkInv => CountIsRight
  <2> SUFFICES ASSUME WalkInv, NoPassage PROVE people_count =< inside /\ (~lost => people_count = inside)
    BY DEF CountIsRight
  <2>1. inside \in Nat
    BY DEF WalkInv, WalkTypeOK
  <2>2. Balance = inside
    BY <2>1 DEF NoPassage, Balance, Early, Gone, Bit, Entering, Leaving, Detector
  <2> QED
    BY <2>2 DEF WalkInv, Balanced
<1> QED
  BY <1>1, <1>2, <1>3, PTL DEF WalkSpec

-----------------------------------------------------------------------------
(* The emergency lights.  Without faults of a SECOND sensor a detector     *)
(* that sees somebody at FIRST has left SECOND_LOCK when its turn is over, *)
(* so the time of its last SECOND_LOCK is not from this iteration.         *)

SecondLockLeft(d) ==
    pc \in {"DOWN", "count", "timeout"} /\ ~Fresh(d) /\ sens[d].first /\ ~block_by_light
        => det[d] # "SECOND_LOCK"

FirstSeesWithoutError(d) == pc \in Detector /\ sens[d].first => ~err[d]

BlockTimesPast ==
    /\ detector_block_ts \in [Detector -> 0 .. now]
    /\ pc \in {"UP", "DOWN", "count", "timeout"} =>
          \A d \in Detector : detector_block_ts[d] =< ts

EmergencyInv ==
    /\ BlockTimesPast
    /\ \A d \in Detector : SecondLockLeft(d) /\ FirstSeesWithoutError(d)

\* The steps of EmergencyLights are steps of Stairway.
LEMMA EmergencyStepsAreSteps == [EmergencyLoop]_<<vars, emergencyVars>> => [Next]_vars
BY DEF EmergencyLoop, TimeoutAndConfirm, LightsAndSwitchOff, Next, Loop

\* Sensing begins an iteration that is later than every SECOND_LOCK so far.
LEMMA SenseEmergency ==
    ASSUME TypeOK, EmergencyInv, SenseAny, UNCHANGED emergencyVars,
           \A r \in Readings : r.second # "error"
    PROVE  EmergencyInv'
<1> USE DEF EmergencyInv
<1>1. PICK r \in [Detector -> Readings], light \in LightStates, e \in Elapsed, s \in SendTimes :
         Sense(r, light, e, s)
  BY DEF SenseAny
<1>2. pc = "sense" /\ pc' = "UP" /\ ts' = now + e /\ now' = now + e + s
  BY <1>1 DEF Sense
<1>3. now \in Nat /\ e \in Nat /\ s \in Nat
  BY BoundAssumption DEF TypeOK
<1>4. detector_block_ts' = detector_block_ts /\ detector_block_ts \in [Detector -> 0 .. now]
  BY DEF emergencyVars, BlockTimesPast
<1>5. BlockTimesPast'
  <2>1. ts' >= now /\ now' >= now /\ now' \in Nat /\ ts' \in Nat
    BY <1>2, <1>3
  <2>2. \A d \in Detector : detector_block_ts'[d] \in Nat /\ detector_block_ts'[d] =< now
    BY <1>3, <1>4
  <2>3. \A d \in Detector : detector_block_ts'[d] =< ts' /\ detector_block_ts'[d] \in 0 .. now'
    BY <1>3, <2>1, <2>2
  <2> QED
    BY <1>4, <2>3 DEF BlockTimesPast
<1>6. \A d \in Detector : SecondLockLeft(d)'
  BY <1>2 DEF SecondLockLeft
<1>7. ASSUME NEW d \in Detector PROVE FirstSeesWithoutError(d)'
  <2>1. r[d].second # "error"
    OBVIOUS
  <2>2. sens'[d].first = (r[d].first = "near") /\ err'[d] = ("error" \in {r[d].first, r[d].second})
    BY <1>1 DEF Sense
  <2> QED
    BY <2>1, <2>2 DEF FirstSeesWithoutError
<1> QED
  BY <1>5, <1>6, <1>7

\* A detector that sees FIRST and was in SECOND_LOCK counts the person or gives up.
LEMMA DetectEmergency ==
    ASSUME TypeOK, EmergencyInv, NEW d \in Detector, Detect(d), UNCHANGED emergencyVars
    PROVE  EmergencyInv'
<1> USE DEF EmergencyInv
<1>1. pc = d /\ pc' = NextPc /\ pc' \in {"DOWN", "count"}
      /\ UNCHANGED <<ts, now, sens, err, block_by_light>>
  BY DetectFrame DEF DetectorFrame, NextPc
<1>2. BlockTimesPast'
  BY <1>1 DEF BlockTimesPast, emergencyVars, Detector
<1>3. \A x \in Detector : FirstSeesWithoutError(x)'
  BY <1>1 DEF FirstSeesWithoutError
<1>4. ASSUME sens[d].first, ~block_by_light PROVE det'[d] # "SECOND_LOCK"
  <2>1. ~err[d]
    BY <1>1, <1>4 DEF FirstSeesWithoutError
  <2>2. sens[d].second \in BOOLEAN /\ det[d] \in DetectorState
    BY DEF TypeOK
  <2>3. \A x : Enter(d, x) => det'[d] = x
    BY DEF Enter, TypeOK
  <2>4. CASE det[d] = "SECOND_LOCK"
    <3>1. GiveUp(d) \/ Dec(d)
      BY <1>4, <2>1, <2>4
         DEF Detect, Blocked, Frozen, Idle, Inc, KeepLock, Passed, Works
    <3> QED
      BY <2>3, <3>1 DEF GiveUp, Dec
  <2>5. CASE det[d] # "SECOND_LOCK"
    <3>1. CASE Idle(d)
      BY <1>4, <2>3, <3>1 DEF Idle, detVars
    <3>2. CASE GiveUp(d)
      BY <2>3, <3>2 DEF GiveUp
    <3>3. CASE Inc(d)
      BY <2>3, <3>3 DEF Inc
    <3>4. CASE KeepLock(d)
      BY <2>5, <3>4 DEF KeepLock, detVars
    <3>5. CASE Passed(d)
      BY <2>3, <2>5, <3>5 DEF Passed, detVars
    <3> QED
      BY <1>4, <2>1, <2>5, <3>1, <3>2, <3>3, <3>4, <3>5 DEF Detect, Blocked, Frozen, Dec
  <2> QED
    BY <2>4, <2>5
<1>5. SecondLockLeft(d)'
  BY <1>1, <1>4 DEF SecondLockLeft
<1>6. ASSUME NEW x \in Detector, x # d PROVE SecondLockLeft(x)'
  <2>1. det'[x] = det[x]
    <3>1. ASSUME NEW y, Enter(d, y) PROVE det'[x] = det[x]
      BY <1>6, <3>1 DEF Enter, TypeOK
    <3> QED
      BY <3>1 DEF Detect, Blocked, Frozen, Idle, GiveUp, Inc, Dec, KeepLock, Passed, detVars
  <2>2. pc = "DOWN" \/ Fresh(x)'
    BY <1>1, <1>6 DEF Fresh, NextPc, Detector
  <2>3. pc = "DOWN" => ~Fresh(x)
    BY <1>1, <1>6 DEF Fresh
  <2> QED
    BY <1>1, <2>1, <2>2, <2>3 DEF SecondLockLeft
<1> QED
  BY <1>2, <1>3, <1>5, <1>6

\* The phases after the detectors.
LEMMA RestEmergency ==
    ASSUME TypeOK, EmergencyInv,
           UNCHANGED <<ts, now, sens, err, block_by_light, det>>,
           \/ pc = "count" /\ pc' = "timeout" /\ UNCHANGED detector_block_ts
           \/ pc = "timeout" /\ pc' = "lights" /\ Confirm
           \/ pc' \in {"refresh", "sense"} /\ UNCHANGED detector_block_ts
    PROVE  EmergencyInv'
<1> USE DEF EmergencyInv
<1>1. BlockTimesPast'
  <2>1. now \in 0 .. now
    BY DEF TypeOK
  <2> QED
    BY <2>1 DEF BlockTimesPast, Confirm
<1>2. \A d \in Detector : SecondLockLeft(d)'
  BY DEF SecondLockLeft, Fresh, Detector
<1>3. \A d \in Detector : FirstSeesWithoutError(d)'
  BY DEF FirstSeesWithoutError, Detector
<1> QED
  BY <1>1, <1>2, <1>3

\* Every step keeps the invariant.
LEMMA NextEmergency ==
    ASSUME \A r \in Readings : r.second # "error"
    PROVE  TypeOK /\ EmergencyInv /\ [EmergencyLoop]_<<vars, emergencyVars>> => EmergencyInv'
<1> SUFFICES ASSUME TypeOK, EmergencyInv, [EmergencyLoop]_<<vars, emergencyVars>>
             PROVE  EmergencyInv'
  OBVIOUS
<1>1. CASE TimeoutAndConfirm
  BY <1>1, RestEmergency DEF TimeoutAndConfirm, Timeout, sensorVars, detVars
<1>2. CASE LightsAndSwitchOff
  BY <1>2, RestEmergency DEF LightsAndSwitchOff, Lights, sensorVars, detVars
<1>3. CASE SenseAny /\ UNCHANGED emergencyVars
  BY <1>3, SenseEmergency
<1>4. CASE (\E d \in Detector : Detect(d)) /\ UNCHANGED emergencyVars
  BY <1>4, DetectEmergency
<1>5. CASE CountChange /\ UNCHANGED emergencyVars
  BY <1>5, RestEmergency DEF CountChange, sensorVars, detVars, emergencyVars
<1>6. CASE Refresh /\ UNCHANGED emergencyVars
  BY <1>6, RestEmergency DEF Refresh, sensorVars, detVars, emergencyVars
<1>7. CASE UNCHANGED <<vars, emergencyVars>>
  BY <1>7 DEF EmergencyInv, BlockTimesPast, SecondLockLeft, FirstSeesWithoutError, Fresh,
              vars, loopVars, sensorVars, detVars, emergencyVars
<1> QED
  BY <1>1, <1>2, <1>3, <1>4, <1>5, <1>6, <1>7 DEF EmergencyLoop

\* As long as no SECOND sensor has a fault, the emergency lights never switch
\* on at a landing where SECOND was the first to be triggered within the last
\* emergency_block_ms, whatever the times that are set (main.c 327-349).
THEOREM BlockKept ==
    ASSUME \A r \in Readings : r.second # "error"
    PROVE  EmergencySpec => BlockHonoured
<1>1. EmergencyInit => Inv /\ EmergencyInv
  <2> SUFFICES ASSUME EmergencyInit PROVE EmergencyInv
    BY InitInv DEF EmergencyInit
  <2> QED
    BY DEF EmergencyInit, Init, EmergencyInv, BlockTimesPast, SecondLockLeft,
           FirstSeesWithoutError, Detector
<1>2. Inv /\ EmergencyInv /\ [EmergencyLoop]_<<vars, emergencyVars>> => Inv' /\ EmergencyInv'
  BY NextInv, NextEmergency, EmergencyStepsAreSteps DEF Inv
<1>3. Inv /\ EmergencyInv /\ [EmergencyLoop]_<<vars, emergencyVars>> =>
         [\A d \in Detector : SwitchesOn(d) => /\ ts >= detector_block_ts'[d]
                                               /\ ts - detector_block_ts'[d] > BlockMs]_<<vars, emergencyVars>>
  <2> SUFFICES ASSUME Inv, EmergencyInv, EmergencyLoop, NEW d \in Detector, SwitchesOn(d)
               PROVE  ts >= detector_block_ts'[d] /\ ts - detector_block_ts'[d] > BlockMs
    OBVIOUS
  <2>1. TimeoutAndConfirm
    BY DEF EmergencyLoop, LightsAndSwitchOff, SwitchOff, SwitchesOn, emergencyVars
  <2>2. pc = "timeout" /\ Confirmed(d)
    BY <2>1 DEF TimeoutAndConfirm, Timeout, Confirm, SwitchesOn
  <2>3. det[d] # "SECOND_LOCK"
    BY <2>2 DEF Confirmed, EmergencyInv, SecondLockLeft, Fresh, Detector
  <2>4. detector_block_ts'[d] = detector_block_ts[d]
    BY <2>1, <2>3 DEF TimeoutAndConfirm, Confirm
  <2>5. detector_block_ts[d] =< ts /\ detector_block_ts[d] \in Nat /\ ts \in Nat
    BY <2>2 DEF EmergencyInv, BlockTimesPast, Inv, TypeOK
  <2> QED
    BY <2>2, <2>4, <2>5 DEF Confirmed, LongerThan
<1> QED
  BY <1>1, <1>2, <1>3, PTL DEF EmergencySpec, BlockHonoured
=============================================================================
