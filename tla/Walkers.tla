------------------------------- MODULE Walkers -------------------------------
(***************************************************************************)
(* Stairway with people in front of its sensors.  Stairway lets the        *)
(* sensors report anything at any time; here each doorway is crossed by    *)
(* one person at a time who does not turn back, who is seen by at least    *)
(* one iteration at each stage, and who waits for the detector to be ready *)
(* (IDLE).  Under this discipline the people_count of the controller is    *)
(* compared with the people really inside.                                 *)
(*                                                                         *)
(* A narrow person covers FIRST and SECOND one after the other, with a gap *)
(* in which neither is active: the debounce time is what bridges the gap.  *)
(***************************************************************************)
EXTENDS Stairway

CONSTANT Slowest    \* the longest iteration

ASSUME SlowestAssumption ==
    Slowest \in Nat /\ \A e \in Elapsed, s \in SendTimes : e + s =< Slowest

VARIABLES
    walker,   \* the stage of the person in each doorway
    inside,   \* people really on the stairs
    lost      \* history: the off timeout forgot people who are still inside

walkVars == <<walker, inside, lost>>

Entering == {"in_first", "in_both", "in_gap", "in_second"}
Leaving  == {"out_second", "out_both", "out_gap", "out_first"}
Stage    == {"none"} \union Entering \union Leaving

Follows ==
    { <<"none", "in_first">>, <<"in_first", "in_both">>, <<"in_both", "in_second">>,
      <<"in_first", "in_gap">>, <<"in_gap", "in_second">>, <<"in_second", "none">>,
      <<"none", "out_second">>, <<"out_second", "out_both">>, <<"out_both", "out_first">>,
      <<"out_second", "out_gap">>, <<"out_gap", "out_first">>, <<"out_first", "none">> }

Gap == {"in_gap", "out_gap"}

\* A person in front of a sensor is seen; an empty doorway may have a fault.
Seen(s) ==
    LET near(S) == IF s \in S THEN "near" ELSE "far"
        reading == [first  |-> near({"in_first", "in_both", "out_first", "out_both"}),
                    second |-> near({"in_second", "in_both", "out_second", "out_both"})]
    IN  {reading} \union {r \in Readings : s = "none" /\ "error" \in {r.first, r.second}
                                                      /\ "near" \notin {r.first, r.second}}

\* One person may go on from stage s to stage t at doorway d.
MayGo(d, s, t, e) ==  \* e: the time until now
    \/ s = t /\ s \notin Gap
    \/ /\ <<s, t>> \in Follows
       /\ s = "none" => det[d] = "IDLE"
       /\ t \in Gap => now + e + Slowest - det_ts[d] =< Debounce

Count(w, S) == Cardinality({d \in Detector : w[d] \in S})

\* Everyone who leaves is inside, and MaxPeople bounds who enters.
Possible(w, n) ==
    /\ Count(w, Leaving) =< n
    /\ n + Count(w, Entering) =< MaxPeople

Walk(w, e) ==
    LET entered == {d \in Detector : walker[d] = "in_second" /\ w[d] = "none"}
        left    == {d \in Detector : walker[d] = "out_first" /\ w[d] = "none"}
    IN  /\ \A d \in Detector : MayGo(d, walker[d], w[d], e)
        /\ inside' = inside + Cardinality(entered) - Cardinality(left)
        /\ Possible(w, inside')
        /\ walker' = w

\* Nobody is in a doorway and no detector is working on a passage.
NoPassage ==
    pc = "sense" /\ \A d \in Detector : walker[d] = "none" /\ det[d] = "IDLE"

WalkAndSense ==
    \E w \in [Detector -> Stage], e \in Elapsed, s \in SendTimes :
        /\ pc = "sense"
        /\ Walk(w, e + s)
        /\ lost' = (lost /\ ~(NoPassage /\ inside = 0))
        /\ \E r \in [Detector -> Readings], light \in LightStates :
              /\ \A d \in Detector : r[d] \in Seen(w[d])
              /\ Sense(r, light, e, s)

WalkTimeout ==
    /\ Timeout
    /\ lost' = (lost \/ TimedOut)
    /\ UNCHANGED <<walker, inside>>

WalkInit ==
    /\ Init
    /\ walker = [d \in Detector |-> "none"]
    /\ inside = 0
    /\ lost = FALSE

WalkLoop ==
    \/ WalkAndSense
    \/ WalkTimeout
    \/ /\ \/ \E d \in Detector : Detect(d)
          \/ CountChange
          \/ Lights
          \/ Refresh
       /\ UNCHANGED walkVars

\* The owner may change the number of LEDs meanwhile.
WalkNext ==
    \/ WalkLoop
    \/ (\E n \in LedCounts : SetLedCount(n)) /\ UNCHANGED walkVars

WalkSpec == WalkInit /\ [][WalkNext]_<<vars, walkVars>>

\* The main loop never stops (while (1), kept alive by the watchdog); nobody
\* has to walk.
WalkFairSpec == WalkSpec /\ WF_<<vars, walkVars>>(WalkLoop)

-----------------------------------------------------------------------------
\* Between two passages the controller never believes in more people than
\* there are, and it knows the number exactly unless the off timeout has
\* fired while somebody stayed inside; once the stairs are empty it is right
\* again by itself (main.c 202-325).
CountIsRight ==
    NoPassage =>
        /\ people_count =< inside
        /\ ~lost => people_count = inside
=============================================================================
