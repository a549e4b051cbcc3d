--------------------------- MODULE DurableSettings --------------------------
(***************************************************************************)
(* What the settings component promises to the rest of the firmware: there *)
(* is always one valid set of active settings, a change is active at once, *)
(* and a change that was answered with success is what the next boot       *)
(* activates.  Nothing else is promised of a save that fails or is cut     *)
(* short: the next boot activates the old settings, the new ones or the    *)
(* defaults.                                                               *)
(***************************************************************************)
CONSTANTS Valid, Default, NoSettings

VARIABLES
    active,   \* the settings in use, NoSettings before a boot
    saved,    \* the settings a boot would activate
    status,   \* "off", "saving" or "ready"
    answer    \* how the last request ended

vars == <<active, saved, status, answer>>

Init ==
    /\ active = NoSettings
    /\ saved \in Valid
    /\ status = "off"
    /\ answer = "none"

\* A boot activates what is saved; where that is the defaults it may save them.
Boot ==
    /\ status = "off"
    /\ active' = saved
    /\ \/ status' = "ready" /\ answer' = "ok"
       \/ status' = "saving" /\ saved = Default /\ UNCHANGED answer
    /\ UNCHANGED saved

Change(s) ==
    /\ status = "ready"
    /\ active' = s
    /\ status' = "saving"
    /\ UNCHANGED <<saved, answer>>

\* A rejected request changes nothing.
Reject ==
    /\ status = "ready"
    /\ answer' = "rejected"
    /\ UNCHANGED <<active, saved, status>>

\* While a save goes on, the old settings are lost before the new ones are kept.
Save ==
    /\ status = "saving"
    /\ saved' \in {Default, active}
    /\ UNCHANGED <<active, status, answer>>

Answer ==
    /\ status = "saving"
    /\ status' = "ready"
    /\ \/ answer' = "ok" /\ saved = active
       \/ answer' = "failed"
    /\ UNCHANGED <<active, saved>>

\* Power is lost, possibly in the middle of a save.
Crash ==
    /\ active' = NoSettings
    /\ status' = "off"
    /\ answer' = "none"
    /\ saved' \in IF status = "saving" THEN {saved, Default, active} ELSE {saved}

Next == Boot \/ (\E s \in Valid : Change(s)) \/ Reject \/ Save \/ Answer \/ Crash

Spec == Init /\ [][Next]_vars
=============================================================================
