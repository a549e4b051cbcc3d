----------------------------- MODULE MCNetwork ------------------------------
(* An instance of Network for TLC.  A small request buffer and send buffer, *)
(* so that a request comes in parts, a response goes out in parts, and both *)
(* limits of a request are met.  The view keeps the ages the code compares. *)
EXTENDS Network

\* A page, the three commands, a method that does not exist, a body and a header
\* that do not fit.
AllKinds == {"page", "restart", "reset", "settings", "bad", "large", "endless"}
KindHeader == [k \in AllKinds |-> CASE k = "endless" -> 9 [] k = "page" -> 2 [] OTHER -> 1]
KindContent == [k \in AllKinds |-> CASE k = "large" -> 9 [] k \in {"reset", "settings"} -> 1 [] OTHER -> 0]
KindResponse == [k \in AllKinds |-> CASE k = "bad" -> 0 [] k = "page" -> 3 [] OTHER -> 1]

AgeUpTo(t, limit) == IF ts - t > limit THEN limit + 1 ELSE ts - t

NetworkView ==
    << pc, AgeUpTo(button_prev_ts, ButtonPeriod), button_debounce, button_state,
       IF held > ButtonDebounce + 1 THEN ButtonDebounce + 2 ELSE held,
       stateVars, netVars,
       CASE reboot_ts = 0 -> -1 [] reboot_ts =< ts -> 0 [] OTHER -> reboot_ts - ts,
       httpVars >>
=============================================================================
