---------------------------- MODULE AccessPoint -----------------------------
(***************************************************************************)
(* The part of the main loop that looks after the Wi-Fi access point and   *)
(* reboots (main.c 120-162): the BOOTSEL button and the CLI change         *)
(* settings->ap_state, the loop makes the access point follow it, and a    *)
(* reboot that was requested is carried out when its time has come.        *)
(*                                                                         *)
(* An iteration passes through "poll" (net_poll, where lwIP calls the web  *)
(* server), "button", "sync" and "cli".                                    *)
(***************************************************************************)
EXTENDS Integers

CONSTANTS
    ButtonPeriod,     \* BUTTON_POLL_PERIOD
    ButtonDebounce,   \* BUTTON_DEBOUNCE_CNT
    PostDelay,        \* delay of a reboot requested by the web page
    CliDelay,         \* delay of a reboot after the command "default"
    IterationMs       \* bound: milliseconds from one iteration to the next

ASSUME ButtonAssumption == ButtonPeriod \in Nat /\ ButtonDebounce \in Nat
ASSUME DelayAssumption == PostDelay \in Nat /\ CliDelay \in Nat
ASSUME IterationAssumption == IterationMs \subseteq Nat \ {0}

VARIABLES
    pc,
    ts,                \* the clock at the start of the iteration
    button_prev_ts,
    button_debounce,
    button_state,
    held,              \* history: polls in a row that saw the button pressed
    ap_state,          \* settings->ap_state
    saved,             \* the ap_state the next boot will find
    ap_started,
    net_ready,
    reboot_ts          \* 0 if no reboot is requested

buttonVars == <<button_prev_ts, button_debounce, button_state, held>>
stateVars  == <<ap_state, saved>>
netVars    == <<ap_started, net_ready>>
apVars     == <<pc, ts, buttonVars, stateVars, netVars, reboot_ts>>

\* A boot.  net_ap_init may fail, then there is no access point until the next.
Booted(state) ==
    /\ pc' = "poll"
    /\ ts' = 1
    /\ button_prev_ts' = 0
    /\ button_debounce' = 0
    /\ button_state' = FALSE
    /\ held' = 0
    /\ ap_state' = state
    /\ saved' = state
    /\ ap_started' = FALSE
    /\ net_ready' \in BOOLEAN
    /\ reboot_ts' = 0

ApInit ==
    /\ pc = "poll"
    /\ ts = 1
    /\ button_prev_ts = 0
    /\ button_debounce = 0
    /\ button_state = FALSE
    /\ held = 0
    /\ ap_state \in BOOLEAN
    /\ saved = ap_state
    /\ ap_started = FALSE
    /\ net_ready \in BOOLEAN
    /\ reboot_ts = 0

-----------------------------------------------------------------------------
(* What the web server asks for while net_poll runs.                       *)

RebootRequest(delay) == reboot_ts' = ts + delay

\* settings_write: it succeeds, fails and leaves the old page, or leaves a
\* blank one, after which a boot takes the default, TRUE.
Written(ok) == IF ok THEN saved' = ap_state' ELSE saved' \in {saved, TRUE}

Polling == pc = "poll" /\ ap_started

\* Any other setting: the page is written with the ap_state of the moment, unless
\* the setting is refused.
Save ==
    /\ UNCHANGED <<ap_state, reboot_ts>>
    /\ \E ok \in BOOLEAN : Written(ok)

\* "restart", "reset" and "settings" of the web page; any other request leaves this
\* alone.
Command(what) ==
    /\ Polling
    /\ CASE what = "restart"  -> RebootRequest(PostDelay) /\ UNCHANGED stateVars
         [] what = "reset"    -> /\ ap_state' = TRUE
                                 /\ \E ok \in BOOLEAN : Written(ok)
                                 /\ UNCHANGED reboot_ts
         [] what = "settings" -> Save
         [] OTHER             -> UNCHANGED <<reboot_ts, stateVars>>
    /\ UNCHANGED <<pc, ts, buttonVars, netVars>>

EndPoll ==
    /\ pc = "poll"
    /\ \E e \in IterationMs : ts' = ts + e
    /\ pc' = "button"
    /\ UNCHANGED <<buttonVars, stateVars, netVars, reboot_ts>>

-----------------------------------------------------------------------------
(* The rest of the iteration.                                              *)

\* Mutant of RebootDue: only looked at while the access point is on.
RebootDueStarted == ap_started /\ reboot_ts # 0 /\ ts >= reboot_ts

RebootDue == reboot_ts # 0 /\ ts >= reboot_ts

Reboot ==
    /\ pc = "button" /\ RebootDue
    /\ Booted(saved)

\* Mutant of Pressed: every reading of a held button counts again.
PressedAgain ==
    IF button_debounce < ButtonDebounce
    THEN button_debounce' = button_debounce + 1 /\ UNCHANGED <<button_state, stateVars>>
    ELSE /\ button_state' = TRUE
         /\ button_debounce' = 0
         /\ ap_state' = ~ap_state
         /\ \E ok \in BOOLEAN : Written(ok)

\* Another poll that sees the button pressed: the last one of the debounce
\* toggles the access point, once until the button is released.
Pressed ==
    IF button_debounce < ButtonDebounce
    THEN button_debounce' = button_debounce + 1 /\ UNCHANGED <<button_state, stateVars>>
    ELSE IF button_state
    THEN UNCHANGED <<button_debounce, button_state, stateVars>>
    ELSE /\ button_state' = TRUE
         /\ button_debounce' = 0
         /\ ap_state' = ~ap_state
         /\ \E ok \in BOOLEAN : Written(ok)

Button(pressed) ==
    /\ pc = "button" /\ ~RebootDue
    /\ ts - button_prev_ts > ButtonPeriod
    /\ button_prev_ts' = ts
    /\ IF pressed
       THEN Pressed /\ held' = held + 1
       ELSE button_debounce' = 0 /\ button_state' = FALSE /\ held' = 0 /\ UNCHANGED stateVars
    /\ pc' = "sync"
    /\ UNCHANGED <<ts, netVars, reboot_ts>>

ButtonNotPolled ==
    /\ pc = "button" /\ ~RebootDue
    /\ ts - button_prev_ts =< ButtonPeriod
    /\ pc' = "sync"
    /\ UNCHANGED <<ts, buttonVars, stateVars, netVars, reboot_ts>>

\* net_ap_set_state
Sync ==
    /\ pc = "sync"
    /\ ap_started' = IF net_ready THEN ap_state ELSE ap_started
    /\ pc' = "cli"
    /\ UNCHANGED <<ts, buttonVars, stateVars, net_ready, reboot_ts>>

\* "wifi 0" and "wifi 1"
SetWifiState(state) ==
    /\ ap_state' = state
    /\ \E ok \in BOOLEAN : Written(ok)
    /\ UNCHANGED reboot_ts

\* "default": it reboots if the defaults could be written.
SetDefault ==
    /\ ap_state' = TRUE
    /\ \E ok \in BOOLEAN :
           /\ Written(ok)
           /\ IF ok THEN RebootRequest(CliDelay) ELSE UNCHANGED reboot_ts

Cli ==
    /\ pc = "cli"
    /\ \/ \E state \in BOOLEAN : SetWifiState(state)
       \/ SetDefault
       \/ Save
       \/ UNCHANGED <<stateVars, reboot_ts>>
    /\ pc' = "poll"
    /\ UNCHANGED <<ts, buttonVars, netVars>>

-----------------------------------------------------------------------------
ApTypeOK ==
    /\ pc \in {"poll", "button", "sync", "cli"}
    /\ ts \in Nat \ {0}
    /\ button_prev_ts \in 0 .. ts
    /\ button_debounce \in 0 .. ButtonDebounce
    /\ button_state \in BOOLEAN
    /\ held \in Nat
    /\ ap_state \in BOOLEAN /\ saved \in BOOLEAN
    /\ ap_started \in BOOLEAN /\ net_ready \in BOOLEAN
    /\ reboot_ts \in Nat
=============================================================================
