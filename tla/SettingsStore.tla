---------------------------- MODULE SettingsStore ---------------------------
(***************************************************************************)
(* The settings of the controller: the copy in RAM that everything reads   *)
(* (global_settings of settings.c), its image in one flash page, and the   *)
(* write in between, which erases the sector, programs the page and reads  *)
(* it back.  Both flash operations may fail, and power may be lost at any  *)
(* moment, also by a reboot on request or by the watchdog.                 *)
(*                                                                         *)
(* Settings are the access point's state, which the button and the CLI     *)
(* change on its own, and the rest.  The header (magic, version, size and  *)
(* CRC) of a flash page is modelled by what it tells apart: a page that    *)
(* was erased, torn or never written is Blank.                             *)
(***************************************************************************)
CONSTANTS
    Rest,         \* all settings but ap_state
    ValidRest,    \* those settings_validate accepts
    DefaultRest,
    Blank         \* an image without a valid header; RAM before a boot

Settings == [ap_state : BOOLEAN, rest : Rest]
Valid    == [ap_state : BOOLEAN, rest : ValidRest]
default_settings == [ap_state |-> TRUE, rest |-> DefaultRest]

ASSUME RestAssumption == ValidRest \subseteq Rest /\ DefaultRest \in ValidRest
ASSUME BlankAssumption == Blank \notin Settings

VARIABLES
    pc,       \* "off", "idle" or the next step of settings_write
    global,   \* global_settings
    flash,    \* flash_target_contents
    request,  \* what the write in progress, or the last one, was for
    result,   \* how the last request ended
    before    \* history: global before the last request

vars == <<pc, global, flash, request, result, before>>

\* Any image may be in flash, also the valid header of unacceptable settings.
Init ==
    /\ pc = "off"
    /\ global = Blank
    /\ flash \in Settings \union {Blank}
    /\ request = "boot"
    /\ result = "none"
    /\ before = Blank

-----------------------------------------------------------------------------
\* The requests.  Begin is the part they share: s becomes active, then is written.
Begin(what, s) ==
    /\ global' = s
    /\ request' = what
    /\ before' = global
    /\ pc' = "compare"
    /\ UNCHANGED <<flash, result>>

Answer(r) ==
    /\ pc' = "idle"
    /\ result' = r
    /\ UNCHANGED <<global, request, before>>

\* Mutant of Boot: whatever is in flash is taken.
BootUnchecked ==
    /\ pc = "off"
    /\ global' = flash
    /\ request' = "boot"
    /\ before' = global
    /\ pc' = "idle"
    /\ result' = "ok"
    /\ UNCHANGED flash

\* settings_init: an unacceptable image is replaced by the defaults.  main
\* ignores the result and runs on what is in RAM.
Boot ==
    /\ pc = "off"
    /\ IF flash \in Valid
       THEN /\ global' = flash
            /\ request' = "boot"
            /\ before' = global
            /\ pc' = "idle"
            /\ result' = "ok"
            /\ UNCHANGED flash
       ELSE Begin("boot", default_settings)

\* Mutant of Apply: settings_validate is not called.
ApplyUnchecked(s) == pc = "idle" /\ Begin("apply", s)

\* settings_apply, for a setting of the CLI or the JSON of the web page.
Apply(s) == pc = "idle" /\ s \in Valid /\ Begin("apply", s)

\* A request that is answered with an error before anything has changed.
Rejected ==
    /\ pc = "idle"
    /\ request' = "apply"
    /\ before' = global
    /\ pc' = "idle"
    /\ result' = "rejected"
    /\ UNCHANGED <<global, flash>>

\* Mutant of Reject: settings are copied before they are validated.
RejectTooLate(s) ==
    /\ pc = "idle" /\ s \notin Valid
    /\ request' = "apply"
    /\ before' = global
    /\ pc' = "idle"
    /\ result' = "rejected"
    /\ global' = s
    /\ UNCHANGED flash

Reject(s) == s \notin Valid /\ Rejected

\* The button and "wifi" of the CLI: no validation, one field only.
SetApState(b) == pc = "idle" /\ Begin("ap_state", [global EXCEPT !.ap_state = b])

SetDefault == pc = "idle" /\ Begin("default", default_settings)

-----------------------------------------------------------------------------
\* settings_write.  A page that is up to date is not written again.
Compare ==
    /\ pc = "compare"
    /\ IF flash = global
       THEN Answer("ok")
       ELSE pc' = "erase" /\ UNCHANGED <<global, request, result, before>>
    /\ UNCHANGED flash

Erase ==
    /\ pc = "erase"
    /\ \/ flash' = Blank /\ pc' = "program" /\ UNCHANGED <<global, request, result, before>>
       \/ Answer("failed") /\ UNCHANGED flash

\* Programming may fail, or leave a page that does not read back.
Program ==
    /\ pc = "program"
    /\ \/ /\ flash' \in {global, Blank}
          /\ pc' = "verify"
          /\ UNCHANGED <<global, request, result, before>>
       \/ Answer("failed") /\ UNCHANGED flash

\* Mutant of Verify: the page is not read back.
VerifyNothing ==
    /\ pc = "verify"
    /\ Answer("ok")
    /\ UNCHANGED flash

Verify ==
    /\ pc = "verify"
    /\ Answer(IF flash = global THEN "ok" ELSE "failed")
    /\ UNCHANGED flash

-----------------------------------------------------------------------------
\* Power loss, watchdog or reboot_request.  A flash operation that is cut
\* short may have done nothing, all of its work, or a part of it.
Crash ==
    /\ pc # "off"
    /\ flash' \in CASE pc = "erase"   -> {flash, Blank}
                    [] pc = "program" -> {Blank, global}
                    [] OTHER          -> {flash}
    /\ pc' = "off"
    /\ global' = Blank
    /\ request' = "boot"
    /\ result' = "none"
    /\ before' = Blank

Write == Compare \/ Erase \/ Program \/ Verify

Next ==
    \/ Boot
    \/ \E s \in Settings : Apply(s) \/ Reject(s)
    \/ \E b \in BOOLEAN : SetApState(b)
    \/ SetDefault
    \/ Write
    \/ Crash

Spec == Init /\ [][Next]_vars

-----------------------------------------------------------------------------
(* Properties.                                                             *)

Writing == {"compare", "erase", "program", "verify"}

TypeOK ==
    /\ pc \in {"off", "idle"} \union Writing
    /\ global \in IF pc = "off" THEN {Blank} ELSE Settings
    /\ flash \in Settings \union {Blank}
    /\ request \in {"boot", "apply", "ap_state", "default"}
    /\ result \in {"none", "ok", "failed", "rejected"}
    /\ before \in Settings \union {Blank}

\* Once booted the controller runs on settings that settings_validate
\* accepts, whatever was in flash and however writes ended (settings.c 35-94).
ActiveValid == pc # "off" => global \in Valid

\* A request answered with success is in flash, and stays there until the
\* next request (settings.c 108-133).
SavedMeansDurable == pc = "idle" /\ result = "ok" => flash = global

\* The abstract view: what a boot would activate is the image in flash or,
\* where that is unacceptable, the defaults.
Durable ==
    INSTANCE DurableSettings WITH
        Valid <- Valid,
        Default <- default_settings,
        NoSettings <- Blank,
        active <- global,
        saved <- IF flash \in Valid THEN flash ELSE default_settings,
        status <- CASE pc = "off" -> "off" [] pc = "idle" -> "ready" [] OTHER -> "saving",
        answer <- result

\* The component keeps the promises of DurableSettings: what a boot activates
\* is what the last successful request saved or, after a save that failed or was
\* cut short, the old settings, the new ones or the defaults, and a rejected
\* request touches neither RAM nor flash (settings.c 35-133).
ImplementsDurable == Durable!Spec

\* "Nothing is changed on error": a request to apply settings that fails leaves
\* the active settings alone.  The code does not keep this.
NothingChangedOnError ==
    [][pc' = "idle" /\ request' = "apply" /\ result' \in {"failed", "rejected"}
          => global' = before']_vars
=============================================================================
