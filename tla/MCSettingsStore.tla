-------------------------- MODULE MCSettingsStore ---------------------------
(* SettingsStore with four settings besides ap_state, one of them invalid. *)
EXTENDS SettingsStore

CONSTANTS factory, a, b, bad

MCRest == {factory, a, b, bad}
MCValidRest == {factory, a, b}
=============================================================================
