------------------------------- MODULE Commands -------------------------------
(***************************************************************************)
(* From a command line to what it does: parseCommand of embedded_cli.h and *)
(* the handlers of commands.c, up to the values they hand to               *)
(* settings_validate and settings_apply (SettingsStore).  uint32_t and     *)
(* unsigned long have the same width on this processor.                    *)
(***************************************************************************)
EXTENDS Tokens

CONSTANTS
    Bindings,     \* the table of commands: sequence of [name, type, max]
    ULongMax      \* ULONG_MAX, at which strtoul stops counting

DigitValue == [c \in {"0", "1", "2", "3", "4", "5", "6", "7", "8", "9"} |->
                  CASE c = "0" -> 0 [] c = "1" -> 1 [] c = "2" -> 2 [] c = "3" -> 3
                    [] c = "4" -> 4 [] c = "5" -> 5 [] c = "6" -> 6 [] c = "7" -> 7
                    [] c = "8" -> 8 [] c = "9" -> 9]

\* help; commands that ignore their arguments (status, default); wifi and the
\* settings, whose argument is a number up to max or a string shorter than max.
CommandType == {"help", "ignores", "number", "string"}

\* No two commands have the same name.
ASSUME BindingAssumption ==
    /\ IsFiniteSet(DOMAIN Bindings) /\ DOMAIN Bindings \subseteq Nat
    /\ \A i \in DOMAIN Bindings :
           /\ Bindings[i].type \in CommandType /\ Bindings[i].max \in Nat
           /\ Len(Bindings[i].name) > 0
    /\ \A i, j \in DOMAIN Bindings : Bindings[i].name = Bindings[j].name => i = j
ASSUME ULongAssumption == ULongMax \in Nat

-----------------------------------------------------------------------------
(* parse_uint.                                                             *)

\* strtoul, for a string of digits.
Strtoul(s) ==
    LET read[n \in 0 .. Len(s)] ==
            IF n = 0 THEN 0
            ELSE IF 10 * read[n - 1] + DigitValue[s[n]] > ULongMax THEN ULongMax
            ELSE 10 * read[n - 1] + DigitValue[s[n]]
    IN  read[Len(s)]

IsUint(s, max) ==
    /\ s # << >>
    /\ \A i \in DOMAIN s : s[i] \in DOMAIN DigitValue
    /\ Strtoul(s) =< max

-----------------------------------------------------------------------------
(* What a command line does.                                               *)

Does(what) == [does |-> what, value |-> << >>]

\* set_setting and set_wifi_state: one argument that fits, or nothing happens.
\* settings_validate has its say before the value becomes active.
SetSetting(b, out) ==
    LET arg == FirstToken(out) IN
    IF TokenCount(out) # 1 THEN Does("refused")
    ELSE IF b.type = "number"
    THEN IF IsUint(arg, b.max) THEN [does |-> "set", value |-> Strtoul(arg)] ELSE Does("refused")
    ELSE IF Len(arg) < b.max THEN [does |-> "set", value |-> arg] ELSE Does("refused")

\* onHelp
Help(out) ==
    CASE TokenCount(out) = 0 -> Does("list")
      [] TokenCount(out) = 1 ->
            Does(IF \E i \in DOMAIN Bindings : Bindings[i].name = FirstToken(out)
                 THEN "explains" ELSE "unknown")
      [] TokenCount(out) > 1 -> Does("refused")

HelpFlags == {<<"-", "h">>, <<"-", "-", "h", "e", "l", "p">>}

\* The call of a binding, with its arguments tokenized.
Execute(b, out) ==
    IF FirstToken(out) \in HelpFlags THEN Does("usage")
    ELSE IF b.type = "help" THEN Help(out)
    ELSE IF b.type = "ignores" THEN Does("runs")
    ELSE SetSetting(b, out)

IsBlank(line) == \A i \in DOMAIN line : line[i] = Space

\* parseCommand, for a line that is not blank: the name is the first word,
\* the arguments are the rest from the first character that is not a space.
ParseCommand(line) ==
    LET start == SelectInSeq(line, LAMBDA c : c # Space)
        text == SubSeq(line, start, Len(line))
        name == SubSeq(text, 1, SelectInSeq(text \o << Space >>, LAMBDA c : c = Space) - 1)
        rest == SubSeq(text, Len(name) + 1, Len(text))
        args == IF IsBlank(rest) THEN << >>
                ELSE SubSeq(rest, SelectInSeq(rest, LAMBDA c : c # Space), Len(rest))
        hits == {i \in DOMAIN Bindings : Bindings[i].name = name}
    IN  IF hits = {} THEN Does("unknown")
        ELSE Execute(Bindings[CHOOSE i \in hits : \A j \in hits : i =< j], TokenizeArgs(args))
=============================================================================
