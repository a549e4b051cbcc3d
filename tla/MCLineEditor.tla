----------------------------- MODULE MCLineEditor -----------------------------
(***************************************************************************)
(* The command line on short names, lines and buffers.  A session either   *)
(* edits lines of a's and spaces and enters some of them, or it types one  *)
(* line with a name of one letter and any arguments, and enters that.      *)
(***************************************************************************)
EXTENDS LineEditor

CONSTANTS
    MaxArgs    \* characters behind the name in a line typed beforehand

MCLetters == {"a", "b", "c", "d", "h", "1", "9", "-", Quote, Backslash, "[", "A", "B", "C", "D"}

MCFinal == MCLetters \ {"1", "9", "-", Quote}

Setting(name, type, max) == [name |-> name, type |-> type, max |-> max]

\* Numbers of a type narrower than unsigned long, and of the same width.
MCBindings == <<Setting(<<"h">>, "help", 0),
                Setting(<<"a", "a", "b">>, "ignores", 0),
                Setting(<<"b">>, "number", 19),
                Setting(<<"c">>, "number", ULongMax),
                Setting(<<"d">>, "string", 4),
                Setting(<<"a", "a", "a">>, "string", 4)>>

\* Lines that are entered while others are edited: blank, completed,
\* ambiguous, with an argument.
Submitted == {<< >>, <<Space>>, <<"a">>, <<"a", "a", "a">>, <<Space, "a">>,
              <<"a", "a", "a", Space, "a">>}

\* Lines that are typed from left to right and entered, with any arguments.
Names == {<<"h">>, <<"b">>, <<"c">>, <<"d">>}
ArgLetters == {"1", "9", "h", "-", Quote, Backslash, Space}
IsCall(text) == text # << >> /\ << Head(text) >> \in Names

\* The next character of such a line.
CallLetters(text) ==
    IF text = << >> THEN IF outcome = NoOutcome THEN UNION {Range(n) : n \in Names} ELSE {}
    ELSE IF ~IsCall(text) THEN {}
    ELSE IF Len(text) = 1 THEN {Space}
    ELSE IF Len(text) < MaxArgs + 2 THEN ArgLetters
    ELSE {}

\* Bound: in an edited line a space is typed once.
Sends(c) ==
    \/ c \in CallLetters(line) /\ ~escape /\ lastChar = "other"
    \/ c \in {"CR", "LF"} /\ (line \in Submitted \/ IsCall(line))
    \/ c = "[" /\ lastChar = "ESC" /\ ~escape
    \/ c \in {"1", "A", "B", "C", "D"} /\ escape
    \/ c = "ESC" /\ ~escape /\ lastChar # "ESC" /\ ~IsCall(line)
    \/ c \in {"a", "BS", "TAB"} /\ ~IsCall(line)
    \/ c = Space /\ ~IsCall(line) /\ ~Contains(line, Space)

MCNext ==
    /\ ~IsCall(outcome.of)
    /\ (\E c \in Char : Sends(c) /\ Key(c)) \/ Log

MCSpec == Init /\ [][MCNext]_vars

\* What a torn row holds decides nothing: Enter starts a new one, and until then
\* ScreenShowsLine promises nothing about it.
View == <<line, cmdSize, cursorPos, inputLineLength, IF torn THEN FreshTerminal ELSE term,
          history, current, lastChar, escape, outcome, torn>>
=============================================================================
