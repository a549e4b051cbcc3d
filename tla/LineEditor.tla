------------------------------ MODULE LineEditor ------------------------------
(***************************************************************************)
(* The command line on the USB console: embedded_cli.h as cli.c and main.c *)
(* use it.  The main loop hands it one received character per iteration,   *)
(* and it is processed at once, so the input fifo never holds two.         *)
(*                                                                         *)
(* The line is edited in cmdBuffer, whose length the code knows twice, as  *)
(* cmdSize and as strlen(cmdBuffer).  The cursor is counted from the END   *)
(* of the line.  What is written to the terminal is meant to show prompt,  *)
(* line and, behind it, the rest of a command name the line may become.    *)
(* The log of the firmware goes to the same terminal, and tears the line.  *)
(***************************************************************************)
EXTENDS Commands, Terminal, CommandHistory

CONSTANTS
    CmdMax,    \* cmdBufferSize
    Letters,   \* displayable characters other than the space
    Final      \* those that end an escape sequence (64 to 126)

ASSUME CmdMaxAssumption == CmdMax \in Nat /\ CmdMax > 2
\* A name can be typed; completed and with its space it leaves the two bytes of
\* the end as well.
ASSUME NameAssumption ==
    \A i \in DOMAIN Bindings :
        Bindings[i].name \in Seq(Letters) /\ Len(Bindings[i].name) + 3 =< CmdMax
ASSUME CharAssumption ==
    Nul \notin Letters \union {Space} /\ Space \notin Letters /\ Final \subseteq Letters

VARIABLES
    line,             \* cmdBuffer up to its zero byte
    cmdSize,
    cursorPos,
    inputLineLength,  \* length of line and suggestion on the screen
    term,
    history,          \* history.buf and history.itemsCount
    current,          \* history.current, 0 for none
    lastChar,         \* as far as the code looks at it
    escape,           \* CLI_FLAG_ESCAPE_MODE
    outcome,          \* history: the last line entered, and what it did
    torn              \* history: something has been logged since it was entered

vars == <<line, cmdSize, cursorPos, inputLineLength, term, history, current,
          lastChar, escape, outcome, torn>>

Invitation == <<">", Space>>

Controls == {"CR", "LF", "BS", "DEL", "TAB"}
Char == Letters \union {Space, "ESC"} \union Controls

NoOutcome == [of |-> << >>, does |-> "none", value |-> << >>]

Prompt(t) == Write(NewRow(t), Invitation)

\* The invitation is written when the first character arrives.
Init ==
    /\ line = << >> /\ cmdSize = 0 /\ cursorPos = 0 /\ inputLineLength = 0
    /\ term = Write(FreshTerminal, Invitation)
    /\ history = EmptyHistory /\ current = 0
    /\ lastChar = "other" /\ escape = FALSE
    /\ outcome = NoOutcome
    /\ torn = FALSE

\* Line, sizes and screen together: what most functions of the code work on.
Edit == [line |-> line, size |-> cmdSize, cursor |-> cursorPos,
         shown |-> inputLineLength, term |-> term]

-----------------------------------------------------------------------------
(* Completion of command names.                                            *)

Candidates(prefix) ==
    IF prefix = << >> THEN {}
    ELSE {Bindings[i].name : i \in {j \in DOMAIN Bindings : IsPrefix(prefix, Bindings[j].name)}}

\* getAutocompletedCommand: the longest prefix the candidates share.
Completed(prefix) ==
    IF Candidates(prefix) = {} THEN prefix ELSE LongestCommonPrefix(Candidates(prefix))

From(s, i) == SubSeq(s, i, Len(s))

\* Mutant of Live: it does not blank what a longer suggestion has left.
LiveNoBlanks(e) ==
    LET full == Completed(e.line)
        ahead == Right(Save(e.term), e.cursor)
        written == Write(ahead, From(full, e.size + 1))
    IN  [e EXCEPT !.term = Restore(written), !.shown = Len(full)]

\* printLiveAutocompletion
Live(e) ==
    LET full == Completed(e.line)
        ahead == Right(Save(e.term), e.cursor)
        written == Write(ahead, From(full, e.size + 1) \o Blanks(e.shown - Len(full)))
    IN  [e EXCEPT !.term = Restore(written), !.shown = Len(full)]

ClearCurrentLine(e) ==
    [e EXCEPT !.term = Return(Write(Return(@), Blanks(e.shown + Len(Invitation)))),
              !.shown = 0, !.cursor = 0]

\* onAutocompleteRequest: complete the name, or list the candidates.
Autocomplete(e) ==
    LET n == Cardinality(Candidates(e.line))
        common == Completed(e.line)
        full == IF n = 1 THEN Append(common, Space) ELSE common
        cleared == ClearCurrentLine(e)
    IN  IF n = 0 THEN e
        ELSE IF n = 1 \/ Len(common) > e.size
        THEN [line |-> full, size |-> Len(full), cursor |-> 0, shown |-> Len(full),
              term |-> Write(e.term, From(full, e.size - e.cursor + 1))]
        ELSE [cleared EXCEPT !.term = Write(Prompt(@), e.line), !.shown = e.size]

-----------------------------------------------------------------------------
(* One character.                                                          *)

\* Mutant of Insert: one byte too many.
InsertFull(e, c) ==
    LET at == Len(e.line) - e.cursor
    IN  IF e.size + 2 > CmdMax THEN e
        ELSE [line |-> InsertAt(e.line, at + 1, c), size |-> e.size + 1, cursor |-> e.cursor,
              shown |-> e.shown + 1,
              term |-> Write(IF e.cursor > 0 THEN InsertChar(e.term) ELSE e.term, <<c>>)]

\* onCharInput: two bytes are kept for the end of the arguments.
Insert(e, c) ==
    LET at == Len(e.line) - e.cursor
    IN  IF e.size + 2 >= CmdMax THEN e
        ELSE [line |-> InsertAt(e.line, at + 1, c), size |-> e.size + 1, cursor |-> e.cursor,
              shown |-> e.shown + 1,
              term |-> Write(IF e.cursor > 0 THEN InsertChar(e.term) ELSE e.term, <<c>>)]

\* The character left of the cursor.
Backspace(e) ==
    IF e.size - e.cursor > 0
    THEN [e EXCEPT !.line = RemoveAt(@, Len(e.line) - e.cursor), !.size = @ - 1,
                   !.term = DeleteChar(Left(@, 1))]
    ELSE e

\* navigateHistory, to the n-th newest item.
Recall(e, n) ==
    LET item == HistoryGet(history, n)
        cleared == ClearCurrentLine(e)
    IN  Live([line |-> item, size |-> Len(item), cursor |-> 0, shown |-> Len(item),
              term |-> Write(cleared.term, Invitation \o item)])

\* The line after a completion is parsed, and the buffer starts afresh.
Enter ==
    LET e == Autocomplete(Edit)
        entered == ~IsBlank(e.line)
    IN  /\ line' = << >> /\ cmdSize' = 0 /\ cursorPos' = 0 /\ inputLineLength' = 0
        /\ term' = Live([line |-> << >>, size |-> 0, cursor |-> 0, shown |-> 0,
                         term |-> Prompt(e.term)]).term
        /\ history' = IF entered THEN HistoryPut(history, e.line) ELSE history
        /\ outcome' = IF entered
                      THEN LET o == ParseCommand(e.line)
                           IN  [of |-> e.line, does |-> o.does, value |-> o.value]
                      ELSE outcome
        /\ current' = 0 /\ torn' = FALSE

\* The edited line, after the suggestion that follows every character.
Becomes(e) ==
    LET f == Live(e)
    IN  /\ line' = f.line /\ cmdSize' = f.size /\ cursorPos' = f.cursor
        /\ inputLineLength' = f.shown /\ term' = f.term

Keeps == UNCHANGED <<history, current, outcome, torn>>

\* onControlInput; \r\n and \n\r count as one.
Control(c) ==
    LET newline == c \in {"CR", "LF"}
        second == {lastChar, c} = {"CR", "LF"}
    IN  \/ second /\ Becomes(Edit) /\ Keeps
        \/ ~second /\ newline /\ Enter
        \/ c \in {"BS", "DEL"} /\ Becomes(Backspace(Edit)) /\ Keeps
        \/ c = "TAB" /\ Becomes(Autocomplete(Edit)) /\ Keeps

\* onEscapedInput: cursor keys.
Arrow(c) ==
    CASE c = "A" /\ current < history.count ->
             /\ current' = current + 1 /\ Becomes(Recall(Edit, current + 1))
             /\ UNCHANGED <<history, outcome, torn>>
      [] c = "B" /\ current > 0 ->
             /\ current' = current - 1 /\ Becomes(Recall(Edit, current - 1))
             /\ UNCHANGED <<history, outcome, torn>>
      [] c = "C" /\ cursorPos > 0 ->
             Becomes([Edit EXCEPT !.cursor = @ - 1, !.term = Right(@, 1)]) /\ Keeps
      [] c = "D" /\ cursorPos < Len(line) ->
             Becomes([Edit EXCEPT !.cursor = @ + 1, !.term = Left(@, 1)]) /\ Keeps
      [] OTHER -> Becomes(Edit) /\ Keeps

\* cli_putchar: one character from the console.
Key(c) ==
    /\ lastChar' = IF c \in {"CR", "LF", "ESC"} THEN c ELSE "other"
    /\ \/ /\ escape
          /\ escape' = (c \notin Final)
          /\ Arrow(IF c \in Final THEN c ELSE "none")
       \/ /\ ~escape /\ lastChar = "ESC" /\ c = "["
          /\ escape' = TRUE
          /\ Becomes(Edit) /\ Keeps
       \/ /\ ~escape /\ ~(lastChar = "ESC" /\ c = "[")
          /\ UNCHANGED escape
          /\ \/ c \in Controls /\ Control(c)
             \/ c \in Letters \union {Space} /\ Becomes(Insert(Edit, c)) /\ Keeps
             \/ c = "ESC" /\ Becomes(Edit) /\ Keeps

\* INFO and LOG_IF_ERROR, anywhere else in the firmware: a text where the cursor
\* is, and a new row.  The line goes on there, without its prompt.
Log ==
    /\ term' = NewRow(term)
    /\ torn' = TRUE
    /\ UNCHANGED <<line, cmdSize, cursorPos, inputLineLength, history, current,
                   lastChar, escape, outcome>>

Next == (\E c \in Char : Key(c)) \/ Log

Spec == Init /\ [][Next]_vars

-----------------------------------------------------------------------------
(* What the arguments of a line mean, independently of how they are parsed. *)

\* The characters of s by what they are: a backslash that is not escaped
\* itself escapes the next character.
Escapes(s) ==
    LET active[i \in 0 .. Len(s)] == i > 0 /\ s[i] = Backslash /\ ~active[i - 1]
    IN  {i \in DOMAIN s : active[i]}
Plain(s, c) == {i \in DOMAIN s : s[i] = c /\ i - 1 \notin Escapes(s)}
Quoted(s, i) == Cardinality({q \in Plain(s, Quote) : q < i}) % 2 = 1
Separators(s) == Plain(s, Quote) \union {i \in Plain(s, Space) : ~Quoted(s, i)}

Parts(s) == DOMAIN s \ (Separators(s) \union Escapes(s))
Group(s, i) == Cardinality({p \in Separators(s) : p < i})

\* A finite set of numbers from the least to the greatest.
InOrder(S) == [k \in 1 .. Cardinality(S) |-> CHOOSE i \in S : Cardinality({j \in S : j =< i}) = k]

\* The characters that have the same separators in front of them are one argument.
Arguments(s) ==
    LET groups == InOrder({Group(s, i) : i \in Parts(s)})
        members(g) == InOrder({i \in Parts(s) : Group(s, i) = g})
    IN  [k \in DOMAIN groups |-> [j \in DOMAIN members(groups[k]) |-> s[members(groups[k])[j]]]]

\* The line calls b: blanks, its name, and either nothing or a space and args.
Calls(text, b, args) ==
    \E k \in 0 .. Len(text) :
        /\ IsBlank(SubSeq(text, 1, k))
        /\ From(text, k + 1) = b.name \o args
        /\ args = << >> \/ Head(args) = Space

Tails(text) == {From(text, k) : k \in 1 .. Len(text) + 1}

\* The value of the last n digits is that of one less and of the one in front.
NumberOf(s) ==
    LET place[n \in 0 .. Len(s)] == IF n = 0 THEN 1 ELSE 10 * place[n - 1]
        value[n \in 0 .. Len(s)] ==
            IF n = 0 THEN 0 ELSE DigitValue[s[Len(s) + 1 - n]] * place[n - 1] + value[n - 1]
    IN  value[Len(s)]

\* The value that arg stands for as the argument of b, if it is acceptable.
Meanings(b, arg) ==
    CASE b.type = "string" -> IF Len(arg) < b.max THEN {arg} ELSE {}
      [] b.type = "number" ->
            IF \E i \in DOMAIN arg : arg[i] \notin DOMAIN DigitValue THEN {}
            ELSE {v \in {NumberOf(arg), ULongMax} :
                     v =< b.max /\ (v = NumberOf(arg) \/ NumberOf(arg) > ULongMax)}
      [] b.type \notin {"string", "number"} -> {}

\* What a line sets its setting to.
Sets(text) ==
    LET calls == {c \in (DOMAIN Bindings) \X Tails(text) : Calls(text, Bindings[c[1]], c[2])}
        good  == {c \in calls : Len(Arguments(c[2])) = 1 /\ Arguments(c[2])[1] \notin HelpFlags}
    IN  UNION {Meanings(Bindings[c[1]], Arguments(c[2])[1]) : c \in good}

-----------------------------------------------------------------------------
(* Properties.                                                             *)

\* Both lengths of the line agree, the cursor is in the line, and there is room
\* for the two zero bytes behind it, for history and completions as well
\* (embedded_cli.h 1055-1168, 1414-1459).
EditorTypeOK ==
    /\ line \in Seq(Letters \union {Space}) /\ cmdSize = Len(line) /\ cmdSize =< CmdMax - 2
    /\ cursorPos \in 0 .. cmdSize
    /\ inputLineLength \in Nat
    /\ history.count \in Nat /\ current \in 0 .. history.count
    /\ \A i \in 1 .. HistorySize : history.buf[i] \in Letters \union {Space, Nul}
    /\ lastChar \in {"other", "CR", "LF", "ESC"} /\ escape \in BOOLEAN /\ torn \in BOOLEAN

\* From when a line is entered until something is logged, the screen shows
\* prompt, line and suggestion after every key and nothing else, with the cursor
\* where the next character goes, although it is only ever patched; what the log
\* has torn is repaired when the next line is entered at the latest
\* (embedded_cli.h 1087-1168, 1383-1496, global.h 24-29).
ScreenShowsLine ==
    LET shown == Invitation \o line \o From(Completed(line), Len(line) + 1)
    IN  ~torn => /\ term.row = shown \o Blanks(Width - Len(shown))
                 /\ term.col = Len(Invitation) + Len(line) - cursorPos

\* Buffers, sizes and the cursor from the end implement an edited line with a
\* list of the commands entered last (embedded_cli.h 1055-1252, 1529-1599).
L == INSTANCE EditedLine WITH
         Typed <- Letters \union {Space},
         Names <- {Bindings[i].name : i \in DOMAIN Bindings},
         MaxLine <- CmdMax - 2,
         MaxBytes <- HistorySize,
         left <- SubSeq(line, 1, Len(line) - cursorPos),
         right <- From(line, Len(line) - cursorPos + 1),
         recent <- [n \in 1 .. history.count |-> HistoryGet(history, n)],
         back <- current

ImplementsEditedLine == L!LineSpec

\* A setting is changed exactly if the line is its name with one argument that
\* it accepts, and to what that argument says; numbers beyond the largest
\* unsigned long count as the largest (embedded_cli.h 964-1053, 1170-1252,
\* commands.c 85-95, 118-160).
SetsWhatWasTyped ==
    IF outcome.does = "set" THEN outcome.value \in Sets(outcome.of)
    ELSE Sets(outcome.of) = {}
=============================================================================
