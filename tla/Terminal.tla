------------------------------- MODULE Terminal -------------------------------
(***************************************************************************)
(* The row of the user's terminal in which the command line is edited, as  *)
(* far as embedded_cli.h relies on it: the ANSI sequences it sends, on a   *)
(* row that is wide enough for the prompt, a full line and a suggestion.   *)
(* A row above the current one is never written again, so only the current *)
(* one is kept.                                                            *)
(***************************************************************************)
EXTENDS Integers, Sequences

CONSTANT Width    \* columns of the row

ASSUME WidthAssumption == Width \in Nat \ {0}

Blank == " "
EmptyRow == [i \in 1 .. Width |-> Blank]
Blanks(n) == [i \in 1 .. n |-> Blank]

\* The cells, the number of cells left of the cursor, and of the saved one.
FreshTerminal == [row |-> EmptyRow, col |-> 0, saved |-> 0]

\* Characters overwrite what is there.
Write(t, s) ==
    [t EXCEPT !.row = [i \in 1 .. Width |-> IF i - t.col \in DOMAIN s THEN s[i - t.col] ELSE @[i]],
              !.col = @ + Len(s)]

\* Carriage return, and the start of a new row.
Return(t) == [t EXCEPT !.col = 0]
NewRow(t) == [t EXCEPT !.row = EmptyRow, !.col = 0]

\* Cursor by n columns, within the row.
Left(t, n)  == [t EXCEPT !.col = IF @ > n THEN @ - n ELSE 0]
Right(t, n) == [t EXCEPT !.col = IF @ + n < Width THEN @ + n ELSE Width - 1]

Save(t)    == [t EXCEPT !.saved = t.col]
Restore(t) == [t EXCEPT !.col = t.saved]

\* Make room for a character at the cursor; remove the one at the cursor.
InsertChar(t) ==
    [t EXCEPT !.row = [i \in 1 .. Width |-> IF i =< t.col THEN @[i]
                                            ELSE IF i = t.col + 1 THEN Blank ELSE @[i - 1]]]
DeleteChar(t) ==
    [t EXCEPT !.row = [i \in 1 .. Width |-> IF i =< t.col THEN @[i]
                                            ELSE IF i = Width THEN Blank ELSE @[i + 1]]]
=============================================================================
