------------------------------ MODULE EditedLine ------------------------------
(***************************************************************************)
(* What the command line promises its user: text left and right of a       *)
(* cursor, a list of the commands entered most recently without            *)
(* repetitions, and where in that list the user is looking.  There are no  *)
(* buffers here; that they are limited shows in two numbers only.          *)
(***************************************************************************)
EXTENDS Integers, Sequences

CONSTANTS
    Typed,       \* characters that may be typed
    Names,       \* names that are completed
    MaxLine,     \* longest line
    MaxBytes     \* size of all remembered commands, one more byte for each

VARIABLES left, right, recent, back

lineVars == <<left, right, recent, back>>

Text == left \o right

Front(s) == SubSeq(s, 1, Len(s) - 1)

LineInit == left = << >> /\ right = << >> /\ recent = << >> /\ back = 0

Type(c) ==
    /\ Len(Text) < MaxLine
    /\ left' = Append(left, c)
    /\ UNCHANGED <<right, recent, back>>

Erase ==
    /\ left # << >>
    /\ left' = Front(left)
    /\ UNCHANGED <<right, recent, back>>

CursorLeft ==
    /\ left # << >>
    /\ right' = << left[Len(left)] >> \o right /\ left' = Front(left)
    /\ UNCHANGED <<recent, back>>

CursorRight ==
    /\ right # << >>
    /\ left' = Append(left, Head(right)) /\ right' = Tail(right)
    /\ UNCHANGED <<recent, back>>

\* An older or a newer command, or the empty line in front of all.
LookAt(n) ==
    /\ n \in {back - 1, back + 1} \intersect 0 .. Len(recent)
    /\ back' = n
    /\ left' = IF n = 0 THEN << >> ELSE recent[n]
    /\ right' = << >>
    /\ UNCHANGED recent

Begins(text, name) == Len(text) =< Len(name) /\ text = SubSeq(name, 1, Len(text))

Matches(text) == IF text = << >> THEN {} ELSE {n \in Names : Begins(text, n)}

\* The longest text all of the names begin with.
Shared(names) ==
    LET texts == UNION {{SubSeq(n, 1, k) : k \in 0 .. Len(n)} : n \in names}
        common == {s \in texts : \A n \in names : Begins(s, n)}
    IN  CHOOSE s \in common : \A t \in common : Len(t) =< Len(s)

\* As far as the names agree that begin with the text; a name that is alone is
\* ended by a space.
Completion(text) ==
    IF Matches(text) = {} THEN text
    ELSE IF \E n \in Matches(text) : Matches(text) = {n}
    THEN Append(Shared(Matches(text)), " ")
    ELSE Shared(Matches(text))

Complete ==
    /\ Matches(Text) # {}
    /\ left' = Completion(Text) /\ right' = << >>
    /\ UNCHANGED <<recent, back>>

\* The bytes of the first n of a list of commands.
Bytes(list) ==
    LET first[n \in 0 .. Len(list)] == IF n = 0 THEN 0 ELSE first[n - 1] + Len(list[n]) + 1
    IN  first

\* A list without the newest command that is s; an older one cannot be there.
Without(list, s) ==
    LET found == {n \in 1 .. Len(list) : list[n] = s}
        first == CHOOSE n \in found : \A m \in found : n =< m
    IN  IF found = {} THEN list
        ELSE [i \in 1 .. Len(list) - 1 |-> IF i < first THEN list[i] ELSE list[i + 1]]

\* The newest command in front, as many of the others as still fit.
Remembered(text) ==
    LET list == << text >> \o Without(recent, text)
        fits == {n \in 0 .. Len(list) : Bytes(list)[n] =< MaxBytes}
    IN  IF MaxBytes < Len(text) + 1 THEN recent
        ELSE SubSeq(list, 1, CHOOSE n \in fits : \A m \in fits : m =< n)

\* The completed line is a command, unless it is blank.
Submit ==
    LET text == Completion(Text) IN
    /\ recent' = IF \E i \in DOMAIN text : text[i] # " " THEN Remembered(text) ELSE recent
    /\ left' = << >> /\ right' = << >> /\ back' = 0

LineNext ==
    \/ \E c \in Typed : Type(c)
    \/ Erase \/ CursorLeft \/ CursorRight
    \/ \E n \in 0 .. Len(recent) : LookAt(n)
    \/ Complete
    \/ Submit

LineSpec == LineInit /\ [][LineNext]_lineVars
=============================================================================
