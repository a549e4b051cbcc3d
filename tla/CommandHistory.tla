---------------------------- MODULE CommandHistory ----------------------------
(***************************************************************************)
(* The history of entered commands in embedded_cli.h: one byte buffer that *)
(* holds the newest command first, each one ended by a zero byte.  Only    *)
(* the first count strings are items; what follows them is left over from  *)
(* earlier ones.                                                           *)
(***************************************************************************)
EXTENDS Tokens

CONSTANT HistorySize    \* bytes of the buffer

ASSUME HistoryAssumption == HistorySize \in Nat

EmptyHistory == [buf |-> [i \in 1 .. HistorySize |-> Nul], count |-> 0]

\* historyGet; an item that does not exist is used as the empty string.
HistoryGet(h, n) == IF n \in 1 .. h.count THEN Token(h.buf, n) ELSE << >>

\* historyRemove: the bytes behind the item move up.
HistoryRemove(h, str) ==
    LET hits == {n \in 1 .. h.count : Token(h.buf, n) = str}
        n == CHOOSE m \in hits : \A k \in hits : m =< k
        at == NulAt(h.buf, n - 1)
        gap == Len(str) + 1
        moved == [i \in 1 .. HistorySize |->
                     IF i > at /\ i + gap =< HistorySize THEN h.buf[i + gap] ELSE h.buf[i]]
    IN  IF hits = {} THEN h
        ELSE [buf |-> IF n = h.count THEN h.buf ELSE moved, count |-> h.count - 1]

\* How many of the newest items leave room for size more bytes.
Kept(h, size) ==
    CHOOSE n \in 0 .. h.count :
        /\ n = 0 \/ NulAt(h.buf, n) + size =< HistorySize
        /\ \A m \in n + 1 .. h.count : NulAt(h.buf, m) + size > HistorySize

\* Mutant of HistoryPut: a command that was entered before is not looked for.
HistoryPutTwice(h, str) ==
    LET size == Len(str) + 1
        kept == Kept(h, size)
        used == NulAt(h.buf, kept)
    IN  IF HistorySize < size THEN h
        ELSE [buf |-> [i \in 1 .. HistorySize |->
                          IF i < size THEN str[i] ELSE IF i = size THEN Nul
                          ELSE IF i =< size + used THEN h.buf[i - size] ELSE h.buf[i]],
              count |-> kept + 1]

\* historyPut: str becomes the newest item; an equal one and the oldest give way.
HistoryPut(h, str) ==
    LET size == Len(str) + 1
        rest == HistoryRemove(h, str)
        kept == Kept(rest, size)
        used == NulAt(rest.buf, kept)
    IN  IF HistorySize < size THEN h
        ELSE [buf |-> [i \in 1 .. HistorySize |->
                          IF i < size THEN str[i] ELSE IF i = size THEN Nul
                          ELSE IF i =< size + used THEN rest.buf[i - size] ELSE rest.buf[i]],
              count |-> kept + 1]
=============================================================================
