-------------------------------- MODULE Tokens --------------------------------
(***************************************************************************)
(* Strings in one buffer, each ended by a zero byte: how embedded_cli.h    *)
(* splits the arguments of a command and finds the items of its history.   *)
(* Characters are strings of length 1; positions are counted from 1 here.  *)
(***************************************************************************)
EXTENDS Integers, Sequences, FiniteSets, SequencesExt

CONSTANT Nul    \* the zero byte

Space == " "
Quote == "\""
Backslash == "\\"

\* The position of the n-th zero byte, and 0 for n = 0.
NulAt(buf, n) ==
    CHOOSE i \in 0 .. Len(buf) :
        /\ Cardinality({j \in 1 .. i : buf[j] = Nul}) = n
        /\ i > 0 => buf[i] = Nul

\* embeddedCliGetToken: the n-th of the strings in buf.
Token(buf, n) == SubSeq(buf, NulAt(buf, n - 1) + 1, NulAt(buf, n) - 1)

-----------------------------------------------------------------------------
(* embeddedCliTokenizeArgs and the functions on its result.                *)

\* A zero byte is copied once, and not to the beginning.
Copy(acc, c) ==
    [acc EXCEPT !.out = IF c # Nul \/ (@ # << >> /\ Last(@) # Nul) THEN Append(@, c) ELSE @]

\* Mutant of Tokenize1: a quote does not end the token before it.
Tokenize1Joined(acc, c) ==
    CASE acc.escaped                      -> [Copy(acc, c) EXCEPT !.escaped = FALSE]
      [] ~acc.escaped /\ c = Backslash    -> [acc EXCEPT !.escaped = TRUE]
      [] ~acc.escaped /\ c = Quote        -> [acc EXCEPT !.quoted = ~@]
      [] ~acc.escaped /\ c = Space        -> Copy(acc, IF acc.quoted THEN c ELSE Nul)
      [] ~acc.escaped /\ c \notin {Backslash, Quote, Space} -> Copy(acc, c)

\* One character of the arguments.
Tokenize1(acc, c) ==
    CASE acc.escaped                      -> [Copy(acc, c) EXCEPT !.escaped = FALSE]
      [] ~acc.escaped /\ c = Backslash    -> [acc EXCEPT !.escaped = TRUE]
      [] ~acc.escaped /\ c = Quote        -> Copy([acc EXCEPT !.quoted = ~@], Nul)
      [] ~acc.escaped /\ c = Space        -> Copy(acc, IF acc.quoted THEN c ELSE Nul)
      [] ~acc.escaped /\ c \notin {Backslash, Quote, Space} -> Copy(acc, c)

\* The bytes of the arguments up to the two zero bytes that end them.
TokenizeArgs(args) ==
    LET after[n \in 0 .. Len(args)] ==
            IF n = 0 THEN [out |-> << >>, quoted |-> FALSE, escaped |-> FALSE]
            ELSE Tokenize1(after[n - 1], args[n])
    IN  after[Len(args)].out

\* embeddedCliGetTokenCount: a zero byte with another byte behind it starts a token.
TokenCount(out) ==
    IF out = << >> THEN 0 ELSE 1 + Cardinality({i \in 1 .. Len(out) - 1 : out[i] = Nul})

\* The first string in out, which is all that strcmp sees.
FirstToken(out) ==
    SubSeq(out, 1, SelectInSeq(out \o << Nul >>, LAMBDA c : c = Nul) - 1)
=============================================================================
