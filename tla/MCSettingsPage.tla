--------------------------- MODULE MCSettingsPage ---------------------------
(* Strings that need escapes or name the secret, and requests that are not *)
(* accepted: because of a number too large or not valid, an unknown        *)
(* escape, a string that does not fit, does not end, or is empty.          *)
EXTENDS SettingsPage

CONSTANTS Letter, Key

MCSecretKey == <<Key>>

MCChars == {Quote, Backslash, Slash, Letter, Key}

MCRest ==
    [num : {0, 1}, str : {<<>>, <<Quote, Key>>, <<Backslash, Quote>>},
     secret : {<<Letter>>, <<Quote>>}]

MCValidRest == {s \in MCRest : s.num # 0 /\ s.str # <<>>}

MCDefault == [num |-> 1, str |-> <<Quote, Key>>, secret |-> <<Letter>>]

MCTexts ==
    {Absent, Bad, <<Quote>>, <<Backslash, Quote, Key, Quote>>, <<Letter>>,
     <<Backslash, Letter, Quote>>, <<Backslash, Slash, Quote>>,
     <<Backslash, Backslash, Backslash, Quote, Quote>>,
     <<Letter, Letter, Letter, Quote>>}

MCJson ==
    [num : {Absent, 0, 1, 2}, str : MCTexts,
     secret : {Absent, <<Quote>>, <<Backslash, Quote, Quote>>}]
=============================================================================
