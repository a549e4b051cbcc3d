---------------------------- MODULE SettingsPage ----------------------------
(***************************************************************************)
(* The settings as the web page sees them (http_server/settings.c), on top *)
(* of SettingsStore: GET sends them as JSON, POST parses a JSON into a     *)
(* copy of the active settings and applies that.  A secret is never sent,  *)
(* and an empty one in a request means that it does not change.            *)
(*                                                                         *)
(* There is one setting of every treatment: a number, a string and a       *)
(* secret.  JSON has their members in this order, as the page sends them:  *)
(* Absent, a number, or the text of a string after its opening quote.      *)
(***************************************************************************)
EXTENDS SettingsStore, Integers, Sequences

CONSTANTS
    NumMax,              \* the largest number of the setting's type
    Chars,               \* what strings are made of
    Quote, Backslash,    \* the characters that are escaped
    Slash,               \* one that may be
    BufSize,             \* max_len of a string, with its terminator
    SecretKey,           \* the name of the secret, "wifi_pass"
    Absent, Bad,
    Json                 \* bound: what requests contain

ASSUME CharsAssumption ==
    /\ {Quote, Backslash} \subseteq Chars /\ Quote # Backslash
    /\ BufSize \in Nat \ {0}
\* A string that settings_validate accepts is ended within its field.
ASSUME RestIsRecord ==
    /\ \A s \in Rest : s \in [num : 0 .. NumMax, str : Seq(Chars), secret : Seq(Chars)]
    /\ \A s \in ValidRest : Len(s.str) < BufSize
ASSUME MarksAssumption ==
    /\ Absent \notin Seq(Chars) /\ Bad \notin Seq(Chars)
    /\ \A s \in Rest : s.num \notin {Absent, Bad}

VARIABLES
    page,      \* history: the JSON sent last, NoPage if there is none
    pageOf     \* history: the settings it was made of

pageVars == <<vars, page, pageOf>>

NoPage == [num |-> Absent, str |-> Absent, secret |-> Absent]

PageInit == Init /\ page = NoPage /\ pageOf = Blank

-----------------------------------------------------------------------------
(* Strings and their texts.                                                *)

\* json_append_string, and a browser that sends a string back.
EscapedChar(c) == IF c \in {Quote, Backslash} THEN <<Backslash, c>> ELSE <<c>>

Escaped(s) ==
    LET upTo[n \in 0 .. Len(s)] == IF n = 0 THEN <<>> ELSE upTo[n - 1] \o EscapedChar(s[n])
    IN  upTo[Len(s)]

Text(s) == Append(Escaped(s), Quote)

\* One round of the loop of json_parse_string: what t says from its i-th
\* character on up to the closing quote, where "from" tells it for what is
\* behind.  It fails for a text without an end and an unknown escape.
Read(t, from, i) ==
    IF i > Len(t) THEN Bad
    ELSE IF t[i] = Quote THEN <<>>
    ELSE LET c == IF t[i] = Backslash THEN i + 1 ELSE i
             rest == from[c + 1]
         IN  IF c > Len(t) \/ (c # i /\ t[c] \notin {Quote, Backslash, Slash}) \/ rest = Bad
             THEN Bad
             ELSE <<t[c]>> \o rest

\* json_parse_string: a string that does not fit fails as well.
StringOf(t) ==
    LET from[i \in 1 .. Len(t) + 1] == Read(t, from, i)
        s == from[1]
    IN  IF t = Bad \/ s = Bad \/ Len(s) >= BufSize THEN Bad ELSE s

\* The secret's name in quotes is a part of the text of a string: the whole of
\* it, or what follows an escaped quote.
Names(t) ==
    LET quoted == <<Quote>> \o SecretKey \o <<Quote>>
        in == <<Quote>> \o t
    IN  \E i \in 0 .. Len(in) - Len(quoted) : SubSeq(in, i + 1, i + Len(quoted)) = quoted

\* json_find_value takes the first place where the quoted name stands.  No colon
\* follows it in the value of another setting, so the secret is not found.
Found(json) ==
    [json EXCEPT !.secret = IF json.str \notin {Absent, Bad} /\ Names(json.str) THEN Absent ELSE @]

\* json_parse_uint
NumberOf(n) == IF n = Bad \/ n \notin 0 .. NumMax THEN Bad ELSE n

-----------------------------------------------------------------------------
\* get_settings_json
Sent(s) == [num |-> s.num, str |-> Text(s.str), secret |-> Text(<<>>)]

Get ==
    /\ pc = "idle"
    /\ page' = Sent(global.rest)
    /\ pageOf' = global
    /\ UNCHANGED vars

\* Mutant of SecretOf: an empty secret is taken over.
SecretOfEmpty(json, old) ==
    IF json.secret = Absent THEN old ELSE StringOf(json.secret)

SecretOf(json, old) ==
    IF json.secret = Absent \/ StringOf(json.secret) = <<>> THEN old ELSE StringOf(json.secret)

\* The copy of the settings a request asks for; Bad where it cannot be parsed.
Parsed(json, old) ==
    [num    |-> IF json.num = Absent THEN old.num ELSE NumberOf(json.num),
     str    |-> IF json.str = Absent THEN old.str ELSE StringOf(json.str),
     secret |-> SecretOf(json, old.secret)]

\* set_settings_json: settings are applied if all of the request could be parsed.
Post(json) ==
    LET new == Parsed(Found(json), global.rest)
        s == [ap_state |-> global.ap_state, rest |-> new]
    IN  /\ pc = "idle"
        /\ IF Bad \in {new.num, new.str, new.secret}
           THEN Rejected
           ELSE Apply(s) \/ Reject(s)
        /\ UNCHANGED <<page, pageOf>>

\* A browser that sends back what it got.
PostBack == page # NoPage /\ Post(page)

PageNext ==
    \/ Next /\ UNCHANGED <<page, pageOf>>
    \/ Get
    \/ \E json \in Json : Post(json)
    \/ PostBack

PageSpec == PageInit /\ [][PageNext]_pageVars

-----------------------------------------------------------------------------
PageTypeOK ==
    /\ TypeOK
    /\ pageOf \in Settings \union {Blank}
    /\ (page = NoPage) = (pageOf = Blank)

\* The page that was got can be sent back: unless the settings have been changed
\* in between it is accepted and changes none of them, characters that need an
\* escape and the password the page never saw included (settings.c 173-275).
PageRoundTrip ==
    [][PostBack /\ global = pageOf => global' = global /\ pc' = "compare"]_pageVars
=============================================================================
