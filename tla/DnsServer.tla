------------------------------ MODULE DnsServer ------------------------------
(***************************************************************************)
(* The DNS server of the access point (dnsserver.c): it answers every      *)
(* question with the address of the controller.  The answer is written     *)
(* behind the question, into the buffer the query was copied to, over      *)
(* whatever followed there; what lies behind the query is not initialised. *)
(***************************************************************************)
EXTENDS Integers, Sequences

CONSTANTS
    Message,     \* bound: the messages that arrive
    HeaderLen,   \* sizeof(dns_header_t), 12
    LabelMax,    \* 63
    NameMax,     \* 255
    TypeLen,     \* type and class of a question, 4
    AnswerLen,   \* 16
    MsgMax,      \* MAX_DNS_MSG_SIZE, 300
    AnswerByte,  \* a byte of the answer
    Junk         \* a byte of the stack

\* A message: too short for a header, or the fields of its header and the rest.
ASSUME MessageAssumption ==
    Message \subseteq [short : BOOLEAN, qr : {0, 1}, opcode : 0 .. 15,
                       questions : Nat, body : Seq(0 .. 255)]
ASSUME SizeAssumption ==
    /\ {HeaderLen, LabelMax, NameMax, TypeLen, AnswerLen, MsgMax} \subseteq Nat
    /\ HeaderLen + NameMax + TypeLen + AnswerLen =< MsgMax

VARIABLES
    query,   \* the last message
    reply    \* what is handed to lwIP to be sent, without the header; NoReply if nothing is

dnsVars == <<query, reply>>

NoReply == << Junk >>
NoQuery == [short |-> TRUE, qr |-> 0, opcode |-> 0, questions |-> 0, body |-> << >>]

DnsInit == query = NoQuery /\ reply = NoReply

-----------------------------------------------------------------------------
Standard(msg) == ~msg.short /\ msg.qr = 0 /\ msg.opcode = 0 /\ msg.questions >= 1

\* pbuf_copy_partial: what does not fit is cut off.
Copied(msg) ==
    IF Len(msg.body) =< MsgMax - HeaderLen THEN msg.body ELSE SubSeq(msg.body, 1, MsgMax - HeaderLen)

Invalid == -1

\* Mutant of NameLen: a label of the greatest length is refused.
NameLenStrict(body) ==
    LET walk[p \in 0 .. Len(body) + LabelMax] ==
            IF p >= Len(body) THEN p
            ELSE IF body[p + 1] = 0 THEN p + 1
            ELSE IF body[p + 1] >= LabelMax THEN Invalid
            ELSE walk[p + 1 + body[p + 1]]
    IN  walk[0]

\* Where the walk over the labels ends: behind the empty label, or at or behind
\* the end of the query.
NameLen(body) ==
    LET walk[p \in 0 .. Len(body) + LabelMax] ==
            IF p >= Len(body) THEN p
            ELSE IF body[p + 1] = 0 THEN p + 1
            ELSE IF body[p + 1] > LabelMax THEN Invalid
            ELSE walk[p + 1 + body[p + 1]]
    IN  walk[0]

\* Mutant of NameFits: a name may be of any length.
NameFitsAlways(len) == len # Invalid

NameFits(len) == len \in 0 .. NameMax

Answer == [i \in 1 .. AnswerLen |-> AnswerByte]

\* dns_server_process
Reply(msg) ==
    LET body == Copied(msg)
        question == NameLen(body) + TypeLen
    IN  IF Standard(msg) /\ NameFits(NameLen(body))
        THEN [i \in 1 .. question |-> IF i \in DOMAIN body THEN body[i] ELSE Junk] \o Answer
        ELSE NoReply

Receive(msg) == query' = msg /\ reply' = Reply(msg)

DnsNext == \E msg \in Message : Receive(msg)

DnsSpec == DnsInit /\ [][DnsNext]_dnsVars

-----------------------------------------------------------------------------
\* The first len bytes are a name: labels, each with its length in front, none
\* too long, and the empty one at the end.  S has the places of the lengths.
IsName(body, len) ==
    \E S \in SUBSET (1 .. len) :
        /\ {1, len} \subseteq S
        /\ body[len] = 0
        /\ \A i \in S \ {len} :
              /\ body[i] \in 1 .. LabelMax
              /\ i + body[i] + 1 \in S
              /\ \A j \in i + 1 .. i + body[i] : j \notin S

\* The answer never runs over the end of the buffer, wherever the walk over a
\* question that is cut off or too long ends (dnsserver.c 153-201).
ReplyFits == reply # NoReply => HeaderLen + Len(reply) =< MsgMax

\* A standard query with a complete question is answered, with the question as
\* it was asked and nothing of what came behind it; anything else than a standard
\* query is not (dnsserver.c 113-215).
AnswersTheQuestion ==
    /\ reply # NoReply => Standard(query)
    /\ \A len \in 1 .. NameMax :
          /\ Standard(query)
          /\ len + TypeLen =< Len(Copied(query))
          /\ IsName(query.body, len)
          => reply = SubSeq(query.body, 1, len + TypeLen) \o Answer
=============================================================================
