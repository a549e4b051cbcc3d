--------------------------- MODULE MCDhcpServer ----------------------------
(***************************************************************************)
(* The two address services of the access point for TLC: more clients than *)
(* addresses and a clock that wraps soon; names that are too long, cut off *)
(* or followed by other records.  They share no state, so names are asked  *)
(* for before anybody asked for an address, and not among the leases.      *)
(***************************************************************************)
EXTENDS DhcpServer, DnsServer, TLC

CONSTANT BodyMax    \* longest body of a message

Clients == Permutations(Mac)

\* Headers that are not a standard query's come with a body that would be fine.
Bodies == UNION {[1 .. n -> 0 .. LabelMax + 1] : n \in 0 .. BodyMax}
Headers == [short : BOOLEAN, qr : {0, 1}, opcode : {0, 1}, questions : {0, 1, 2}]
MCMessage ==
    {[short |-> FALSE, qr |-> 0, opcode |-> 0, questions |-> 1, body |-> b] : b \in Bodies}
    \union
    {[short |-> h.short, qr |-> h.qr, opcode |-> h.opcode, questions |-> h.questions,
      body |-> <<1, 1, 0, 0>>] : h \in Headers}

ServersInit == DhcpInit /\ DnsInit

\* Nothing of a query is kept once it has been answered.
ServersNext ==
    \/ query = NoQuery /\ DhcpNext /\ UNCHANGED dnsVars
    \/ query = NoQuery /\ DhcpInit /\ DnsNext /\ UNCHANGED dhcpVars
    \/ query # NoQuery /\ query' = NoQuery /\ reply' = NoReply /\ UNCHANGED dhcpVars

ServersSpec == ServersInit /\ [][ServersNext]_<<dhcpVars, dnsVars>>
=============================================================================
