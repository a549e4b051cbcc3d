------------------------------ MODULE Network -------------------------------
(***************************************************************************)
(* The access point and the web server together.  The Wi-Fi driver and     *)
(* lwIP only work inside net_poll, and only while the access point is      *)
(* started: between two calls, and while it is off, every connection and   *)
(* its timer stand still.  A request may ask for a reboot or change        *)
(* ap_state; switching the access point off takes its interface away from  *)
(* lwIP.                                                                   *)
(***************************************************************************)
EXTENDS AccessPoint, HttpServer

CONSTANT SegmentLen   \* bound: lengths of data the client sends at once

ASSUME SegmentAssumption == SegmentLen \subseteq Nat \ {0}

networkVars == <<apVars, httpVars>>

NetworkInit == ApInit /\ HttpInit

-----------------------------------------------------------------------------
(* What happens inside net_poll.                                           *)

\* The client acts: it connects, sends, acknowledges or closes its side.
ClientActs(c) ==
    /\ Polling
    /\ \/ \E k \in Kind : Accept(c, k) /\ UNCHANGED apVars
       \/ \E len \in SegmentLen :
              /\ Recv(c, len)
              /\ Command(IF served'[c] # served[c] THEN state[c].kind ELSE "none")
       \/ Sent(c) /\ UNCHANGED apVars
       \/ RecvFin(c) /\ UNCHANGED apVars

\* lwIP acts by itself: its timers, an error, the end of a closed connection.
PollConn(c) == Polling /\ Poll(c) /\ UNCHANGED apVars

LwipErr(c) == Polling /\ pcb[c] # "none" /\ Drop({c}) /\ UNCHANGED apVars

LwipClosed(c) == Polling /\ Closed(c) /\ UNCHANGED apVars

\* Without its interface lwIP may drop connections at once, or leave them.
SyncAndDrop ==
    /\ Sync
    /\ IF ap_started /\ ~ap_started'
       THEN \E S \in SUBSET Conn : Drop(S)
       ELSE UNCHANGED httpVars

MainLoop ==
    \/ EndPoll /\ UNCHANGED httpVars
    \/ Reboot /\ HttpBooted
    \/ \E pressed \in BOOLEAN : Button(pressed) /\ UNCHANGED httpVars
    \/ ButtonNotPolled /\ UNCHANGED httpVars
    \/ SyncAndDrop
    \/ Cli /\ UNCHANGED httpVars

NetworkNext ==
    \/ MainLoop
    \/ \E c \in Conn : ClientActs(c) \/ PollConn(c) \/ LwipErr(c) \/ LwipClosed(c)

NetworkSpec == NetworkInit /\ [][NetworkNext]_networkVars

\* A call of the timer that does not end in an error of lwIP.
TimerTick(c) == PollConn(c) /\ (Live(c)' \/ state[c].idle_polls = IdlePollsMax)

\* The loop never stops, and lwIP's timers get their turn in net_poll again and
\* again while the access point is on; that they fail is never taken for granted.
NetworkFairSpec ==
    /\ NetworkSpec
    /\ WF_networkVars(MainLoop)
    /\ \A c \in Conn : SF_networkVars(TimerTick(c)) /\ SF_networkVars(LwipClosed(c))

-----------------------------------------------------------------------------
NetworkTypeOK == ApTypeOK /\ HttpTypeOK

\* The button toggles the access point once for every time it is held long
\* enough, however long that is, and a shorter press does nothing
\* (main.c 130-155).
ButtonTogglesOnce ==
    [][pc = "button" /\ pc' = "sync" =>
          (ap_state' # ap_state <=> held' # held /\ held' = ButtonDebounce + 1)]_networkVars

\* A reboot that was requested takes place, unless it is requested over and
\* over again; a connection that breaks or an access point that is switched off
\* does not cancel it (main.c 81-83, 126-128).
RequestsReboot == reboot_ts' # 0 /\ reboot_ts' # reboot_ts

RebootComes ==
    <>[][~RequestsReboot]_networkVars => ((reboot_ts # 0) ~> (reboot_ts = 0))

\* When the clients fall silent, every connection is given back, as long as the
\* access point stays on (http_server.c 295-304).
ConnectionsEnd ==
    /\ <>[]ap_started
    /\ <>[][\A c \in Conn : ~ClientActs(c)]_networkVars
    => <>[](\A c \in Conn : pcb[c] = "none")
=============================================================================
