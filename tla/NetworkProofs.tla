--------------------------- MODULE NetworkProofs ----------------------------
(***************************************************************************)
(* The connections of the web server, proved for any number of them and    *)
(* any lengths.  A connection is either released, or open with a state     *)
(* that lwIP calls back with; that its counters are still at zero before   *)
(* the request is processed is what makes the response begin at its start. *)
(***************************************************************************)
EXTENDS Network, TLAPS

PcbState == {"none", "open", "closing"}

ConStates ==
  [kind : Kind, data_len : 0 .. RequestMax, header_complete : BOOLEAN,
   processed : BOOLEAN, total : Nat, queued_len : Nat, acked_len : Nat,
   idle_polls : 0 .. IdlePollsMax]

\* A state between two callbacks.
InOrder(s) ==
  /\ s \in ConStates
  /\ s.acked_len =< s.queued_len /\ s.queued_len =< s.total
  /\ s.queued_len - s.acked_len =< SendBuffer
  /\ IF s.processed THEN s.acked_len < s.total ELSE s.total = 0

Released(p, h, s, n) == s = Freed /\ h = FALSE /\ p \in PcbState /\ n \in {0, 1}

InUse(p, h, s, n) ==
  InOrder(s) /\ h = TRUE /\ p = "open" /\ n = IF s.processed THEN 1 ELSE 0

Fine(p, h, s, n) == Released(p, h, s, n) \/ InUse(p, h, s, n)

Shape ==
  /\ pcb \in [Conn -> PcbState]
  /\ hooked \in [Conn -> BOOLEAN]
  /\ state \in [Conn -> ConStates \union {Freed}]
  /\ served \in [Conn -> {0, 1}]

Inv == Shape /\ \A c \in Conn : Fine(pcb[c], hooked[c], state[c], served[c])

-----------------------------------------------------------------------------
LEMMA FreedIsNone == Freed \notin ConStates
<1>1. \A s \in ConStates : "data_len" \in DOMAIN s
  BY DEF ConStates
<1>2. "data_len" \notin DOMAIN Freed
  BY DEF Freed
<1> QED BY <1>1, <1>2

\* One callback changes one connection.
LEMMA OneChanges ==
  ASSUME Inv, NEW c \in Conn, NEW p, NEW h, NEW s, NEW n, Fine(p, h, s, n),
         pcb' = [pcb EXCEPT ![c] = p], hooked' = [hooked EXCEPT ![c] = h],
         state' = [state EXCEPT ![c] = s], served' = [served EXCEPT ![c] = n]
  PROVE  Inv'
<1>1. p \in PcbState /\ h \in BOOLEAN /\ s \in ConStates \union {Freed} /\ n \in {0, 1}
  BY DEF Fine, Released, InUse, InOrder, PcbState
<1>2. Shape'
  BY <1>1 DEF Inv, Shape
<1>3. ASSUME NEW d \in Conn
      PROVE  Fine(pcb'[d], hooked'[d], state'[d], served'[d])
  <2>1. CASE d = c
    BY <2>1 DEF Inv, Shape
  <2>2. CASE d # c
    <3>1. pcb'[d] = pcb[d] /\ hooked'[d] = hooked[d] /\ state'[d] = state[d] /\ served'[d] = served[d]
      BY <2>2 DEF Inv, Shape
    <3> QED BY <3>1 DEF Inv
  <2> QED BY <2>1, <2>2
<1> QED BY <1>2, <1>3 DEF Inv

LEMMA CalledInUse ==
  ASSUME Inv, NEW c \in Conn, Live(c)
  PROVE  InUse(pcb[c], hooked[c], state[c], served[c])
  BY DEF Inv, Fine, Released, Live

LEMMA CloseInv ==
  ASSUME Inv, NEW c \in Conn, Close(c)
  PROVE  Inv'
<1>1. PICK to \in {"closing", "none"} : pcb' = [pcb EXCEPT ![c] = to]
  BY DEF Close
<1>2. served' = [served EXCEPT ![c] = served[c]]
  BY DEF Close, Inv, Shape
<1>3. Fine(to, FALSE, Freed, served[c])
  BY DEF Fine, Released, PcbState, Inv, Shape
<1> QED BY <1>1, <1>2, <1>3, OneChanges DEF Close

LEMMA GoOnInv ==
  ASSUME Inv, NEW c \in Conn, Live(c), NEW s, InOrder(s),
         s.processed = state[c].processed, GoOn(c, s)
  PROVE  Inv'
<1>1. /\ pcb' = [pcb EXCEPT ![c] = pcb[c]] /\ hooked' = [hooked EXCEPT ![c] = hooked[c]]
      /\ served' = [served EXCEPT ![c] = served[c]] /\ state' = [state EXCEPT ![c] = s]
  BY DEF GoOn, Inv, Shape
<1>2. InUse(pcb[c], hooked[c], state[c], served[c])
  BY CalledInUse
<1>3. InUse(pcb[c], hooked[c], s, served[c])
  BY <1>2 DEF InUse
<1> QED BY <1>1, <1>3, OneChanges DEF Fine

-----------------------------------------------------------------------------
\* send_more queues no more than is left of the response.
LEMMA SendMoreInv ==
  ASSUME Inv, NEW c \in Conn, Live(c), NEW s, InOrder(s),
         s.processed = state[c].processed, SendMore(c, s)
  PROVE  Inv'
<1>1. CASE Close(c)
  BY <1>1, CloseInv
<1>2. ASSUME NEW n \in 0 .. s.total - s.queued_len,
             s.queued_len + n - s.acked_len =< SendBuffer,
             GoOn(c, [s EXCEPT !.queued_len = @ + n])
      PROVE  Inv'
  <2> DEFINE t == [s EXCEPT !.queued_len = @ + n]
  <2>1. s \in ConStates /\ s.queued_len \in Nat /\ s.total \in Nat /\ s.acked_len \in Nat
    BY DEF InOrder, ConStates
  <2>2. /\ t \in ConStates /\ t.processed = s.processed /\ t.total = s.total
        /\ t.acked_len = s.acked_len /\ t.queued_len = s.queued_len + n
    BY <2>1, <1>2 DEF ConStates
  <2> HIDE DEF t
  <2>3. InOrder(t)
    BY <2>1, <2>2, <1>2, HttpSizeAssumption DEF InOrder
  <2>4. GoOn(c, t)
    BY <1>2 DEF t
  <2> QED BY <2>2, <2>3, <2>4, GoOnInv
<1> QED BY <1>1, <1>2 DEF SendMore

\* A callback that only resets or counts the idle polls.
LEMMA IdleInOrder ==
  ASSUME NEW s, InOrder(s), NEW p \in 0 .. IdlePollsMax
  PROVE  /\ InOrder([s EXCEPT !.idle_polls = p])
         /\ [s EXCEPT !.idle_polls = p].processed = s.processed
  BY DEF InOrder, ConStates

LEMMA SentInv ==
  ASSUME Inv, NEW c \in Conn, Sent(c)
  PROVE  Inv'
<1>1. InUse(pcb[c], hooked[c], state[c], served[c])
  BY CalledInUse DEF Sent, Called
<1>2. PICK len \in 1 .. state[c].queued_len - state[c].acked_len :
        LET s == [state[c] EXCEPT !.acked_len = @ + len, !.idle_polls = 0]
        IN  IF s.acked_len >= s.total THEN Close(c) ELSE SendMore(c, s)
  BY DEF Sent
<1> DEFINE s == [state[c] EXCEPT !.acked_len = @ + len, !.idle_polls = 0]
<1>3. CASE s.acked_len >= s.total
  BY <1>2, <1>3, CloseInv
<1>4. CASE ~(s.acked_len >= s.total)
  <2>1. InOrder(state[c]) /\ state[c] \in ConStates
    BY <1>1 DEF InUse, InOrder
  <2>2. /\ s \in ConStates /\ s.acked_len = state[c].acked_len + len
        /\ s.queued_len = state[c].queued_len /\ s.total = state[c].total
        /\ s.processed = state[c].processed
    <3>0. state[c].acked_len + len \in Nat /\ 0 \in 0 .. IdlePollsMax
      BY <2>1, HttpSizeAssumption DEF ConStates
    <3>1. s \in ConStates
      BY <2>1, <3>0 DEF ConStates
    <3>2. s.acked_len = state[c].acked_len + len
      BY <2>1 DEF ConStates
    <3>3. s.queued_len = state[c].queued_len /\ s.total = state[c].total
      BY <2>1 DEF ConStates
    <3>4. s.processed = state[c].processed
      BY <2>1 DEF ConStates
    <3> QED BY <3>1, <3>2, <3>3, <3>4
  <2>3. SendMore(c, s)
    BY <1>2, <1>4
  <2>4. /\ state[c].acked_len \in Nat /\ state[c].queued_len \in Nat
        /\ state[c].total \in Nat
        /\ len \in 1 .. state[c].queued_len - state[c].acked_len
    BY <2>1, <1>2 DEF ConStates
  <2> HIDE DEF s
  <2>6. InOrder(s)
    BY <2>1, <2>2, <2>4, <1>4, HttpSizeAssumption DEF InOrder
  <2>5. Live(c)
    BY DEF Sent, Called
  <2> QED BY <2>2, <2>3, <2>5, <2>6, SendMoreInv
<1> QED BY <1>3, <1>4

LEMMA AcceptInv ==
  ASSUME Inv, NEW c \in Conn, NEW k \in Kind, Accept(c, k)
  PROVE  Inv'
<1>1. ConState(k) \in ConStates
  BY HttpSizeAssumption DEF ConState, ConStates
<1>2. InOrder(ConState(k)) /\ ConState(k).processed = FALSE
  BY <1>1, HttpSizeAssumption DEF InOrder, ConState
<1>3. Fine("open", TRUE, ConState(k), 0)
  BY <1>2 DEF Fine, InUse
<1> QED BY <1>3, OneChanges DEF Accept

\* The request is handled for the first time, and its response begins.
LEMMA HandleInv ==
  ASSUME Inv, NEW c \in Conn, Live(c), ~state[c].processed,
         NEW s, InOrder(s), ~s.processed, Handle(c, s)
  PROVE  Inv'
<1>1. InUse(pcb[c], hooked[c], state[c], served[c])
  BY CalledInUse
<1>2. served[c] = 0
  BY <1>1 DEF InUse
<1>3. served' = [served EXCEPT ![c] = 1]
  <2>1. served' = [served EXCEPT ![c] = served[c] + 1]
    BY DEF Handle
  <2> QED BY <1>2, <2>1
<1>4. PICK to \in {"open", "closing", "none"} :
        /\ ResponseLen[s.kind] = 0 => to # "open"
        /\ pcb' = [pcb EXCEPT ![c] = to]
        /\ hooked' = [hooked EXCEPT ![c] = (to = "open")]
        /\ IF to = "open"
           THEN \E n \in 0 .. ResponseLen[s.kind] :
                    /\ n =< SendBuffer
                    /\ state' = [state EXCEPT ![c] =
                           [s EXCEPT !.processed = TRUE, !.total = ResponseLen[s.kind],
                                     !.queued_len = n]]
           ELSE state' = [state EXCEPT ![c] = Freed]
  BY DEF Handle
<1>5. CASE to # "open"
  <2>1. Fine(to, FALSE, Freed, 1)
    BY <1>4, <1>5 DEF Fine, Released, PcbState
  <2> QED BY <1>3, <1>4, <1>5, <2>1, OneChanges
<1>6. CASE to = "open"
  <2>1. PICK n \in 0 .. ResponseLen[s.kind] :
          /\ n =< SendBuffer
          /\ state' = [state EXCEPT ![c] =
                 [s EXCEPT !.processed = TRUE, !.total = ResponseLen[s.kind], !.queued_len = n]]
    BY <1>4, <1>6
  <2> DEFINE t == [s EXCEPT !.processed = TRUE, !.total = ResponseLen[s.kind], !.queued_len = n]
  <2>2. s \in ConStates /\ s.acked_len = 0
    BY DEF InOrder, ConStates
  <2>3. ResponseLen[s.kind] \in Nat \ {0}
    BY <1>4, <1>6, <2>2, KindAssumption DEF ConStates
  <2>4. /\ t \in ConStates /\ t.processed = TRUE /\ t.total = ResponseLen[s.kind]
        /\ t.queued_len = n /\ t.acked_len = 0
    <3>0. n \in Nat
      BY <2>3
    <3>1. t \in ConStates
      BY <2>2, <2>3, <3>0 DEF ConStates
    <3>2. t.processed = TRUE
      BY <2>2 DEF ConStates
    <3>3. t.total = ResponseLen[s.kind]
      BY <2>2 DEF ConStates
    <3>4. t.queued_len = n
      BY <2>2 DEF ConStates
    <3>5. t.acked_len = 0
      BY <2>2 DEF ConStates
    <3> QED BY <3>1, <3>2, <3>3, <3>4, <3>5
  <2>5. state' = [state EXCEPT ![c] = t]
    BY <2>1
  <2> HIDE DEF t
  <2>6. InOrder(t)
    <3>1. n \in 0 .. ResponseLen[s.kind] /\ n =< SendBuffer
      BY <2>1
    <3> QED BY <2>3, <2>4, <3>1, HttpSizeAssumption DEF InOrder
  <2>7. Fine("open", TRUE, t, 1)
    BY <2>4, <2>6 DEF Fine, InUse
  <2> QED BY <1>3, <1>4, <1>6, <2>5, <2>7, OneChanges
<1> QED BY <1>5, <1>6

LEMMA CollectInv ==
  ASSUME Inv, NEW c \in Conn, NEW len \in Nat, Live(c), ~state[c].processed, Collect(c, len)
  PROVE  Inv'
<1> DEFINE old == state[c]
           s == [old EXCEPT !.data_len = @ + len,
                            !.header_complete = @ \/ old.data_len + len >= HeaderLen[old.kind],
                            !.idle_polls = 0]
           tooLong == \/ s.data_len > RequestMax
                      \/ s.header_complete /\ ~old.header_complete /\ TooLarge(s.kind)
<1>1. InOrder(old) /\ old \in ConStates
  <2>1. InUse(pcb[c], hooked[c], state[c], served[c])
    BY CalledInUse
  <2> QED BY <2>1 DEF InUse, InOrder
<1>2. CASE tooLong
  BY <1>2, CloseInv DEF Collect
<1>3. CASE ~tooLong
  <2>1. Handle(c, s) \/ GoOn(c, s)
    BY <1>3 DEF Collect
  <2>2. s.data_len = old.data_len + len
    BY <1>1 DEF ConStates
  <2>3. old.data_len + len \in 0 .. RequestMax /\ 0 \in 0 .. IdlePollsMax
    BY <1>1, <1>3, <2>2, HttpSizeAssumption DEF ConStates
  <2>4. (old.header_complete \/ old.data_len + len >= HeaderLen[old.kind]) \in BOOLEAN
    BY <1>1 DEF ConStates
  <2>5. s \in ConStates
    BY <1>1, <2>3, <2>4 DEF ConStates
  <2>6. s.processed = old.processed /\ s.total = old.total
    BY <1>1 DEF ConStates
  <2>7. s.queued_len = old.queued_len /\ s.acked_len = old.acked_len
    BY <1>1 DEF ConStates
  <2> HIDE DEF s
  <2>8. InOrder(s)
    BY <1>1, <2>5, <2>6, <2>7 DEF InOrder
  <2>9. CASE Handle(c, s)
    BY <2>6, <2>8, <2>9, HandleInv
  <2>10. CASE GoOn(c, s)
    BY <2>6, <2>8, <2>10, GoOnInv
  <2> QED BY <2>1, <2>9, <2>10
<1> QED BY <1>2, <1>3

LEMMA RecvInv ==
  ASSUME Inv, NEW c \in Conn, NEW len \in Nat, Recv(c, len)
  PROVE  Inv'
<1>1. Live(c) /\ InOrder(state[c])
  BY CalledInUse DEF Recv, Called, InUse
<1>2. CASE state[c].processed
  <2>1. 0 \in 0 .. IdlePollsMax
    BY HttpSizeAssumption
  <2>2. GoOn(c, [state[c] EXCEPT !.idle_polls = 0])
    BY <1>2 DEF Recv
  <2> QED BY <1>1, <2>1, <2>2, IdleInOrder, GoOnInv
<1>3. CASE ~state[c].processed
  BY <1>1, <1>3, CollectInv DEF Recv
<1> QED BY <1>2, <1>3

LEMMA PollInv ==
  ASSUME Inv, NEW c \in Conn, Poll(c)
  PROVE  Inv'
<1> DEFINE s == [state[c] EXCEPT !.idle_polls = @ + 1]
<1>1. Live(c) /\ InOrder(state[c]) /\ state[c] \in ConStates
  BY CalledInUse DEF Poll, Called, InUse, InOrder
<1>2. s.idle_polls = state[c].idle_polls + 1 /\ s.processed = state[c].processed
  BY <1>1 DEF ConStates
<1>3. CASE s.idle_polls > IdlePollsMax
  BY <1>3, CloseInv DEF Poll
<1>4. CASE ~(s.idle_polls > IdlePollsMax)
  <2>1. state[c].idle_polls + 1 \in 0 .. IdlePollsMax
    BY <1>1, <1>2, <1>4, HttpSizeAssumption DEF ConStates
  <2>2. InOrder(s)
    BY <1>1, <2>1, IdleInOrder
  <2>3. SendMore(c, s) \/ GoOn(c, s)
    BY <1>4 DEF Poll
  <2> HIDE DEF s
  <2> QED BY <1>1, <1>2, <2>2, <2>3, SendMoreInv, GoOnInv
<1> QED BY <1>3, <1>4

LEMMA DropInv ==
  ASSUME Inv, NEW S \in SUBSET Conn, Drop(S)
  PROVE  Inv'
<1>1. ASSUME NEW c \in Conn
      PROVE  /\ Fine(pcb'[c], hooked'[c], state'[c], served'[c])
             /\ pcb'[c] \in PcbState /\ hooked'[c] \in BOOLEAN
             /\ state'[c] \in ConStates \union {Freed}
  <2>1. /\ pcb'[c] = IF c \in S THEN "none" ELSE pcb[c]
        /\ state'[c] = IF c \in S /\ hooked[c] THEN Freed ELSE state[c]
        /\ hooked'[c] = (hooked[c] /\ c \notin S) /\ served'[c] = served[c]
    BY DEF Drop
  <2>2. /\ Fine(pcb[c], hooked[c], state[c], served[c]) /\ served[c] \in {0, 1}
        /\ hooked[c] \in BOOLEAN /\ pcb[c] \in PcbState
        /\ state[c] \in ConStates \union {Freed}
    BY DEF Inv, Shape
  <2>3. CASE c \in S
    BY <2>1, <2>2, <2>3 DEF Fine, Released, InUse, PcbState
  <2>4. CASE c \notin S
    BY <2>1, <2>2, <2>4
  <2> QED BY <2>3, <2>4
<1>2. Shape'
  <2>1. pcb' \in [Conn -> PcbState] /\ state' \in [Conn -> ConStates \union {Freed}]
    BY <1>1 DEF Drop
  <2>2. hooked' \in [Conn -> BOOLEAN] /\ served' \in [Conn -> {0, 1}]
    BY DEF Drop, Inv, Shape
  <2> QED BY <2>1, <2>2 DEF Shape
<1> QED BY <1>1, <1>2 DEF Inv

LEMMA ClosedInv ==
  ASSUME Inv, NEW c \in Conn, Closed(c)
  PROVE  Inv'
<1>1. /\ pcb' = [pcb EXCEPT ![c] = "none"] /\ hooked' = [hooked EXCEPT ![c] = hooked[c]]
      /\ served' = [served EXCEPT ![c] = served[c]] /\ state' = [state EXCEPT ![c] = state[c]]
  BY DEF Closed, Inv, Shape
<1>2. Fine("none", hooked[c], state[c], served[c])
  BY DEF Closed, Inv, Fine, InUse, Released, PcbState
<1> QED BY <1>1, <1>2, OneChanges

LEMMA FreshInv ==
  /\ HttpInit => Inv
  /\ HttpBooted => Inv'
BY DEF HttpInit, HttpBooted, Inv, Shape, Fine, Released, PcbState

LEMMA NextInv ==
  ASSUME Inv, [NetworkNext]_networkVars
  PROVE  Inv'
<1>1. CASE UNCHANGED httpVars
  BY <1>1 DEF httpVars, Inv, Shape
<1>2. CASE MainLoop
  <2>1. CASE Reboot /\ HttpBooted
    BY <2>1, FreshInv
  <2>2. CASE SyncAndDrop
    BY <2>2, <1>1, DropInv DEF SyncAndDrop
  <2> QED BY <1>1, <1>2, <2>1, <2>2 DEF MainLoop
<1>3. ASSUME NEW c \in Conn, ClientActs(c)
      PROVE  Inv'
  <2>1. ASSUME NEW len \in SegmentLen, Recv(c, len)
        PROVE  Inv'
    BY <2>1, SegmentAssumption, RecvInv
  <2>2. CASE RecvFin(c)
    BY <2>2, CloseInv DEF RecvFin
  <2> QED BY <1>3, <2>1, <2>2, AcceptInv, SentInv DEF ClientActs
<1>4. ASSUME NEW c \in Conn, PollConn(c) \/ LwipErr(c) \/ LwipClosed(c)
      PROVE  Inv'
  <2>1. {c} \in SUBSET Conn
    OBVIOUS
  <2> QED BY <1>4, <2>1, PollInv, DropInv, ClosedInv DEF PollConn, LwipErr, LwipClosed
<1> QED BY <1>1, <1>2, <1>3, <1>4 DEF NetworkNext, networkVars

THEOREM InvHolds == NetworkSpec => []Inv
<1>1. NetworkInit => Inv
  BY FreshInv DEF NetworkInit
<1> QED BY <1>1, NextInv, PTL DEF NetworkSpec

\* No callback meets the state of a connection that has been released, and none
\* is left behind, for any number of connections (http_server.c).
THEOREM StatesReleased == NetworkSpec => []StateMatchesPcb
<1>1. Inv => StateMatchesPcb
  BY FreedIsNone DEF Inv, Fine, Released, InUse, InOrder, StateMatchesPcb, Live
<1> QED BY <1>1, InvHolds, PTL

\* A request is handled once, and a connection whose response has been
\* acknowledged is not left open (http_server.c).
THEOREM RequestsServedOnce == NetworkSpec => []ServedOnce
<1>1. Inv => ServedOnce
  <2> SUFFICES ASSUME Inv, NEW c \in Conn
               PROVE  /\ served[c] =< 1
                      /\ Live(c) => (state[c].processed <=> served[c] = 1)
                      /\ Live(c) /\ state[c].processed => state[c].acked_len < state[c].total
    BY DEF ServedOnce
  <2>1. served[c] \in {0, 1}
    BY DEF Inv, Shape
  <2>2. ASSUME Live(c)
        PROVE  InUse(pcb[c], hooked[c], state[c], served[c])
    BY <2>2, CalledInUse
  <2>3. Live(c) => state[c].processed \in BOOLEAN
    BY <2>2 DEF InUse, InOrder, ConStates
  <2>4. Live(c) => served[c] = IF state[c].processed THEN 1 ELSE 0
    BY <2>2 DEF InUse
  <2>5. Live(c) /\ state[c].processed => state[c].acked_len < state[c].total
    BY <2>2 DEF InUse, InOrder
  <2>6. served[c] =< 1
    BY <2>1
  <2>7. Live(c) => (state[c].processed <=> served[c] = 1)
    BY <2>3, <2>4
  <2> QED BY <2>5, <2>6, <2>7
<1> QED BY <1>1, InvHolds, PTL

-----------------------------------------------------------------------------
(* The main loop's own variables keep their types by themselves.           *)

Switches ==
  /\ button_state \in BOOLEAN
  /\ ap_state \in BOOLEAN /\ saved \in BOOLEAN
  /\ ap_started \in BOOLEAN /\ net_ready \in BOOLEAN

Numbers ==
  /\ pc \in {"poll", "button", "sync", "cli"}
  /\ ts \in Nat \ {0}
  /\ button_prev_ts \in 0 .. ts
  /\ button_debounce \in 0 .. ButtonDebounce
  /\ held \in Nat /\ reboot_ts \in Nat

LEMMA ApParts == ApTypeOK <=> Switches /\ Numbers
  BY Zenon DEF ApTypeOK, Switches, Numbers

LEMMA ApPartsNext == ApTypeOK' <=> Switches' /\ Numbers'
  BY Zenon DEF ApTypeOK, Switches, Numbers

LEMMA ApInitType == ApInit => ApTypeOK
<1>1. ApInit => Switches
  BY Zenon DEF ApInit, Switches
<1>2. ApInit => Numbers
  BY ButtonAssumption DEF ApInit, Numbers
<1> QED BY <1>1, <1>2, ApParts

\* What net_poll may change of the main loop's variables.
LEMMA CommandType ==
  ASSUME ApTypeOK, NEW what, Command(what)
  PROVE  ApTypeOK'
<1>1. Switches /\ Numbers
  BY ApParts
<1>2. Switches'
  <2>1. ap_state' \in BOOLEAN /\ saved' \in BOOLEAN
    <3>1. CASE UNCHANGED stateVars
      BY <1>1, <3>1 DEF stateVars, Switches
    <3>2. ASSUME ap_state' \in BOOLEAN, NEW ok \in BOOLEAN, Written(ok)
          PROVE  ap_state' \in BOOLEAN /\ saved' \in BOOLEAN
      BY <1>1, <3>2 DEF Written, Switches
    <3>3. CASE Save
      BY <1>1, <3>2, <3>3 DEF Save, Switches
    <3> QED BY <3>1, <3>2, <3>3 DEF Command
  <2> QED BY <1>1, <2>1 DEF Command, Switches, buttonVars, netVars
<1>3. Numbers'
  <2>1. reboot_ts' \in Nat
    BY <1>1, DelayAssumption DEF Command, Save, RebootRequest, Numbers
  <2> QED BY <1>1, <2>1 DEF Command, Numbers, buttonVars
<1> QED BY <1>2, <1>3, ApPartsNext

LEMMA PressedType ==
  ASSUME Switches, Numbers, Pressed
  PROVE  /\ button_debounce' \in 0 .. ButtonDebounce
         /\ button_state' \in BOOLEAN /\ ap_state' \in BOOLEAN /\ saved' \in BOOLEAN
<1>1. CASE button_debounce < ButtonDebounce
  BY <1>1, ButtonAssumption DEF Pressed, Switches, Numbers, stateVars
<1>2. CASE ~(button_debounce < ButtonDebounce) /\ button_state
  BY <1>2 DEF Pressed, Switches, Numbers, stateVars
<1>3. CASE ~(button_debounce < ButtonDebounce) /\ ~button_state
  <2>1. button_state' = TRUE /\ button_debounce' = 0 /\ ap_state' = ~ap_state
    BY <1>3 DEF Pressed
  <2>2. PICK ok \in BOOLEAN : Written(ok)
    BY <1>3 DEF Pressed
  <2>3. ap_state' \in BOOLEAN
    BY <2>1 DEF Switches
  <2>4. saved' \in BOOLEAN
    BY <2>2, <2>3 DEF Written, Switches
  <2> QED BY <2>1, <2>3, <2>4, ButtonAssumption
<1> QED BY <1>1, <1>2, <1>3

LEMMA MainLoopType ==
  ASSUME ApTypeOK, MainLoop
  PROVE  ApTypeOK'
<1>0. Switches /\ Numbers
  BY ApParts
<1>1. CASE EndPoll
  <2>1. Switches'
    BY <1>0, <1>1 DEF EndPoll, Switches, stateVars, buttonVars, netVars
  <2>2. Numbers'
    BY <1>0, <1>1, IterationAssumption DEF EndPoll, Numbers, buttonVars
  <2> QED BY <2>1, <2>2, ApPartsNext
<1>2. CASE Reboot
  <2>1. Switches'
    BY <1>0, <1>2, Zenon DEF Reboot, Booted, Switches
  <2>2. Numbers'
    BY <1>0, <1>2, ButtonAssumption DEF Reboot, Booted, Numbers
  <2> QED BY <2>1, <2>2, ApPartsNext
<1>3. ASSUME NEW pressed \in BOOLEAN, Button(pressed)
      PROVE  ApTypeOK'
  <2>1. /\ button_debounce' \in 0 .. ButtonDebounce /\ held' \in Nat
        /\ button_state' \in BOOLEAN /\ ap_state' \in BOOLEAN /\ saved' \in BOOLEAN
    <3>1. CASE pressed
      BY <1>0, <1>3, <3>1, PressedType DEF Button, Numbers
    <3>2. CASE ~pressed
      <4>1. button_debounce' = 0 /\ button_state' = FALSE /\ held' = 0 /\ UNCHANGED stateVars
        BY <1>3, <3>2 DEF Button
      <4>2. button_state' \in BOOLEAN /\ ap_state' \in BOOLEAN /\ saved' \in BOOLEAN
        BY <1>0, <4>1 DEF Switches, stateVars
      <4> QED BY <4>1, <4>2, ButtonAssumption
    <3> QED BY <3>1, <3>2
  <2>2. Switches'
    BY <1>0, <1>3, <2>1 DEF Button, Switches, netVars
  <2>3. Numbers'
    BY <1>0, <1>3, <2>1 DEF Button, Numbers
  <2> QED BY <2>2, <2>3, ApPartsNext
<1>4. CASE ButtonNotPolled
  BY <1>0, <1>4, ApPartsNext DEF ButtonNotPolled, Switches, Numbers, stateVars, buttonVars, netVars
<1>5. CASE Sync
  <2>1. Switches'
    BY <1>0, <1>5 DEF Sync, Switches, stateVars, buttonVars
  <2>2. Numbers'
    BY <1>0, <1>5 DEF Sync, Numbers, buttonVars
  <2> QED BY <2>1, <2>2, ApPartsNext
<1>6. CASE Cli
  <2>1. ap_state' \in BOOLEAN /\ saved' \in BOOLEAN
    <3>1. ASSUME ap_state' \in BOOLEAN, NEW ok \in BOOLEAN, Written(ok)
          PROVE  saved' \in BOOLEAN
      BY <1>0, <3>1 DEF Written, Switches
    <3>2. CASE \E on \in BOOLEAN : SetWifiState(on)
      BY <3>1, <3>2 DEF SetWifiState
    <3>3. CASE SetDefault
      BY <3>1, <3>3 DEF SetDefault
    <3>4. CASE UNCHANGED <<stateVars, reboot_ts>>
      BY <1>0, <3>4 DEF stateVars, Switches
    <3>5. CASE Save
      BY <1>0, <3>1, <3>5 DEF Save, Switches
    <3> QED BY <1>6, <3>2, <3>3, <3>4, <3>5 DEF Cli
  <2>2. reboot_ts' \in Nat
    BY <1>0, <1>6, DelayAssumption DEF Cli, Save, SetWifiState, SetDefault, RebootRequest, Numbers
  <2>3. Switches'
    BY <1>0, <1>6, <2>1 DEF Cli, Switches, buttonVars, netVars
  <2>4. Numbers'
    BY <1>0, <1>6, <2>2 DEF Cli, Numbers, buttonVars
  <2> QED BY <2>3, <2>4, ApPartsNext
<1> QED BY <1>1, <1>2, <1>3, <1>4, <1>5, <1>6 DEF MainLoop, SyncAndDrop

LEMMA ApNextType ==
  ASSUME ApTypeOK, [NetworkNext]_networkVars
  PROVE  ApTypeOK'
<1>1. CASE UNCHANGED apVars
  BY <1>1 DEF apVars, ApTypeOK, stateVars, buttonVars, netVars
<1>2. CASE MainLoop
  BY <1>2, MainLoopType
<1>3. ASSUME NEW c \in Conn, ClientActs(c)
      PROVE  ApTypeOK'
  BY <1>1, <1>3, CommandType DEF ClientActs
<1>4. ASSUME NEW c \in Conn, PollConn(c) \/ LwipErr(c) \/ LwipClosed(c)
      PROVE  ApTypeOK'
  BY <1>1, <1>4 DEF PollConn, LwipErr, LwipClosed
<1> QED BY <1>1, <1>2, <1>3, <1>4 DEF NetworkNext, networkVars

\* A request never outgrows its buffer, a response never the send buffer, and
\* every variable of the main loop and the web server keeps its type.
THEOREM NetworkTypes == NetworkSpec => []NetworkTypeOK
<1>1. NetworkInit => ApTypeOK
  BY ApInitType DEF NetworkInit
<1>2. Inv => HttpTypeOK
  <2> SUFFICES ASSUME Inv PROVE HttpTypeOK
    OBVIOUS
  <2>1. ASSUME NEW c \in Conn, Live(c)
        PROVE  InOrder(state[c])
    BY <2>1, CalledInUse DEF InUse
  <2>2. pcb \in [Conn -> PcbState] /\ hooked \in [Conn -> BOOLEAN] /\ served \in [Conn -> Nat]
    BY DEF Inv, Shape
  <2> QED BY <2>1, <2>2 DEF HttpTypeOK, InOrder, ConStates, PcbState
<1> QED BY <1>1, <1>2, ApNextType, InvHolds, PTL DEF NetworkSpec, NetworkTypeOK

-----------------------------------------------------------------------------
\* Until it toggles, the debounce counter counts how long the button has been
\* held; after that the button has been held too long to toggle again.
ButtonCounts ==
    IF button_state THEN held > ButtonDebounce
    ELSE button_debounce = held

LEMMA ButtonInv ==
  ASSUME ApTypeOK, ButtonCounts, [NetworkNext]_networkVars
  PROVE  ButtonCounts'
<1>0. button_debounce \in 0 .. ButtonDebounce /\ held \in Nat /\ ButtonDebounce \in Nat
  BY ButtonAssumption, ApParts DEF Numbers
<1>1. CASE UNCHANGED buttonVars
  BY <1>1 DEF buttonVars, ButtonCounts
<1>2. CASE Reboot
  BY <1>2 DEF Reboot, Booted, ButtonCounts
<1>3. ASSUME NEW pressed \in BOOLEAN, Button(pressed) PROVE ButtonCounts'
  <2>1. CASE pressed
    <3>1. Pressed /\ held' = held + 1
      BY <1>3, <2>1 DEF Button
    <3>2. CASE button_debounce < ButtonDebounce
      <4>1. button_debounce' = button_debounce + 1 /\ button_state' = button_state
        BY <3>1, <3>2 DEF Pressed
      <4> QED BY <1>0, <3>1, <4>1 DEF ButtonCounts
    <3>3. CASE ~(button_debounce < ButtonDebounce) /\ button_state
      <4>1. button_state' = button_state
        BY <3>1, <3>3 DEF Pressed
      <4> QED BY <1>0, <3>1, <3>3, <4>1 DEF ButtonCounts
    <3>4. CASE ~(button_debounce < ButtonDebounce) /\ ~button_state
      <4>1. button_state' = TRUE
        BY <3>1, <3>4 DEF Pressed
      <4> QED BY <1>0, <3>1, <3>4, <4>1 DEF ButtonCounts
    <3> QED BY <3>2, <3>3, <3>4
  <2>2. CASE ~pressed
    BY <1>3, <2>2 DEF Button, ButtonCounts
  <2> QED BY <2>1, <2>2
<1>4. CASE UNCHANGED apVars
  BY <1>1, <1>4 DEF apVars
<1>5. CASE MainLoop
  BY <1>1, <1>2, <1>3, <1>5
     DEF MainLoop, EndPoll, ButtonNotPolled, SyncAndDrop, Sync, Cli
<1>6. ASSUME NEW c \in Conn, ClientActs(c) PROVE ButtonCounts'
  <2>1. ASSUME NEW what, Command(what) PROVE ButtonCounts'
    BY <1>1, <2>1 DEF Command
  <2> QED BY <1>4, <1>6, <2>1 DEF ClientActs
<1> QED
  BY <1>4, <1>5, <1>6 DEF NetworkNext, PollConn, LwipErr, LwipClosed, networkVars

\* The button toggles the access point exactly when it has been held for the
\* whole debounce time, and never again while it is held, for any period and
\* debounce count (main.c 130-155).
THEOREM ButtonToggles == NetworkSpec => ButtonTogglesOnce
<1>1. NetworkInit => ButtonCounts
  BY DEF NetworkInit, ApInit, ButtonCounts
<1>2. NetworkSpec => []ApTypeOK
  BY NetworkTypes, PTL DEF NetworkTypeOK
<1>3. ApTypeOK /\ ButtonCounts /\ [NetworkNext]_networkVars =>
         [pc = "button" /\ pc' = "sync" =>
             (ap_state' # ap_state <=> held' # held /\ held' = ButtonDebounce + 1)]_networkVars
  <2> SUFFICES ASSUME ApTypeOK, ButtonCounts, NetworkNext, pc = "button", pc' = "sync"
               PROVE  ap_state' # ap_state <=> held' # held /\ held' = ButtonDebounce + 1
    OBVIOUS
  <2>0. /\ button_debounce \in 0 .. ButtonDebounce /\ held \in Nat /\ ButtonDebounce \in Nat
    BY ButtonAssumption, ApParts DEF Numbers
  <2>1. ap_state \in BOOLEAN
    BY ApParts DEF Switches
  <2>2. (\E pressed \in BOOLEAN : Button(pressed)) \/ ButtonNotPolled
    BY DEF NetworkNext, MainLoop, EndPoll, Reboot, Booted, SyncAndDrop, Sync, Cli,
           ClientActs, PollConn, LwipErr, LwipClosed, Polling
  <2>3. CASE ButtonNotPolled
    BY <2>3 DEF ButtonNotPolled, buttonVars, stateVars
  <2>4. ASSUME Button(FALSE)
        PROVE  ap_state' # ap_state <=> held' # held /\ held' = ButtonDebounce + 1
    <3>1. ap_state' = ap_state /\ held' = 0
      BY <2>4 DEF Button, stateVars
    <3> QED BY <2>0, <3>1
  <2>5. ASSUME Button(TRUE)
        PROVE  ap_state' # ap_state <=> held' # held /\ held' = ButtonDebounce + 1
    <3>1. Pressed /\ held' = held + 1
      BY <2>5 DEF Button
    <3>2. CASE button_debounce < ButtonDebounce
      <4>1. ap_state' = ap_state
        BY <3>1, <3>2 DEF Pressed, stateVars
      <4> QED BY <2>0, <3>1, <3>2, <4>1 DEF ButtonCounts
    <3>3. CASE ~(button_debounce < ButtonDebounce) /\ button_state
      <4>1. ap_state' = ap_state
        BY <3>1, <3>3 DEF Pressed, stateVars
      <4> QED BY <2>0, <3>1, <3>3, <4>1 DEF ButtonCounts
    <3>4. CASE ~(button_debounce < ButtonDebounce) /\ ~button_state
      <4>1. ap_state' = ~ap_state
        BY <3>1, <3>4 DEF Pressed
      <4>2. ap_state' # ap_state
        BY <2>1, <4>1
      <4> QED BY <2>0, <3>1, <3>4, <4>2 DEF ButtonCounts
    <3> QED BY <3>2, <3>3, <3>4
  <2> QED
    <3>1. Button(TRUE) \/ Button(FALSE) \/ ButtonNotPolled
      BY <2>2, Zenon
    <3> QED BY <2>3, <2>4, <2>5, <3>1
<1> QED
  BY <1>1, <1>2, <1>3, ButtonInv, PTL DEF NetworkSpec, ButtonTogglesOnce
=============================================================================
