---------------------------- MODULE ModbusProofs -----------------------------
(***************************************************************************)
(* The Modbus master, proved for answers, buffers, intervals and timeouts  *)
(* of any size that the assumptions of ModbusMaster relate, any number of  *)
(* stray bytes, and healthy and lossy devices in any combination.          *)
(*                                                                         *)
(* Why a fault stays with its device: until the first stray byte, what has *)
(* been received and what is still on the wire make up the answer to the   *)
(* open request, or what is left of it after a hold-up, too little to be   *)
(* accepted (InStep).  Nothing of it is left over when the request is      *)
(* concluded, and the next one starts on a silent line.                    *)
(*                                                                         *)
(* Why one reading is not confirmed: AgeInv counts the polls since the     *)
(* answer that said FIRST is active.  The clock of a poll is bounded by a  *)
(* turn while nothing is open, by the timeout or the time of an answer     *)
(* while a request is; what comes later than an answer may come is spoiled *)
(* (Doomed), so that a success is always in time.  All this holds while    *)
(* the main loop has not been held up since the request (Calm).            *)
(***************************************************************************)
EXTENDS SensorReadings, SequenceTheorems, TLAPS

Silent == \A d \in Device : wire[d] = << >>

\* receive_buf and the rest on the wire are the answer of d.
Answering(d) ==
    /\ Len(receive_buf) + Len(wire[d]) = AnswerLen
    /\ \A i \in 1 .. Len(receive_buf) : receive_buf[i] = [dev |-> d, pos |-> i, fresh |-> TRUE]
    /\ \A i \in 1 .. Len(wire[d]) :
          wire[d][i] = [dev |-> d, pos |-> Len(receive_buf) + i, fresh |-> TRUE]

\* Of the answer of d bytes were lost, so that it stays incomplete.
Incomplete(d) == lost /\ Len(receive_buf) + Len(wire[d]) < AnswerLen

Missing(d) == d \notin Healthy /\ receive_buf = << >> /\ wire[d] = << >>

Sending == pc \in {"clear", "wipe", "write"}

InStep ==
    /\ pc # "hung"
    /\ Sending => busy
    /\ ~busy \/ Sending => Silent
    /\ pc \in {"wipe", "write"} => receive_buf = << >>
    /\ busy /\ ~Sending =>
          /\ wire[Other(last_request)] = << >>
          /\ \/ Answering(last_request) /\ ~lost
             \/ Missing(last_request)
             \/ Incomplete(last_request)
          /\ wire[last_request] # << >> => now - send_ts =< AnswerMs

\* The step before a request is concluded.
StepInv == TypeOK /\ (noise = NoiseBytes => InStep)

-----------------------------------------------------------------------------
(* Types.                                                                  *)

LEMMA ByteFacts ==
  /\ Stray \in Byte
  /\ \A d \in Device, i \in 1 .. AnswerLen, f \in BOOLEAN :
        [dev |-> d, pos |-> i, fresh |-> f] \in Byte
  /\ \A b \in Byte : [b EXCEPT !.fresh = FALSE] \in Byte
<1>1. Stray \in Byte
  BY DEF Byte
<1>2. ASSUME NEW b \in [dev : Device, pos : 1 .. AnswerLen, fresh : BOOLEAN]
      PROVE  [b EXCEPT !.fresh = FALSE] \in Byte
  <2>1. [b EXCEPT !.fresh = FALSE] \in [dev : Device, pos : 1 .. AnswerLen, fresh : BOOLEAN]
    OBVIOUS
  <2> QED BY <2>1, Zenon DEF Byte
<1>3. [Stray EXCEPT !.fresh = FALSE] = Stray
  <2>1. Stray \in [dev : {"none"}, pos : {0}, fresh : {FALSE}]
    BY DEF Stray
  <2>2. ASSUME NEW b \in [dev : {"none"}, pos : {0}, fresh : {FALSE}]
        PROVE  [b EXCEPT !.fresh = FALSE] = b
    OBVIOUS
  <2> QED BY <2>1, <2>2, Zenon
<1>4. ASSUME NEW b \in Byte PROVE [b EXCEPT !.fresh = FALSE] \in Byte
  <2>1. CASE b = Stray
    BY <1>1, <1>3, <2>1
  <2>2. CASE b # Stray
    BY <1>2, <2>2 DEF Byte
  <2> QED BY <2>1, <2>2
<1>5. \A d \in Device, i \in 1 .. AnswerLen, f \in BOOLEAN :
         [dev |-> d, pos |-> i, fresh |-> f] \in Byte
  BY DEF Byte
<1> QED BY <1>1, <1>4, <1>5

LEMMA MapSeq ==
  ASSUME NEW S, NEW s \in Seq(S), NEW f, DOMAIN f = DOMAIN s, f = [i \in DOMAIN s |-> f[i]],
         \A i \in DOMAIN s : f[i] \in S
  PROVE  f \in Seq(S) /\ Len(f) = Len(s)
<1>1. DOMAIN s = 1 .. Len(s) /\ Len(s) \in Nat
  OBVIOUS
<1>2. f \in [1 .. Len(s) -> S]
  BY <1>1
<1> QED BY <1>1, <1>2

LEMMA AnswerType ==
  ASSUME NEW d \in Device
  PROVE  /\ Answer(d) \in Seq(Byte) /\ Len(Answer(d)) = AnswerLen
         /\ \A i \in 1 .. AnswerLen : Answer(d)[i] = [dev |-> d, pos |-> i, fresh |-> TRUE]
<1>1. AnswerLen \in Nat
  BY LengthAssumption
<1>2. Answer(d) \in [1 .. AnswerLen -> Byte]
  BY ByteFacts DEF Answer
<1> QED BY <1>1, <1>2 DEF Answer

\* Nothing received, nothing on the wire.
LEMMA QuietType ==
  /\ << >> \in Seq(Byte) /\ Len(<< >>) = 0 /\ 0 =< BufSize
  /\ [d \in Device |-> << >>] \in [Device -> Seq(Byte)]
  /\ [d \in Device |-> FALSE] \in [Device -> BOOLEAN]
<1>1. << >> \in Seq(Byte) /\ Len(<< >>) = 0
  OBVIOUS
<1>2. [d \in Device |-> << >>] \in [Device -> Seq(Byte)]
  BY <1>1, Zenon
<1>3. 0 =< BufSize
  BY LengthAssumption
<1> QED BY <1>1, <1>2, <1>3, Zenon

LEMMA InitType == Init => TypeOK
<1> SUFFICES ASSUME Init PROVE TypeOK
  OBVIOUS
<1>1. receive_buf \in Seq(Byte) /\ Len(receive_buf) =< BufSize
  BY QuietType DEF Init
<1>2. wire \in [Device -> Seq(Byte)] /\ dev_error \in [Device -> BOOLEAN]
  BY QuietType, Zenon DEF Init
<1>3. /\ now \in Nat /\ send_ts \in 0 .. now /\ request_ts \in 0 .. now
      /\ noise \in 0 .. NoiseBytes /\ hold_ups \in 0 .. HoldUps
  BY NoiseAssumption, HoldUpAssumption DEF Init
<1>4. /\ pc \in {"serve", "routine", "request", "clear", "wipe", "write", "rest", "hung"}
      /\ busy \in BOOLEAN /\ last_request \in Device /\ next_dev \in Device
      /\ lost \in BOOLEAN
  BY DEF Init, Device
<1> QED BY <1>1, <1>2, <1>3, <1>4 DEF TypeOK

LEMMA IrqType ==
  ASSUME TypeOK, NEW b \in Byte, Irq(b)
  PROVE  /\ receive_buf' \in Seq(Byte) /\ Len(receive_buf') =< BufSize
         /\ pc' \in {"serve", "routine", "request", "clear", "wipe", "write", "rest", "hung"}
<1>1. CASE Len(receive_buf) < BufSize
  <2>1. receive_buf' = Append(receive_buf, b) /\ pc' = pc
    BY <1>1 DEF Irq
  <2>2. receive_buf \in Seq(Byte)
    BY DEF TypeOK
  <2>3. receive_buf' \in Seq(Byte) /\ Len(receive_buf') = Len(receive_buf) + 1
    BY <2>1, <2>2
  <2> QED BY <1>1, <2>1, <2>2, <2>3, LengthAssumption DEF TypeOK
<1>2. CASE ~(Len(receive_buf) < BufSize)
  BY <1>2 DEF Irq, TypeOK
<1> QED BY <1>1, <1>2

LEMMA StaleType ==
  ASSUME TypeOK, NEW d \in Device
  PROVE  /\ Stale(receive_buf, d) \in Seq(Byte)
         /\ Len(Stale(receive_buf, d)) = Len(receive_buf)
<1>1. receive_buf \in Seq(Byte) /\ \A i \in DOMAIN receive_buf : receive_buf[i] \in Byte
  BY DEF TypeOK
<1>2. \A i \in DOMAIN receive_buf : Stale(receive_buf, d)[i] \in Byte
  BY <1>1, ByteFacts DEF Stale
<1>3. /\ DOMAIN Stale(receive_buf, d) = DOMAIN receive_buf
      /\ Stale(receive_buf, d) = [i \in DOMAIN receive_buf |-> Stale(receive_buf, d)[i]]
  BY DEF Stale
<1> QED BY <1>1, <1>2, <1>3, MapSeq

LEMMA ReceivesType ==
  ASSUME TypeOK, NEW d \in Device, Receives(d)
  PROVE  wire' \in [Device -> Seq(Byte)]
<1>1. wire \in [Device -> Seq(Byte)]
  BY DEF TypeOK
<1>2. CASE wire' = [wire EXCEPT ![d] = Answer(d)]
  BY <1>1, <1>2, AnswerType
<1>3. CASE wire' = [wire EXCEPT ![d] = [i \in DOMAIN @ |-> [@[i] EXCEPT !.fresh = FALSE]]]
  <2> DEFINE w == wire[d]
             o == [i \in DOMAIN w |-> [w[i] EXCEPT !.fresh = FALSE]]
  <2>1. w \in Seq(Byte) /\ \A i \in DOMAIN w : w[i] \in Byte
    BY <1>1
  <2>2. \A i \in DOMAIN w : o[i] \in Byte
    BY <2>1, ByteFacts
  <2>3. o \in Seq(Byte)
    BY <2>1, <2>2, MapSeq
  <2> QED BY <1>1, <1>3, <2>3
<1> QED BY <1>2, <1>3 DEF Receives

LEMMA LoopType ==
  ASSUME TypeOK, Loop
  PROVE  TypeOK'
<1>1. ASSUME NEW s \in BOOLEAN, Conclude(s) PROVE TypeOK'
  BY <1>1 DEF TypeOK, Conclude, lineVars, historyVars
<1>2. CASE Decode
  <2>1. Accepted \in BOOLEAN
    BY DEF Accepted
  <2> QED BY <1>1, <1>2, <2>1 DEF Decode
<1>3. CASE Timeout
  BY <1>1, <1>3 DEF Timeout
<1>4. CASE NothingYet
  BY <1>4 DEF TypeOK, NothingYet, lineVars, historyVars
<1>5. CASE Request
  <2>1. request_ts' \in 0 .. now' /\ send_ts' \in 0 .. now' /\ now' \in Nat
    BY <1>5 DEF TypeOK, Request
  <2>2. /\ pc' \in {"serve", "routine", "request", "clear", "wipe", "write", "rest", "hung"}
        /\ busy' \in BOOLEAN
    BY <1>5, Zenon DEF TypeOK, Request
  <2>3. UNCHANGED <<receive_buf, last_request, next_dev, dev_error, wire, noise, hold_ups, lost>>
    BY <1>5 DEF Request, lineVars, historyVars
  <2> QED BY <2>1, <2>2, <2>3 DEF TypeOK
<1>6. CASE Clear
  BY <1>6, LengthAssumption DEF TypeOK, Clear, historyVars
<1>7. CASE Wipe
  <2>1. receive_buf' = [i \in DOMAIN receive_buf |-> Stray]
    BY <1>7 DEF Wipe
  <2>2. receive_buf' \in Seq(Byte) /\ Len(receive_buf') = Len(receive_buf)
    <3>1. receive_buf \in Seq(Byte) /\ DOMAIN receive_buf' = DOMAIN receive_buf
      BY <2>1 DEF TypeOK
    <3>2. \A i \in DOMAIN receive_buf : receive_buf'[i] = Stray
      BY <2>1
    <3>3. receive_buf' = [i \in DOMAIN receive_buf |-> receive_buf'[i]]
      BY <2>1
    <3> QED BY <3>1, <3>2, <3>3, ByteFacts, MapSeq
  <2> QED BY <1>7, <2>2 DEF TypeOK, Wipe, historyVars
<1>8. CASE Write
  <2>1. wire' \in [Device -> Seq(Byte)]
    BY <1>8, ReceivesType DEF Write, TypeOK
  <2>2. receive_buf' \in Seq(Byte) /\ Len(receive_buf') = Len(receive_buf)
    BY <1>8, StaleType DEF Write, TypeOK
  <2>3. now' \in Nat /\ send_ts' \in 0 .. now' /\ request_ts' \in 0 .. now'
    BY <1>8, TimeAssumption DEF Write, TypeOK
  <2>4. hold_ups' \in 0 .. HoldUps /\ lost' \in BOOLEAN
    BY <1>8 DEF Write, TypeOK
  <2> QED BY <1>8, <2>1, <2>2, <2>3, <2>4 DEF Write, TypeOK, Other, Device
<1>9. CASE Serve \/ Rest
  <2>1. /\ pc' \in {"serve", "routine"}
        /\ UNCHANGED <<busy, send_ts, last_request, request_ts, next_dev, dev_error>>
        /\ UNCHANGED <<receive_buf, wire, noise, hold_ups, lost>>
        /\ now' \in Nat /\ now' >= now
    BY <1>9, HoldUpAssumption DEF TypeOK, Serve, Rest, Pass, lineVars, historyVars
  <2> QED BY <2>1 DEF TypeOK
<1> QED BY <1>2, <1>3, <1>4, <1>5, <1>6, <1>7, <1>8, <1>9 DEF Loop

LEMMA ArriveType ==
  ASSUME TypeOK, NEW d \in Device, Arrive(d)
  PROVE  TypeOK'
<1>1. wire[d] \in Seq(Byte) /\ wire[d] # << >>
  BY DEF Arrive, TypeOK
<1>2. Head(wire[d]) \in Byte /\ Tail(wire[d]) \in Seq(Byte)
  BY <1>1
<1>3. /\ receive_buf' \in Seq(Byte) /\ Len(receive_buf') =< BufSize
      /\ pc' \in {"serve", "routine", "request", "clear", "wipe", "write", "rest", "hung"}
  BY <1>2, IrqType DEF Arrive
<1>4. wire' \in [Device -> Seq(Byte)]
  BY <1>2 DEF Arrive, TypeOK
<1> QED BY <1>3, <1>4 DEF Arrive, Irq, TypeOK, historyVars

\* What a hold-up leaves on the wire: the end of what was there.
LEMMA HeldUpWire ==
  ASSUME TypeOK, HeldUp, NEW d \in Device
  PROVE  /\ wire' \in [Device -> Seq(Byte)]
         /\ wire[d] = << >> => wire'[d] = << >>
         /\ Len(wire'[d]) =< Len(wire[d])
         /\ Len(wire'[d]) = Len(wire[d]) => wire'[d] = wire[d]
<1>1. PICK k \in [Device -> 0 .. AnswerLen] :
          wire' = [e \in Device |-> SubSeq(wire[e], k[e] + 1, Len(wire[e]))]
  BY DEF HeldUp
<1>2. \A e \in Device : wire[e] \in Seq(Byte) /\ k[e] \in Nat
  BY LengthAssumption DEF TypeOK
<1>3. ASSUME NEW s \in Seq(Byte), NEW n \in Nat
      PROVE  /\ SubSeq(s, n + 1, Len(s)) \in Seq(Byte)
             /\ Len(SubSeq(s, n + 1, Len(s))) =< Len(s)
             /\ Len(SubSeq(s, n + 1, Len(s))) = Len(s) => SubSeq(s, n + 1, Len(s)) = s
             /\ s = << >> => SubSeq(s, n + 1, Len(s)) = << >>
  OBVIOUS
<1>4. wire' \in [Device -> Seq(Byte)]
  BY <1>1, <1>2, <1>3
<1>5. wire'[d] = SubSeq(wire[d], k[d] + 1, Len(wire[d]))
  BY <1>1
<1> QED BY <1>2, <1>3, <1>4, <1>5

LEMMA HeldUpType ==
  ASSUME TypeOK, HeldUp
  PROVE  TypeOK'
<1>1. wire' \in [Device -> Seq(Byte)]
  BY HeldUpWire DEF Device
<1>2. now' \in Nat /\ now' >= now /\ hold_ups' \in 0 .. HoldUps /\ lost' \in BOOLEAN
  BY HoldUpAssumption DEF HeldUp, TypeOK
<1>3. UNCHANGED <<pc, busy, send_ts, last_request, request_ts, next_dev, dev_error,
                  receive_buf, noise>>
  BY DEF HeldUp
<1> QED BY <1>1, <1>2, <1>3 DEF TypeOK

LEMMA NextType ==
  ASSUME TypeOK, [Next]_vars
  PROVE  TypeOK'
<1>1. CASE Loop
  BY <1>1, LoopType
<1>2. CASE Noise
  <2>1. /\ receive_buf' \in Seq(Byte) /\ Len(receive_buf') =< BufSize
        /\ pc' \in {"serve", "routine", "request", "clear", "wipe", "write", "rest", "hung"}
    BY <1>2, IrqType, ByteFacts DEF Noise
  <2> QED BY <1>2, <2>1, NoiseAssumption DEF Noise, Irq, TypeOK, historyVars
<1>3. CASE Watchdog
  <2>1. receive_buf' \in Seq(Byte) /\ Len(receive_buf') =< BufSize
    BY <1>3, QuietType DEF Watchdog
  <2>2. wire' \in [Device -> Seq(Byte)] /\ dev_error' \in [Device -> BOOLEAN]
    BY <1>3, QuietType, Zenon DEF Watchdog
  <2>3. /\ now' \in Nat /\ send_ts' \in 0 .. now' /\ request_ts' \in 0 .. now'
        /\ noise' \in 0 .. NoiseBytes /\ hold_ups' \in 0 .. HoldUps
    BY <1>3 DEF Watchdog, TypeOK
  <2>4. /\ pc' \in {"serve", "routine", "request", "clear", "wipe", "write", "rest", "hung"}
        /\ busy' \in BOOLEAN /\ last_request' \in Device /\ next_dev' \in Device
        /\ lost' \in BOOLEAN
    BY <1>3 DEF Watchdog, Device
  <2> QED BY <2>1, <2>2, <2>3, <2>4 DEF TypeOK
<1>4. ASSUME NEW d \in Device, Arrive(d) PROVE TypeOK'
  BY <1>4, ArriveType
<1>5. CASE UNCHANGED vars
  BY <1>5 DEF TypeOK, vars, masterVars, lineVars, historyVars
<1> QED BY <1>1, <1>2, <1>3, <1>4, <1>5, HeldUpType DEF Next

\* Every variable keeps its type; in particular the interrupt handler never
\* writes behind the end of the receive buffer (modbus_master.c 88-94).
THEOREM MasterTypes == Spec => []TypeOK
  BY InitType, NextType, PTL DEF Spec

-----------------------------------------------------------------------------
(* What each step keeps in step.                                           *)

LEMMA Devices ==
  ASSUME NEW d \in Device
  PROVE  /\ Other(d) \in Device /\ Other(d) # d
         /\ \A e \in Device : e = d \/ e = Other(d)
  BY DEF Device, Other

LEMMA EmptyByLength ==
  ASSUME NEW S, NEW s \in Seq(S), Len(s) = 0
  PROVE  s = << >>
  OBVIOUS

LEMMA InitInStep == Init => InStep
<1> SUFFICES ASSUME Init PROVE InStep
  OBVIOUS
<1>1. Silent
  BY DEF Init, Silent
<1>2. pc = "serve" /\ ~busy
  BY DEF Init
<1> QED BY <1>1, <1>2 DEF InStep, Sending

\* A request is concluded when nothing of its answer is left.
LEMMA ConcludeInStep ==
  ASSUME TypeOK, InStep, NEW s \in BOOLEAN, Conclude(s), busy, ~Sending,
         wire[last_request] = << >>
  PROVE  InStep'
<1>1. Silent
  BY Devices DEF TypeOK, InStep, Silent
<1>2. Silent'
  BY <1>1 DEF Conclude, lineVars, Silent
<1>3. pc' = "request" /\ ~busy'
  BY DEF Conclude
<1> QED BY <1>2, <1>3 DEF InStep, Sending

\* A complete answer is the whole answer, and accepted.
LEMMA DecodeSound ==
  ASSUME TypeOK, InStep, Decode
  PROVE  wire[last_request] = << >> /\ Accepted /\ ~lost
<1>1. busy /\ ~Sending
  BY DEF Decode, Sending
<1>2. Len(receive_buf) >= AnswerLen /\ Len(receive_buf) \in Nat
  BY LengthAssumption DEF Decode, Complete, TypeOK
<1>3. wire[last_request] \in Seq(Byte) /\ Len(wire[last_request]) \in Nat
  BY DEF TypeOK
<1>4. Answering(last_request) /\ ~lost
  <2>1. receive_buf # << >>
    <3>1. Len(<< >>) = 0
      OBVIOUS
    <3> QED BY <1>2, <3>1, LengthAssumption
  <2>2. ~Incomplete(last_request)
    BY <1>2, <1>3, LengthAssumption DEF Incomplete
  <2> QED BY <1>1, <2>1, <2>2 DEF InStep, Missing
<1>5. Len(receive_buf) = AnswerLen /\ Len(wire[last_request]) = 0
  BY <1>2, <1>3, <1>4, LengthAssumption DEF Answering
<1>6. wire[last_request] = << >>
  BY <1>3, <1>5, EmptyByLength
<1>7. Accepted
  <2>1. \A i \in 1 .. AnswerLen :
           receive_buf[i] = [dev |-> last_request, pos |-> i, fresh |-> TRUE]
    BY <1>4, <1>5 DEF Answering
  <2>2. ASSUME NEW i \in 1 .. AnswerLen
        PROVE  /\ receive_buf[i].dev = last_request
               /\ receive_buf[i].pos = i
               /\ receive_buf[i].fresh = TRUE
    <3>1. receive_buf[i] = [dev |-> last_request, pos |-> i, fresh |-> TRUE]
      BY <2>1
    <3> QED BY <3>1
  <2>3. 1 \in 1 .. AnswerLen
    BY LengthAssumption
  <2> QED BY <2>2, <2>3 DEF Accepted
<1> QED BY <1>4, <1>6, <1>7

\* When the time is over nothing is on its way any more; a healthy device has
\* answered, so bytes of its answer were lost.
LEMMA TimeoutSound ==
  ASSUME TypeOK, InStep, Timeout
  PROVE  wire[last_request] = << >> /\ (last_request \in Healthy => lost)
<1>1. busy /\ ~Sending
  BY DEF Timeout, Sending
<1>2. wire[last_request] = << >>
  <2>1. ~(now - send_ts =< AnswerMs)
    BY TimeAssumption DEF Timeout, TypeOK
  <2> QED BY <1>1, <2>1 DEF InStep
<1>3. ~Answering(last_request)
  BY <1>2, LengthAssumption DEF Answering, Timeout, Complete, TypeOK
<1> QED BY <1>1, <1>2, <1>3 DEF InStep, Missing, Incomplete

LEMMA ConcludedInStep ==
  ASSUME TypeOK, InStep, Decode \/ Timeout
  PROVE  InStep'
<1>1. CASE Decode
  <2>1. busy /\ ~Sending /\ Conclude(Accepted) /\ Accepted \in BOOLEAN
    BY <1>1 DEF Decode, Sending, Accepted
  <2> QED BY <1>1, <2>1, DecodeSound, ConcludeInStep
<1>2. CASE Timeout
  <2>1. busy /\ ~Sending /\ Conclude(FALSE)
    BY <1>2 DEF Timeout, Sending
  <2> QED BY <1>2, <2>1, TimeoutSound, ConcludeInStep
<1> QED BY <1>1, <1>2

LEMMA RequestInStep ==
  ASSUME TypeOK, InStep, Request
  PROVE  InStep'
<1>0. UNCHANGED <<send_ts, last_request, receive_buf, wire, now, lost>>
  BY DEF Request, lineVars, historyVars
<1>1. CASE DueForPoll
  <2>1. pc' = "clear" /\ busy' /\ Silent
    BY <1>1 DEF Request, DueForPoll, InStep
  <2> QED BY <1>0, <2>1 DEF InStep, Sending, Silent
<1>2. CASE ~DueForPoll
  <2>1. pc' = "rest" /\ pc = "request" /\ busy' = busy
    BY <1>2 DEF Request
  <2> QED BY <1>0, <2>1 DEF InStep, Sending, Silent, Answering, Missing, Incomplete
<1> QED BY <1>1, <1>2

\* The line is silent, so the answer of next_dev, if it comes, comes alone.
LEMMA WriteInStep ==
  ASSUME TypeOK, InStep, Write
  PROVE  InStep'
<1>1. busy /\ Silent /\ receive_buf = << >> /\ pc' = "rest" /\ busy' = busy /\ ~lost'
  BY DEF Write, InStep, Sending
<1>2. next_dev \in Device /\ last_request' = next_dev
  BY DEF Write, TypeOK
<1>3. receive_buf' = << >>
  <2>1. Len(receive_buf') = 0 /\ receive_buf' \in Seq(Byte)
    BY <1>1, <1>2, StaleType DEF Write
  <2> QED BY <2>1, EmptyByLength
<1>4. wire'[Other(next_dev)] = << >>
  BY <1>1, <1>2, Devices DEF Write, Receives, Silent, TypeOK
<1>5. Answering(last_request)' \/ Missing(last_request)'
  <2>1. CASE wire' = [wire EXCEPT ![next_dev] = Answer(next_dev)]
    <3>1. wire'[next_dev] = Answer(next_dev)
      BY <1>2, <2>1 DEF TypeOK
    <3>2. Len(receive_buf') = 0 /\ AnswerLen \in Nat
      BY <1>3, LengthAssumption
    <3>3. Len(receive_buf') + Len(wire'[next_dev]) = AnswerLen
      BY <1>2, <3>1, <3>2, AnswerType
    <3>4. \A i \in 1 .. Len(receive_buf') :
             receive_buf'[i] = [dev |-> next_dev, pos |-> i, fresh |-> TRUE]
      BY <3>2
    <3>5. ASSUME NEW i \in 1 .. Len(wire'[next_dev])
          PROVE  wire'[next_dev][i]
                    = [dev |-> next_dev, pos |-> Len(receive_buf') + i, fresh |-> TRUE]
      <4>1. i \in 1 .. AnswerLen /\ Len(receive_buf') + i = i
        BY <1>2, <3>1, <3>2, AnswerType
      <4> QED BY <1>2, <3>1, <4>1, AnswerType
    <3> QED BY <1>2, <3>3, <3>4, <3>5, Zenon DEF Answering
  <2>2. CASE /\ next_dev \notin Healthy
             /\ wire' = [wire EXCEPT ![next_dev] =
                                [i \in DOMAIN @ |-> [@[i] EXCEPT !.fresh = FALSE]]]
    <3>1. wire[next_dev] = << >>
      BY <1>1, <1>2 DEF Silent
    <3>2. wire'[next_dev] = [i \in DOMAIN wire[next_dev] |->
                                [wire[next_dev][i] EXCEPT !.fresh = FALSE]]
      BY <1>2, <2>2 DEF TypeOK
    <3>3. wire'[next_dev] = << >>
      BY <3>1, <3>2
    <3> QED BY <1>2, <1>3, <2>2, <3>3, Zenon DEF Missing
  <2> QED BY <2>1, <2>2 DEF Write, Receives
<1>6. now' - send_ts' =< AnswerMs
  BY TimeAssumption DEF Write, TypeOK
<1> QED BY <1>1, <1>2, <1>4, <1>5, <1>6 DEF InStep, Sending

LEMMA PassInStep ==
  ASSUME Slow = {}, TypeOK, InStep, Serve \/ Rest
  PROVE  InStep'
<1>1. /\ pc' \notin {"clear", "wipe", "write", "hung"} /\ ~Sending
      /\ UNCHANGED <<busy, send_ts, last_request, receive_buf, wire, lost>>
  BY DEF Serve, Rest, Pass, lineVars, historyVars, Sending
<1>2. wire[last_request] # << >> => now' - send_ts =< AnswerMs
  BY <1>1 DEF Serve, Rest, Pass, OnTime, TypeOK
<1> QED BY <1>1, <1>2 DEF InStep, Sending, Silent, Answering, Missing, Incomplete

\* If a byte of the answer is lost, it stays incomplete.
LEMMA HeldUpInStep ==
  ASSUME Slow = {}, TypeOK, InStep, HeldUp
  PROVE  InStep'
<1> DEFINE l == last_request
<1>1. /\ pc' = pc /\ pc \notin {"clear", "wipe", "write", "hung"} /\ ~Sending
      /\ UNCHANGED <<busy, send_ts, last_request, receive_buf>>
      /\ lost' = (lost \/ wire'[l] # wire[l])
      /\ l \in Device
  BY DEF HeldUp, Sending, TypeOK
<1>2. wire'[l] # << >> => now' - send_ts =< AnswerMs
  BY <1>1 DEF HeldUp, OnTime
<1>3. Silent => Silent'
  BY HeldUpWire DEF Silent
<1>4. wire[Other(l)] = << >> => wire'[Other(l)] = << >>
  BY <1>1, HeldUpWire, Devices
<1>5. CASE wire'[l] = wire[l]
  BY <1>1, <1>2, <1>3, <1>4, <1>5 DEF InStep, Sending, Answering, Missing, Incomplete
<1>6. CASE wire'[l] # wire[l]
  <2>1. lost' /\ Len(wire'[l]) < Len(wire[l])
    <3>1. wire[l] \in Seq(Byte) /\ wire'[l] \in Seq(Byte)
      BY <1>1, HeldUpWire DEF TypeOK
    <3>2. Len(wire'[l]) =< Len(wire[l]) /\ Len(wire'[l]) # Len(wire[l])
      BY <1>1, <1>6, HeldUpWire
    <3>3. Len(wire'[l]) \in Nat /\ Len(wire[l]) \in Nat
      BY <3>1
    <3>4. \A m, n \in Nat : m =< n /\ m # n => m < n
      OBVIOUS
    <3>5. lost'
      BY <1>1, <1>6, Zenon
    <3> QED BY <3>2, <3>3, <3>4, <3>5, Zenon
  <2>2. busy => Len(receive_buf) + Len(wire[l]) =< AnswerLen
    <3>1. wire[l] # << >>
      BY <1>1, <1>6, HeldUpWire
    <3>2. CASE ~busy
      BY <3>2
    <3>3. CASE busy
      <4>1. Answering(l) \/ Incomplete(l)
        BY <1>1, <3>1, <3>3 DEF InStep, Missing
      <4>2. Len(receive_buf) \in Nat /\ Len(wire[l]) \in Nat /\ AnswerLen \in Nat
        BY <1>1, LengthAssumption DEF TypeOK
      <4> QED BY <4>1, <4>2 DEF Answering, Incomplete
    <3> QED BY <3>2, <3>3
  <2>3. busy => Incomplete(l)'
    <3>1. Len(receive_buf) \in Nat /\ Len(wire[l]) \in Nat /\ Len(wire'[l]) \in Nat
      BY <1>1, HeldUpWire DEF TypeOK
    <3>2. AnswerLen \in Nat
      BY LengthAssumption
    <3> QED BY <1>1, <2>1, <2>2, <3>1, <3>2 DEF Incomplete
  <2> QED BY <1>1, <1>2, <1>3, <1>4, <2>3 DEF InStep, Sending
<1> QED BY <1>5, <1>6

\* The next byte of the answer takes its place behind those received.
LEMMA ArriveInStep ==
  ASSUME TypeOK, InStep, NEW d \in Device, Arrive(d)
  PROVE  InStep'
<1> DEFINE w == wire[d]
<1>1. w # << >> /\ w \in Seq(Byte) /\ Len(w) \in Nat /\ Len(w) > 0
  BY DEF Arrive, TypeOK
<1>2. busy /\ ~Sending /\ d = last_request
  <2>1. ~Silent
    BY <1>1 DEF Silent
  <2> QED BY <1>1, <2>1, Devices DEF InStep, TypeOK
<1>3. (Answering(d) /\ ~lost) \/ Incomplete(d)
  BY <1>1, <1>2 DEF InStep, Missing
<1>4. receive_buf \in Seq(Byte) /\ Len(receive_buf) < BufSize
  <2>1. receive_buf \in Seq(Byte) /\ Len(receive_buf) \in Nat
    BY DEF TypeOK
  <2> QED BY <1>1, <1>3, <2>1, LengthAssumption DEF Answering, Incomplete
<1>5. /\ receive_buf' = Append(receive_buf, Head(w))
      /\ UNCHANGED <<pc, now, busy, send_ts, last_request, lost>>
  BY <1>4 DEF Arrive, Irq, historyVars
<1>6. wire'[d] = Tail(w) /\ wire'[Other(d)] = wire[Other(d)]
  BY Devices DEF Arrive, TypeOK
<1>10. ASSUME Incomplete(d) PROVE Incomplete(d)'
  <2>1. Len(receive_buf') = Len(receive_buf) + 1 /\ Len(wire'[d]) = Len(w) - 1
    BY <1>1, <1>4, <1>5, <1>6
  <2>2. Len(receive_buf) \in Nat /\ AnswerLen \in Nat
    BY <1>4, LengthAssumption
  <2> HIDE DEF w
  <2>3. Len(receive_buf') + Len(wire'[d]) < AnswerLen
    <3>1. Len(receive_buf) + Len(w) < AnswerLen
      BY <1>10 DEF Incomplete, w
    <3> QED BY <1>1, <2>1, <2>2, <3>1
  <2> QED BY <1>5, <1>10, <2>3 DEF Incomplete
<1>7. ASSUME Answering(d) PROVE Answering(d)'
  <2> DEFINE n == Len(receive_buf)
  <2>1. n \in Nat /\ n + Len(w) = AnswerLen
    BY <1>4, <1>7 DEF Answering
  <2>2. Len(receive_buf') = n + 1 /\ Len(wire'[d]) = Len(w) - 1
    BY <1>1, <1>4, <1>5, <1>6
  <2>3. Head(w) = w[1] /\ w[1] = [dev |-> d, pos |-> n + 1, fresh |-> TRUE]
    BY <1>1, <1>7 DEF Answering
  <2>4. ASSUME NEW i \in 1 .. Len(receive_buf')
        PROVE  receive_buf'[i] = [dev |-> d, pos |-> i, fresh |-> TRUE]
    <3>1. CASE i \in 1 .. n
      <4>1. receive_buf'[i] = receive_buf[i]
        BY <1>1, <1>4, <1>5, <3>1
      <4> QED BY <1>7, <3>1, <4>1 DEF Answering
    <3>2. CASE i = n + 1
      <4>1. receive_buf'[i] = Head(w)
        BY <1>1, <1>4, <1>5, <3>2
      <4> QED BY <2>3, <3>2, <4>1
    <3> QED BY <2>1, <2>2, <3>1, <3>2
  <2>5. ASSUME NEW i \in 1 .. Len(wire'[d])
        PROVE  wire'[d][i] = [dev |-> d, pos |-> Len(receive_buf') + i, fresh |-> TRUE]
    <3>1. wire'[d][i] = w[i + 1] /\ i + 1 \in 1 .. Len(w)
      BY <1>1, <1>6, <2>2
    <3>2. w[i + 1] = [dev |-> d, pos |-> n + (i + 1), fresh |-> TRUE]
      BY <1>7, <3>1 DEF Answering
    <3>3. n + (i + 1) = Len(receive_buf') + i
      BY <2>1, <2>2
    <3> QED BY <3>1, <3>2, <3>3
  <2>6. Len(receive_buf') + Len(wire'[d]) = AnswerLen
    <3>1. \A k, l \in Nat : (k + 1) + (l - 1) = k + l
      OBVIOUS
    <3>2. (n + 1) + (Len(w) - 1) = n + Len(w)
      BY <1>1, <2>1, <3>1, Zenon
    <3> QED BY <2>1, <2>2, <3>2, Zenon
  <2> HIDE DEF n
  <2> QED BY <2>4, <2>5, <2>6, Zenon DEF Answering
<1>8. wire'[last_request'] # << >> => now' - send_ts' =< AnswerMs
  BY <1>1, <1>2, <1>5 DEF InStep
<1>9. wire'[Other(last_request')] = << >>
  BY <1>2, <1>5, <1>6 DEF InStep
<1> QED BY <1>2, <1>3, <1>5, <1>7, <1>8, <1>9, <1>10 DEF InStep, Sending

LEMMA StepInStep ==
  ASSUME Slow = {}, TypeOK, InStep, [Next]_vars, noise' = noise
  PROVE  InStep'
<1>1. CASE NothingYet
  BY <1>1 DEF NothingYet, lineVars, historyVars, InStep, Sending, Silent, Answering, Missing,
              Incomplete
<1>2. CASE Clear
  BY <1>2 DEF Clear, InStep, Sending, Silent
<1>3. CASE Wipe
  <2>1. receive_buf' = << >>
    BY <1>3 DEF Wipe, InStep
  <2> QED BY <1>3, <2>1 DEF Wipe, InStep, Sending, Silent
<1>4. CASE Noise
  BY <1>4 DEF Noise, TypeOK
<1>5. CASE Watchdog
  BY <1>5 DEF Watchdog, InStep
<1>6. CASE UNCHANGED vars
  BY <1>6 DEF vars, masterVars, lineVars, historyVars, InStep, Sending, Silent, Answering,
              Missing, Incomplete
<1> QED BY <1>1, <1>2, <1>3, <1>4, <1>5, <1>6, ConcludedInStep, RequestInStep, WriteInStep,
           PassInStep, HeldUpInStep, ArriveInStep DEF Next, Loop

LEMMA NoiseOnlyDecreases ==
  ASSUME TypeOK, [Next]_vars, noise' = NoiseBytes
  PROVE  noise = NoiseBytes /\ noise' = noise
<1>1. noise' = noise \/ (noise > 0 /\ noise' = noise - 1)
  BY DEF Next, Loop, Decode, Timeout, Conclude, NothingYet, Request, Clear, Wipe, Write, Serve,
         Rest, Pass, HeldUp, Noise, Watchdog, Arrive, vars, masterVars, lineVars
<1> QED BY <1>1, NoiseAssumption DEF TypeOK

\* What a step says about a healthy device.
LEMMA FaultStep ==
  ASSUME TypeOK, InStep, [Next]_vars, noise' = noise, NEW d \in Healthy
  PROVE  dev_error'[d] = IF busy /\ ~busy' /\ last_request = d THEN lost ELSE dev_error[d]
<1>1. d \in Device /\ last_request \in Device /\ dev_error \in [Device -> BOOLEAN]
      /\ lost \in BOOLEAN
  BY DeviceAssumption DEF TypeOK
<1>2. ASSUME NEW s \in BOOLEAN, Conclude(s), busy, last_request \in Healthy => s = ~lost
      PROVE  dev_error'[d] = IF busy /\ ~busy' /\ last_request = d THEN lost ELSE dev_error[d]
  <2>1. ~busy' /\ dev_error' = [dev_error EXCEPT ![last_request] = ~s]
    BY <1>2 DEF Conclude
  <2>2. CASE last_request = d
    BY <1>1, <1>2, <2>1, <2>2
  <2>3. CASE last_request # d
    BY <1>1, <2>1, <2>3
  <2> QED BY <2>2, <2>3
<1>3. CASE Decode
  <2>1. Accepted \in BOOLEAN /\ Accepted /\ ~lost
    BY <1>3, DecodeSound DEF Accepted
  <2> QED BY <1>2, <1>3, <2>1 DEF Decode
<1>4. CASE Timeout
  <2>1. last_request \in Healthy => FALSE = ~lost
    BY <1>4, TimeoutSound
  <2> QED BY <1>2, <1>4, <2>1 DEF Timeout
<1>5. CASE \/ Serve \/ Rest \/ HeldUp \/ NothingYet \/ Request \/ Clear \/ Wipe \/ Write
           \/ \E e \in Device : Arrive(e)
           \/ UNCHANGED vars
  <2>1. dev_error' = dev_error /\ (busy => busy')
    BY <1>5 DEF Serve, Rest, Pass, HeldUp, NothingYet, Request, Clear, Wipe, Write, Arrive, Irq,
                vars, masterVars
  <2> QED BY <2>1
<1>6. CASE Noise
  BY <1>6 DEF Noise, TypeOK
<1>7. CASE Watchdog
  BY <1>7 DEF Watchdog, InStep
<1> QED BY <1>3, <1>4, <1>5, <1>6, <1>7 DEF Next, Loop

\* As long as no stray byte comes, a device that answers every request in time is
\* reported faulty for a request whose answer lost bytes while the main loop was
\* held up, healthy again upon the next one that did not, and never for anything
\* the other device does, if no device answers a request after its timeout
\* (modbus_master.c 41-86, 199-215, stairway_sensors.c 29-118).
THEOREM FaultsStayLocal ==
  ASSUME Slow = {}
  PROVE  Spec => FaultStaysLocal
<1>1. Init => StepInv
  BY InitType, InitInStep DEF StepInv
<1>2. StepInv /\ [Next]_vars => StepInv'
  <2> SUFFICES ASSUME StepInv, [Next]_vars PROVE StepInv'
    OBVIOUS
  <2>1. TypeOK'
    BY NextType DEF StepInv
  <2>2. ASSUME noise' = NoiseBytes PROVE InStep'
    BY <2>2, NoiseOnlyDecreases, StepInStep DEF StepInv
  <2> QED BY <2>1, <2>2 DEF StepInv
<1> DEFINE Local == noise' = NoiseBytes =>
                      \A d \in Healthy :
                        dev_error'[d] = IF busy /\ ~busy' /\ last_request = d THEN lost
                                        ELSE dev_error[d]
<1>3. ASSUME StepInv, [Next]_vars PROVE Local
  <2>1. ASSUME noise' = NoiseBytes, NEW d \in Healthy
        PROVE  dev_error'[d] = IF busy /\ ~busy' /\ last_request = d THEN lost
                               ELSE dev_error[d]
    BY <1>3, <2>1, NoiseOnlyDecreases, FaultStep DEF StepInv
  <2> QED BY <2>1
<1>4. StepInv /\ [Next]_vars => [Local]_vars
  BY <1>3
<1> QED BY <1>1, <1>2, <1>4, PTL DEF Spec, FaultStaysLocal

-----------------------------------------------------------------------------
(* The readings.                                                           *)

Polled == pc \in {"serve", "routine", "request", "rest"}
Open == busy /\ Polled
Idle == ~busy /\ Polled

\* Time passed since the routine last looked at the clock.
Late == IF pc = "serve" THEN LoopMs ELSE IF pc = "routine" THEN 2 * LoopMs ELSE 0

\* The main loop was not held up since the last request.
Calm == \E d \in Device : ~delayed[d]

\* What is in the buffer does not become an answer any more.
Doomed ==
    /\ Silent
    /\ \/ Len(receive_buf) < AnswerLen
       \/ \E i \in 1 .. AnswerLen : receive_buf[i] = Stray

LineInv ==
    /\ now - send_ts > AnswerMs => Silent
    /\ Open /\ Calm =>
          /\ now - send_ts =< TimeoutMs + Late
          /\ now - send_ts > AnswerMs + Late => Doomed
          /\ last_request \in Healthy =>
                /\ Len(receive_buf) + Len(wire[last_request]) >= AnswerLen
                /\ now - send_ts =< AnswerMs + Late

ClockInv ==
    /\ ts \in 1 .. now
    /\ Open /\ pc # "rest" => send_ts =< ts
    /\ Sending => busy /\ request_ts = now
    /\ Open => send_ts = request_ts + SendMs /\ send_ts >= 1
    /\ send_ts >= 1 => next_dev = Other(last_request)

ReadingsType ==
    /\ report \in [Device -> BOOLEAN]
    /\ first \in [Device -> BOOLEAN]
    /\ on_ts \in [Device -> Nat]
    /\ answers \in [Device -> 0 .. 2]
    /\ delayed \in [Device -> BOOLEAN]

ActiveInv ==
    \A d \in Device :
        /\ first[d] <=> answers[d] # 0
        /\ first[d] => send_ts >= 1
        /\ pc \in {"serve", "routine"} => (on_ts[d] = 0 <=> ~first[d])

\* Since when FIRST counts as active, also before on_ts has been set.
Since(d) == IF on_ts[d] = 0 THEN ts ELSE on_ts[d]

\* The time from a request to the next one, if nothing is open.
Turn == PollInterval + 2 * LoopMs

Waiting ==
    now - request_ts < IF pc = "rest" THEN PollInterval
                       ELSE IF pc = "serve" THEN PollInterval + LoopMs ELSE Turn

\* At most n requests have been sent since the only answer that said so.
Polls(d, n) == request_ts + SendMs - Since(d) =< n * Turn

AgeInv(d) ==
    answers[d] = 1 /\ ~delayed[d] =>
        /\ Idle /\ last_request = d => Polls(d, 0) /\ Waiting
        /\ Sending /\ last_request = d => Polls(d, 1)
        /\ Open /\ last_request = Other(d) => Polls(d, 1)
        /\ ~dev_error[Other(d)] =>
              /\ Idle /\ last_request = Other(d) => Polls(d, 1) /\ Waiting
              /\ Sending /\ last_request = Other(d) => Polls(d, 2)
              /\ Open /\ last_request = d => Polls(d, 2)

TimesInv == LineInv /\ ClockInv /\ ReadingsType /\ ActiveInv /\ \A d \in Healthy : AgeInv(d)
ReadingsInv == TypeOK /\ TimesInv

LEMMA Numbers ==
  ASSUME TypeOK
  PROVE  /\ now \in Nat /\ send_ts \in Nat /\ request_ts \in Nat
         /\ send_ts =< now /\ request_ts =< now
         /\ PollInterval \in Nat /\ TimeoutMs \in Nat /\ SendMs \in Nat /\ AnswerMs \in Nat
         /\ AnswerMs < TimeoutMs
         /\ LoopMs \in Nat /\ Turn \in Nat /\ Turn = PollInterval + 2 * LoopMs
         /\ busy \in BOOLEAN /\ last_request \in Device /\ next_dev \in Device
<1>1. LoopMs \in Nat /\ Turn \in Nat /\ Turn = PollInterval + 2 * LoopMs
  BY TimeAssumption, HoldUpAssumption DEF Turn
<1> QED BY <1>1, TimeAssumption DEF TypeOK

LEMMA SinceType ==
  ASSUME TypeOK, ClockInv, ReadingsType, NEW d \in Device
  PROVE  Since(d) \in Nat /\ Since(d) >= 1
  BY Numbers DEF ClockInv, ReadingsType, Since

LEMMA ReadingsInitInv ==
  ASSUME ReadingsInit
  PROVE  ReadingsInv
<1>1. TypeOK
  BY InitType DEF ReadingsInit
<1>2. Silent
  BY DEF ReadingsInit, Init, Silent
<1>3. /\ pc = "serve" /\ now = 1 /\ busy = FALSE /\ send_ts = 0 /\ ts = 1
      /\ ~Open /\ ~Sending
  BY DEF ReadingsInit, Init, Open, Sending
<1>4. LineInv
  BY <1>2, <1>3 DEF LineInv
<1>5. ClockInv
  BY <1>3 DEF ClockInv
<1>6. ReadingsType
  BY DEF ReadingsInit, ReadingsType
<1>7. ActiveInv
  BY DEF ReadingsInit, ActiveInv
<1>8. \A d \in Healthy : AgeInv(d)
  BY DeviceAssumption DEF ReadingsInit, AgeInv
<1> QED BY <1>1, <1>4, <1>5, <1>6, <1>7, <1>8 DEF ReadingsInv, TimesInv

-----------------------------------------------------------------------------
(* A request is concluded.                                                 *)

\* With a success it is in the time that a device which is not slow takes.
LEMMA SuccessInTime ==
  ASSUME ReadingsInv, Calm, Decode
  PROVE  /\ Accepted => now - send_ts =< AnswerMs + 2 * LoopMs
         /\ last_request \in Healthy => now - send_ts =< AnswerMs + 2 * LoopMs
<1>1. Open /\ Late = 2 * LoopMs /\ Len(receive_buf) >= AnswerLen
  <2>1. Len(receive_buf) \in Nat
    BY DEF ReadingsInv, TypeOK
  <2> QED BY <2>1, LengthAssumption DEF Decode, Complete, Open, Polled, Late
<1>2. last_request \in Healthy => now - send_ts =< AnswerMs + 2 * LoopMs
  BY <1>1 DEF ReadingsInv, TimesInv, LineInv
<1>3. ASSUME Accepted, ~(now - send_ts =< AnswerMs + 2 * LoopMs) PROVE FALSE
  <2>1. Doomed
    <3>2. now - send_ts \in Int /\ AnswerMs + 2 * LoopMs \in Int
      BY Numbers DEF ReadingsInv
    <3>3. now - send_ts > AnswerMs + 2 * LoopMs
      BY <1>3, <3>2
    <3>1. now - send_ts > AnswerMs + Late
      BY <1>1, <3>3
    <3> QED BY <1>1, <3>1 DEF ReadingsInv, TimesInv, LineInv
  <2>2. ~(Len(receive_buf) < AnswerLen)
    BY <1>1, LengthAssumption DEF ReadingsInv, TypeOK
  <2>3. PICK i \in 1 .. AnswerLen : receive_buf[i] = Stray
    BY <2>1, <2>2 DEF Doomed
  <2>4. receive_buf[i].dev = "none" /\ receive_buf[i].dev = last_request
    BY <1>3, <2>3 DEF Accepted, Stray
  <2> QED BY <2>4 DEF ReadingsInv, TypeOK, Device
<1> QED BY <1>2, <1>3

LEMMA ConcludeTimes ==
  ASSUME SendMs + AnswerMs < PollInterval, ReadingsInv, TypeOK', NEW s \in BOOLEAN,
         pc = "routine", busy, Conclude(s), Note(s),
         Calm /\ (s \/ last_request \in Healthy) => now - send_ts =< AnswerMs + 2 * LoopMs
  PROVE  TimesInv'
<1> DEFINE l == last_request
<1>1. /\ pc' = "request" /\ busy' = FALSE
      /\ dev_error' = [dev_error EXCEPT ![l] = ~s]
      /\ UNCHANGED <<now, send_ts, last_request, request_ts, next_dev, receive_buf, wire>>
      /\ UNCHANGED <<ts, report, on_ts, delayed>>
      /\ first' = [first EXCEPT ![l] = s /\ report[l]]
      /\ answers' = [answers EXCEPT ![l] = IF ~(s /\ report[l]) THEN 0
                                           ELSE IF @ = 2 THEN 2 ELSE @ + 1]
  BY Zenon DEF Conclude, Note, lineVars
<1>2. Open /\ ~Open' /\ ~Sending /\ ~Sending'
  BY <1>1 DEF Open, Polled, Sending
<1>3. /\ l \in Device /\ TypeOK /\ LineInv /\ ClockInv /\ ReadingsType /\ ActiveInv
      /\ \A d \in Healthy : AgeInv(d)
  BY DEF ReadingsInv, TimesInv, TypeOK
<1>4. LineInv'
  BY <1>1, <1>2, <1>3 DEF LineInv, Silent
<1>5. ClockInv'
  BY <1>1, <1>2, <1>3 DEF ClockInv
<1>6. /\ first'[l] = (s /\ report[l]) /\ \A d \in Device \ {l} : first'[d] = first[d]
      /\ answers'[l] = IF ~(s /\ report[l]) THEN 0 ELSE IF answers[l] = 2 THEN 2 ELSE answers[l] + 1
      /\ \A d \in Device \ {l} : answers'[d] = answers[d]
      /\ \A d \in Device \ {l} : dev_error'[d] = dev_error[d]
      /\ dev_error'[l] = ~s
  BY <1>1, <1>3 DEF ReadingsType, TypeOK
<1>7. answers[l] \in 0 .. 2 /\ report[l] \in BOOLEAN
  BY <1>3 DEF ReadingsType
<1>8. ReadingsType'
  <2>1. answers'[l] \in 0 .. 2
    BY <1>6, <1>7
  <2>2. answers' \in [Device -> 0 .. 2]
    BY <1>1, <1>3, <1>6, <2>1 DEF ReadingsType
  <2>3. first' \in [Device -> BOOLEAN] /\ delayed' \in [Device -> BOOLEAN]
    BY <1>1, <1>3 DEF ReadingsType
  <2> QED BY <1>1, <1>3, <2>2, <2>3 DEF ReadingsType
<1>9. ActiveInv'
  <2> SUFFICES ASSUME NEW d \in Device
               PROVE  (first'[d] <=> answers'[d] # 0) /\ (first'[d] => send_ts' >= 1)
    BY <1>1 DEF ActiveInv
  <2>1. CASE d = l
    <3>1. send_ts' >= 1
      BY <1>1, <1>2, <1>3 DEF ClockInv
    <3>2. first'[l] <=> answers'[l] # 0
      BY <1>6, <1>7
    <3> QED BY <2>1, <3>1, <3>2
  <2>2. CASE d # l
    BY <1>1, <1>3, <1>6, <2>2 DEF ActiveInv
  <2> QED BY <2>1, <2>2
<1>10. ASSUME NEW d \in Healthy PROVE AgeInv(d)'
  <2> SUFFICES ASSUME answers'[d] = 1, ~delayed[d]
               PROVE  /\ l = d => Polls(d, 0)' /\ Waiting'
                      /\ ~dev_error'[Other(d)] /\ l = Other(d) => Polls(d, 1)' /\ Waiting'
    <3>1. Idle' /\ last_request' = l
      BY <1>1 DEF Idle, Polled
    <3> QED BY <1>1, <1>2, <3>1, Zenon DEF AgeInv
  <2>1. d \in Device
    BY DeviceAssumption
  <2>2. s \/ l = d => now - send_ts =< AnswerMs + 2 * LoopMs
    BY <1>10, <2>1 DEF Calm
  <2>3. s \/ l = d => Waiting'
    <3>1. send_ts = request_ts + SendMs
      BY <1>2, <1>3 DEF ClockInv
    <3>2. ASSUME now - send_ts =< AnswerMs + 2 * LoopMs PROVE now - request_ts < Turn
      BY <1>3, <3>1, <3>2, Numbers
    <3>3. ASSUME now - request_ts < Turn PROVE Waiting'
      BY <1>1, <1>3, <3>3, Numbers DEF Waiting
    <3> QED BY <2>2, <3>2, <3>3
  <2>4. CASE l = d
    <3>1. first'[d] /\ answers[d] # 1
      BY <1>6, <1>7, <1>9, <2>1, <2>4 DEF ActiveInv
    <3>2. answers[d] = 0
      BY <1>6, <1>7, <2>4, <3>1
    <3>3. on_ts[d] = 0 /\ send_ts =< ts /\ ts \in Nat
      BY <1>2, <1>3, <2>1, <3>2, Numbers DEF ActiveInv, ClockInv
    <3>4. Since(d)' = ts
      BY <1>1, <3>3 DEF Since
    <3>5. request_ts + SendMs - ts =< 0 * Turn
      BY <1>2, <1>3, <3>3, Numbers DEF ClockInv
    <3>6. Polls(d, 0)'
      BY <1>1, <3>4, <3>5 DEF Polls
    <3>7. d # Other(d)
      BY <2>1, Devices
    <3> QED BY <2>3, <2>4, <3>6, <3>7
  <2>5. CASE l = Other(d)
    <3>1. l # d
      BY <2>1, <2>5, Devices
    <3>2. answers[d] = 1
      BY <1>6, <2>1, <3>1
    <3>3. Polls(d, 1)
      BY <1>2, <1>3, <1>10, <2>5, <3>2 DEF AgeInv
    <3>4. Polls(d, 1)'
      BY <1>1, <3>3 DEF Polls, Since
    <3>5. ~dev_error'[Other(d)] => s
      BY <1>6, <2>5
    <3> QED BY <2>3, <3>1, <3>4, <3>5
  <2> QED BY <1>3, <2>1, <2>4, <2>5, Devices
<1> QED BY <1>4, <1>5, <1>8, <1>9, <1>10 DEF TimesInv
-----------------------------------------------------------------------------
(* The other steps of the main loop.                                       *)

\* Steps that change neither a reading nor a time stamp.
LEMMA TimesKept ==
  ASSUME ReadingsInv,
         UNCHANGED <<now, busy, send_ts, last_request, request_ts, next_dev, dev_error>>,
         UNCHANGED readingVars,
         Sending' => Sending, Polled' => Polled,
         pc' \in {"serve", "routine"} => pc \in {"serve", "routine"},
         pc' = "serve" => pc = "serve", pc = "rest" => pc' \in {"rest", "hung"},
         pc' = "rest" /\ Idle => pc = "rest" \/ now - request_ts < PollInterval
  PROVE  /\ ClockInv' /\ ReadingsType' /\ ActiveInv'
         /\ \A d \in Healthy : AgeInv(d)'
<1>1. UNCHANGED <<ts, report, first, on_ts, answers, delayed>>
  BY DEF readingVars
<1>2. ClockInv /\ ReadingsType /\ ActiveInv /\ \A d \in Healthy : AgeInv(d)
  BY DEF ReadingsInv, TimesInv
<1>3. (Open' => Open) /\ (Idle' => Idle)
  BY DEF Open, Idle
<1>4. ClockInv'
  <2>1. Open' /\ pc' # "rest" => Open /\ pc # "rest"
    BY <1>3 DEF Open, Polled
  <2> QED BY <1>1, <1>2, <1>3, <2>1 DEF ClockInv
<1>5. ReadingsType'
  BY <1>1, <1>2 DEF ReadingsType
<1>6. ActiveInv'
  BY <1>1, <1>2 DEF ActiveInv
<1>7. Idle' /\ Waiting => Waiting'
  <2>1. TypeOK /\ PollInterval + LoopMs =< Turn /\ PollInterval =< Turn
    BY Numbers DEF ReadingsInv
  <2>2. Waiting => now - request_ts < Turn
    BY <2>1, Numbers DEF Waiting
  <2>3. UNCHANGED <<now, request_ts>>
    OBVIOUS
  <2> QED BY <1>3, <2>2, <2>3 DEF Waiting
<1>8. ASSUME NEW d \in Healthy PROVE AgeInv(d)'
  <2>1. \A n : Polls(d, n) <=> Polls(d, n)'
    BY <1>1 DEF Polls, Since
  <2>2. AgeInv(d)
    BY <1>2
  <2> QED BY <1>1, <1>3, <1>7, <2>1, <2>2, Zenon DEF AgeInv
<1> QED BY <1>4, <1>5, <1>6, <1>8

LEMMA NothingYetTimes ==
  ASSUME ReadingsInv, NothingYet, UNCHANGED readingVars
  PROVE  TimesInv'
<1>1. /\ pc = "routine" /\ pc' = "request"
      /\ UNCHANGED <<now, busy, send_ts, last_request, request_ts, next_dev, dev_error>>
      /\ UNCHANGED <<receive_buf, wire>>
      /\ busy => ~Complete /\ now - send_ts =< TimeoutMs
  BY DEF NothingYet, lineVars
<1>2. /\ ClockInv' /\ ReadingsType' /\ ActiveInv'
      /\ \A d \in Healthy : AgeInv(d)'
  BY <1>1, TimesKept DEF Sending, Polled
<1>3. LineInv /\ TypeOK
  BY DEF ReadingsInv, TimesInv
<1>4. Silent' = Silent /\ Late' = 0 /\ Late = 2 * LoopMs /\ Calm' = Calm
  BY <1>1 DEF Silent, Late, Calm, readingVars
<1>5. LineInv'
  <2>1. now' - send_ts' > AnswerMs => Silent'
    BY <1>1, <1>3, <1>4 DEF LineInv
  <2>2. ASSUME Open', Calm'
        PROVE  /\ now' - send_ts' =< TimeoutMs + Late'
               /\ now' - send_ts' > AnswerMs + Late' => Doomed'
               /\ last_request' \in Healthy =>
                     /\ Len(receive_buf') + Len(wire'[last_request']) >= AnswerLen
                     /\ now' - send_ts' =< AnswerMs + Late'
    <3>1. Open /\ Calm /\ busy /\ Len(receive_buf) < AnswerLen
      <4>1. busy /\ Open /\ Calm
        BY <1>1, <1>4, <2>2 DEF Open, Polled
      <4>2. Len(receive_buf) \in Nat
        BY <1>3 DEF TypeOK
      <4> QED BY <1>1, <4>1, <4>2, LengthAssumption DEF Complete
    <3>2. now' - send_ts' =< TimeoutMs + Late'
      BY <1>1, <1>3, <1>4, <3>1, Numbers
    <3>3. now' - send_ts' > AnswerMs + Late' => Doomed'
      <4>1. now' - send_ts' > AnswerMs + Late' => Silent'
        BY <1>1, <1>3, <1>4, <2>1, Numbers
      <4> QED BY <1>1, <3>1, <4>1 DEF Doomed
    <3>4. ASSUME last_request \in Healthy PROVE now - send_ts =< AnswerMs
      <4>1. Len(receive_buf) + Len(wire[last_request]) >= AnswerLen
        BY <1>3, <3>1, <3>4 DEF LineInv
      <4>2. ~Silent
        <5>1. ASSUME Silent PROVE Len(wire[last_request]) = 0
          BY <1>3, <5>1, Numbers DEF Silent
        <5>2. Len(receive_buf) \in Nat
          BY <1>3 DEF TypeOK
        <5> QED BY <3>1, <4>1, <5>1, <5>2, LengthAssumption
      <4> QED BY <1>3, <4>2, Numbers DEF LineInv
    <3>5. last_request \in Healthy => Len(receive_buf) + Len(wire[last_request]) >= AnswerLen
      BY <1>3, <3>1 DEF LineInv
    <3>6. AnswerMs + Late' = AnswerMs
      BY <1>4, TimeAssumption
    <3> QED BY <1>1, <3>2, <3>3, <3>4, <3>5, <3>6
  <2> QED BY <2>1, <2>2 DEF LineInv
<1> QED BY <1>2, <1>5 DEF TimesInv

LEMMA RequestTimes ==
  ASSUME ReadingsInv, TypeOK', Request, UNCHANGED readingVars
  PROVE  TimesInv'
<1>1. /\ pc = "request"
      /\ UNCHANGED <<now, send_ts, last_request, next_dev, dev_error, receive_buf, wire>>
      /\ UNCHANGED <<ts, report, first, on_ts, answers, delayed>>
  BY DEF Request, lineVars, readingVars
<1>2. /\ TypeOK /\ LineInv /\ ClockInv /\ ReadingsType /\ ActiveInv
      /\ \A d \in Healthy : AgeInv(d)
  BY DEF ReadingsInv, TimesInv
<1>3. Silent' = Silent /\ Calm' = Calm
  BY <1>1 DEF Silent, Calm
<1>4. CASE DueForPoll
  <2>1. request_ts' = now /\ busy' = TRUE /\ pc' = "clear" /\ ~busy
    BY <1>4 DEF Request, DueForPoll
  <2>2. Sending' /\ ~Open' /\ ~Idle' /\ Idle
    BY <1>1, <2>1 DEF Sending, Open, Idle, Polled
  <2>3. LineInv'
    BY <1>1, <1>2, <1>3, <2>2 DEF LineInv
  <2>4. ClockInv'
    BY <1>1, <1>2, <2>1, <2>2 DEF ClockInv
  <2>5. ReadingsType' /\ ActiveInv'
    BY <1>1, <1>2, <2>1 DEF ReadingsType, ActiveInv
  <2>6. ASSUME NEW d \in Healthy PROVE AgeInv(d)'
    <3>1. d \in Device /\ Since(d)' = Since(d) /\ Since(d) \in Nat
      <4>1. d \in Device
        BY DeviceAssumption
      <4> QED BY <1>1, <1>2, <4>1, SinceType DEF Since
    <3>2. Waiting => now - request_ts < Turn
      BY <1>1, <1>2, Numbers DEF Waiting
    <3>3. Waiting /\ Polls(d, 0) => Polls(d, 1)'
      BY <1>2, <2>1, <3>1, <3>2, Numbers DEF Polls
    <3>4. Waiting /\ Polls(d, 1) => Polls(d, 2)'
      BY <1>2, <2>1, <3>1, <3>2, Numbers DEF Polls
    <3>5. AgeInv(d)
      BY <1>2
    <3> QED BY <1>1, <2>2, <3>3, <3>4, <3>5, Zenon DEF AgeInv
  <2> QED BY <2>3, <2>4, <2>5, <2>6 DEF TimesInv
<1>5. CASE ~DueForPoll
  <2>1. request_ts' = request_ts /\ busy' = busy /\ pc' = "rest"
    BY <1>5 DEF Request
  <2>2. Idle => now - request_ts < PollInterval
    BY <1>2, <1>5, Numbers DEF DueForPoll, Idle
  <2>3. /\ ClockInv' /\ ReadingsType' /\ ActiveInv'
        /\ \A d \in Healthy : AgeInv(d)'
    BY <1>1, <2>1, <2>2, TimesKept DEF Sending, Polled
  <2>4. Late' = Late /\ Open' = Open /\ Doomed' = Doomed
    BY <1>1, <1>3, <2>1 DEF Late, Open, Polled, Doomed
  <2>5. LineInv'
    BY <1>1, <1>2, <1>3, <2>4 DEF LineInv
  <2> QED BY <2>3, <2>5 DEF TimesInv
<1> QED BY <1>4, <1>5

LEMMA ClearTimes ==
  ASSUME ReadingsInv, Clear \/ Wipe, UNCHANGED readingVars
  PROVE  TimesInv'
<1>1. /\ Sending /\ Sending' /\ ~Polled' /\ pc' \notin {"rest", "serve", "routine", "hung"}
      /\ pc # "rest"
      /\ UNCHANGED <<now, busy, send_ts, last_request, request_ts, next_dev, dev_error, wire>>
  BY DEF Clear, Wipe, Sending, Polled
<1>2. /\ ClockInv' /\ ReadingsType' /\ ActiveInv'
      /\ \A d \in Healthy : AgeInv(d)'
  BY <1>1, TimesKept
<1>3. LineInv'
  <2>1. ~Open' /\ Silent' = Silent
    BY <1>1 DEF Open, Silent
  <2>2. LineInv
    BY DEF ReadingsInv, TimesInv
  <2> QED BY <1>1, <2>1, <2>2 DEF LineInv
<1> QED BY <1>2, <1>3 DEF TimesInv

LEMMA WriteTimes ==
  ASSUME ReadingsInv, TypeOK', Write, Measure
  PROVE  TimesInv'
<1>1. /\ pc = "write" /\ pc' = "rest" /\ now' = now + SendMs /\ send_ts' = now'
      /\ last_request' = next_dev /\ next_dev' = Other(next_dev)
      /\ UNCHANGED <<busy, request_ts, dev_error>>
      /\ UNCHANGED <<ts, first, on_ts, answers>>
      /\ delayed' = [delayed EXCEPT ![next_dev] = @ /\ answers[next_dev] # 0]
  BY DEF Write, Measure
<1>2. /\ TypeOK /\ LineInv /\ ClockInv /\ ReadingsType /\ ActiveInv
      /\ \A d \in Healthy : AgeInv(d)
  BY DEF ReadingsInv, TimesInv
<1>3. Sending /\ ~Sending' /\ Open' /\ ~Idle' /\ Late' = 0
  BY <1>1, <1>2 DEF Sending, Open, Idle, Polled, Late, ClockInv
<1>4. now' - send_ts' = 0 /\ now' \in Nat
  BY <1>1, <1>2, Numbers
<1>5. LineInv'
  <2>1. ASSUME next_dev \in Healthy
        PROVE  Len(receive_buf') + Len(wire'[next_dev]) >= AnswerLen
    <3>1. wire'[next_dev] = Answer(next_dev)
      BY <1>2, <2>1 DEF Write, Receives, TypeOK
    <3>2. Len(wire'[next_dev]) = AnswerLen
      BY <1>2, <3>1, AnswerType, Numbers
    <3>3. Len(receive_buf') \in Nat
      BY DEF TypeOK
    <3> QED BY <3>2, <3>3, LengthAssumption
  <2> QED BY <1>1, <1>3, <1>4, <2>1, TimeAssumption DEF LineInv
<1>6. now >= 1 /\ request_ts = now
  BY <1>1, <1>2, <1>3, Numbers DEF ClockInv
<1>7. ClockInv'
  <2>1. ts \in 1 .. now
    BY <1>2 DEF ClockInv
  <2>2. now \in Nat /\ SendMs \in Nat /\ send_ts' = now + SendMs /\ now' = now + SendMs
    BY <1>1, <1>2, Numbers
  <2>3. ts' \in 1 .. now' /\ send_ts' >= 1
    BY <1>1, <1>6, <2>1, <2>2
  <2> QED BY <1>1, <1>2, <1>3, <1>6, <2>2, <2>3 DEF ClockInv
<1>8. ReadingsType'
  <2>1. report' \in [Device -> BOOLEAN]
    <3>1. PICK b \in BOOLEAN : report' = [report EXCEPT ![next_dev] = b]
      BY DEF Measure
    <3> QED BY <1>2, <3>1 DEF ReadingsType
  <2>2. delayed' \in [Device -> BOOLEAN]
    BY <1>1, <1>2 DEF ReadingsType
  <2> QED BY <1>1, <1>2, <2>1, <2>2 DEF ReadingsType
<1>9. send_ts' >= 1
  BY <1>7, <1>3 DEF ClockInv
<1>10. ActiveInv'
  BY <1>1, <1>2, <1>9 DEF ActiveInv
<1>11. ASSUME NEW d \in Healthy PROVE AgeInv(d)'
  <2>1. d \in Device /\ Other(d) \in Device /\ Other(d) # d /\ Other(Other(d)) = d
    BY DeviceAssumption DEF Device, Other
  <2>2. \A n : Polls(d, n) <=> Polls(d, n)'
    BY <1>1 DEF Polls, Since
  <2>3. answers[d] = 1 => last_request' = Other(last_request)
    BY <1>1, <1>2, <2>1 DEF ActiveInv, ClockInv
  <2>4. last_request = d \/ last_request = Other(d)
    BY <1>2, <2>1, Devices, Numbers
  <2>5. AgeInv(d)
    BY <1>2
  <2>6. answers'[d] = answers[d] /\ dev_error'[Other(d)] = dev_error[Other(d)]
    BY <1>1
  <2>10. answers[d] = 1 /\ ~delayed'[d] => ~delayed[d]
    <3>1. CASE d = next_dev
      BY <1>1, <1>2, <2>1, <3>1 DEF ReadingsType
    <3>2. CASE d # next_dev
      BY <1>1, <1>2, <2>1, <3>2 DEF ReadingsType
    <3> QED BY <3>1, <3>2
  <2>7. answers[d] = 1 /\ ~delayed[d] /\ last_request = d =>
            Polls(d, 1) /\ last_request' = Other(d)
    BY <1>3, <2>3, <2>5, Zenon DEF AgeInv
  <2>8. answers[d] = 1 /\ ~delayed[d] /\ last_request = Other(d) /\ ~dev_error[Other(d)] =>
            Polls(d, 2) /\ last_request' = d
    BY <1>3, <2>1, <2>3, <2>5, Zenon DEF AgeInv
  <2>9. answers[d] = 1 /\ last_request = Other(d) => last_request' = d
    BY <2>1, <2>3
  <2> QED BY <1>3, <2>1, <2>2, <2>4, <2>6, <2>7, <2>8, <2>9, <2>10, Zenon DEF AgeInv
<1> QED BY <1>5, <1>7, <1>8, <1>10, <1>11 DEF TimesInv

\* When an answer should be over, nothing of it is on the wire.
LEMMA InTime ==
  ASSUME Slow = {}, TypeOK, TypeOK', OnTime
  PROVE  now' - send_ts > AnswerMs => Silent'
<1>1. \A d \in Device : wire'[d] # << >> => now' - send_ts =< AnswerMs
  BY DEF OnTime
<1>2. now' - send_ts \in Int /\ AnswerMs \in Nat
  <2>1. now' \in Nat
    BY DEF TypeOK
  <2>2. send_ts \in Nat /\ AnswerMs \in Nat
    BY Numbers
  <2> QED BY <2>1, <2>2
<1>3. ASSUME now' - send_ts > AnswerMs, NEW d \in Device PROVE wire'[d] = << >>
  BY <1>1, <1>2, <1>3
<1> QED BY <1>3, Zenon DEF Silent

LEMMA RestTimes ==
  ASSUME Slow = {}, ReadingsInv, TypeOK', Rest, Confirm
  PROVE  TimesInv'
<1>1. /\ pc = "rest" /\ pc' = "serve" /\ ts' = now'
      /\ UNCHANGED <<busy, send_ts, last_request, request_ts, next_dev, dev_error>>
      /\ UNCHANGED <<receive_buf, wire, report, first, answers, delayed>>
  BY DEF Rest, Pass, Confirm, lineVars
<1>2. /\ TypeOK /\ LineInv /\ ClockInv /\ ReadingsType /\ ActiveInv
      /\ \A d \in Healthy : AgeInv(d)
  BY DEF ReadingsInv, TimesInv
<1>10. now' \in Nat /\ now =< now' /\ now' =< now + LoopMs
  BY <1>2, Numbers DEF Rest, Pass
<1>3. /\ ~Sending' /\ ~Sending /\ (Open' <=> Open) /\ (Idle' <=> Idle)
      /\ Late' = LoopMs /\ Late = 0 /\ (Silent' <=> Silent) /\ (Doomed' <=> Doomed)
      /\ (Calm' <=> Calm)
  <2>1. ~Sending' /\ ~Sending /\ (Open' <=> Open) /\ (Idle' <=> Idle)
    BY <1>1 DEF Sending, Open, Idle, Polled
  <2>2. Late' = LoopMs /\ Late = 0 /\ (Calm' <=> Calm)
    BY <1>1 DEF Late, Calm
  <2>3. Silent' <=> Silent
    BY <1>1 DEF Silent
  <2>4. Doomed' <=> Doomed
    BY <1>1, <2>3, Zenon DEF Doomed
  <2> QED BY <2>1, <2>2, <2>3, <2>4
<1>4. LineInv'
  <2>1. now' - send_ts > AnswerMs => Silent'
    BY InTime DEF Rest, Pass, ReadingsInv
  <2>2. ASSUME Open, Calm
        PROVE  /\ now' - send_ts =< TimeoutMs + LoopMs
               /\ now' - send_ts > AnswerMs + LoopMs => Doomed
               /\ last_request \in Healthy => now' - send_ts =< AnswerMs + LoopMs
    <3>1. /\ now - send_ts =< TimeoutMs + 0
          /\ now - send_ts > AnswerMs + 0 => Doomed
          /\ last_request \in Healthy => now - send_ts =< AnswerMs + 0
      BY <1>2, <1>3, <2>2 DEF LineInv
    <3>2. /\ now - send_ts \in Int /\ now' - send_ts =< now - send_ts + LoopMs
          /\ now' - send_ts \in Int
      BY <1>2, <1>10, Numbers
    <3>3. TimeoutMs \in Nat /\ AnswerMs \in Nat /\ LoopMs \in Nat
      BY <1>2, Numbers
    <3> QED BY <3>1, <3>2, <3>3
  <2>3. Open /\ Calm /\ last_request \in Healthy =>
            Len(receive_buf) + Len(wire[last_request]) >= AnswerLen
    BY <1>2 DEF LineInv
  <2> QED BY <1>1, <1>3, <2>1, <2>2, <2>3 DEF LineInv
<1>5. ClockInv'
  <2>1. ts' \in 1 .. now' /\ send_ts =< ts'
    BY <1>1, <1>2, <1>10, Numbers DEF ClockInv
  <2> QED BY <1>1, <1>2, <1>3, <2>1 DEF ClockInv
<1>6. /\ on_ts' \in [Device -> Nat]
      /\ \A d \in Device : /\ first[d] => on_ts'[d] = Since(d) /\ Since(d)' = Since(d)
                           /\ on_ts'[d] = 0 <=> ~first[d]
  <2>1. on_ts' = [d \in Device |-> IF ~first[d] THEN 0
                                   ELSE IF on_ts[d] = 0 THEN ts ELSE on_ts[d]]
    BY DEF Confirm
  <2>2. \A d \in Device : on_ts'[d] = IF ~first[d] THEN 0 ELSE Since(d)
    BY <2>1 DEF Since
  <2>3. \A d \in Device : Since(d) \in Nat /\ Since(d) # 0
    BY <1>2, SinceType
  <2>4. on_ts' \in [Device -> Nat]
    <3>1. on_ts' = [d \in Device |-> IF ~first[d] THEN 0 ELSE Since(d)]
      BY <2>1, Zenon DEF Since
    <3> QED BY <2>3, <3>1
  <2> QED BY <2>2, <2>3, <2>4 DEF Since
<1>7. ReadingsType'
  BY <1>1, <1>2, <1>6 DEF ReadingsType
<1>8. ActiveInv'
  BY <1>1, <1>2, <1>6 DEF ActiveInv
<1>9. ASSUME NEW d \in Healthy PROVE AgeInv(d)'
  <2> SUFFICES ASSUME answers[d] = 1, ~delayed[d] PROVE AgeInv(d)'
    BY <1>1 DEF AgeInv
  <2>1. d \in Device
    BY DeviceAssumption
  <2>2. Since(d)' = Since(d)
    <3>1. first[d]
      BY <1>2, <2>1 DEF ActiveInv
    <3> QED BY <1>6, <2>1, <3>1
  <2>3. \A n : Polls(d, n) <=> Polls(d, n)'
    BY <1>1, <2>2 DEF Polls
  <2>4. Waiting => Waiting'
    BY <1>1, <1>2, <1>10, Numbers DEF Waiting
  <2>5. AgeInv(d)
    BY <1>2
  <2> QED BY <1>1, <1>3, <2>3, <2>4, <2>5, Zenon DEF AgeInv
<1> QED BY <1>4, <1>5, <1>7, <1>8, <1>9 DEF TimesInv

LEMMA ServeTimes ==
  ASSUME Slow = {}, ReadingsInv, TypeOK', Serve, UNCHANGED readingVars
  PROVE  TimesInv'
<1>1. /\ pc = "serve" /\ pc' = "routine"
      /\ UNCHANGED <<busy, send_ts, last_request, request_ts, next_dev, dev_error>>
      /\ UNCHANGED <<receive_buf, wire, ts, report, first, on_ts, answers, delayed>>
  BY DEF Serve, Pass, readingVars, lineVars
<1>2. /\ TypeOK /\ LineInv /\ ClockInv /\ ReadingsType /\ ActiveInv
      /\ \A d \in Healthy : AgeInv(d)
  BY DEF ReadingsInv, TimesInv
<1>3. now' \in Nat /\ now =< now' /\ now' =< now + LoopMs
  BY <1>2, Numbers DEF Serve, Pass
<1>4. /\ ~Sending' /\ ~Sending /\ (Open' <=> Open) /\ (Idle' <=> Idle)
      /\ Late' = 2 * LoopMs /\ Late = LoopMs /\ (Calm' <=> Calm) /\ (Doomed' <=> Doomed)
  <2>1. ~Sending' /\ ~Sending /\ (Open' <=> Open) /\ (Idle' <=> Idle)
    BY <1>1 DEF Sending, Open, Idle, Polled
  <2>2. Late' = 2 * LoopMs /\ Late = LoopMs /\ (Calm' <=> Calm)
    BY <1>1 DEF Late, Calm
  <2>3. Doomed' <=> Doomed
    BY <1>1, Zenon DEF Doomed, Silent
  <2> QED BY <2>1, <2>2, <2>3
<1>5. LineInv'
  <2>1. now' - send_ts > AnswerMs => Silent'
    BY InTime DEF Serve, Pass, ReadingsInv
  <2>2. ASSUME Open, Calm
        PROVE  /\ now' - send_ts =< TimeoutMs + 2 * LoopMs
               /\ now' - send_ts > AnswerMs + 2 * LoopMs => Doomed
               /\ last_request \in Healthy => now' - send_ts =< AnswerMs + 2 * LoopMs
    <3>1. /\ now - send_ts =< TimeoutMs + LoopMs
          /\ now - send_ts > AnswerMs + LoopMs => Doomed
          /\ last_request \in Healthy => now - send_ts =< AnswerMs + LoopMs
      BY <1>2, <1>4, <2>2 DEF LineInv
    <3>2. /\ now - send_ts \in Int /\ now' - send_ts =< now - send_ts + LoopMs
          /\ now' - send_ts \in Int
      BY <1>2, <1>3, Numbers
    <3>3. TimeoutMs \in Nat /\ AnswerMs \in Nat /\ LoopMs \in Nat
      BY <1>2, Numbers
    <3> QED BY <3>1, <3>2, <3>3
  <2>3. Open /\ Calm /\ last_request \in Healthy =>
            Len(receive_buf) + Len(wire[last_request]) >= AnswerLen
    BY <1>2 DEF LineInv
  <2> QED BY <1>1, <1>4, <2>1, <2>2, <2>3 DEF LineInv
<1>6. ClockInv'
  <2>1. ts' \in 1 .. now'
    BY <1>1, <1>2, <1>3, Numbers DEF ClockInv
  <2> QED BY <1>1, <1>2, <1>4, <2>1 DEF ClockInv
<1>7. ReadingsType' /\ ActiveInv'
  BY <1>1, <1>2 DEF ReadingsType, ActiveInv
<1>8. ASSUME NEW d \in Healthy PROVE AgeInv(d)'
  <2>1. \A n : Polls(d, n) <=> Polls(d, n)'
    BY <1>1 DEF Polls, Since
  <2>2. Waiting => Waiting'
    BY <1>1, <1>2, <1>3, Numbers DEF Waiting
  <2>3. AgeInv(d)
    BY <1>2
  <2> QED BY <1>1, <1>4, <2>1, <2>2, <2>3, Zenon DEF AgeInv
<1> QED BY <1>5, <1>6, <1>7, <1>8 DEF TimesInv

\* While the main loop is held up nothing is known of the times but what the
\* devices keep to.
LEMMA HeldUpTimes ==
  ASSUME Slow = {}, ReadingsInv, TypeOK', HeldUp, Delay
  PROVE  TimesInv'
<1>1. /\ UNCHANGED <<pc, busy, send_ts, last_request, request_ts, next_dev, ts>>
      /\ UNCHANGED <<report, first, on_ts, answers>>
      /\ delayed' = [d \in Device |-> TRUE]
      /\ pc \in {"serve", "rest"}
  BY DEF HeldUp, Delay
<1>2. TypeOK /\ ClockInv /\ ReadingsType /\ ActiveInv
  BY DEF ReadingsInv, TimesInv
<1>3. now' \in Nat /\ now =< now'
  <2>1. PICK t \in 1 .. HeldUpMs : now' = now + t
    BY DEF HeldUp
  <2> QED BY <1>2, <2>1, Numbers, HoldUpAssumption
<1>4. ~Calm' /\ ~Sending' /\ (Open' <=> Open)
  BY <1>1 DEF Calm, Sending, Open, Polled
<1>5. LineInv'
  <2>1. now' - send_ts > AnswerMs => Silent'
    BY <1>2, InTime DEF HeldUp
  <2> QED BY <1>1, <1>4, <2>1 DEF LineInv
<1>6. ClockInv'
  <2>1. ts' \in 1 .. now'
    BY <1>1, <1>2, <1>3, Numbers DEF ClockInv
  <2> QED BY <1>1, <1>2, <1>4, <2>1 DEF ClockInv
<1>7. ReadingsType' /\ ActiveInv'
  BY <1>1, <1>2 DEF ReadingsType, ActiveInv
<1>8. \A d \in Healthy : AgeInv(d)'
  BY <1>1, DeviceAssumption DEF AgeInv
<1> QED BY <1>5, <1>6, <1>7, <1>8 DEF TimesInv
-----------------------------------------------------------------------------
(* The line.                                                               *)

\* A byte of d, or a stray one, is received.
LEMMA LineTimes ==
  ASSUME ReadingsInv, TypeOK', Noise \/ \E d \in Device : Arrive(d), UNCHANGED readingVars
  PROVE  TimesInv'
<1>1. /\ UNCHANGED <<now, busy, send_ts, last_request, request_ts, next_dev, dev_error>>
      /\ pc' = pc \/ pc' = "hung"
      /\ pc # "hung"
  BY DEF Noise, Arrive, Irq
<1>2. /\ ClockInv' /\ ReadingsType' /\ ActiveInv'
      /\ \A d \in Healthy : AgeInv(d)'
  BY <1>1, TimesKept DEF Sending, Polled
<1>3. TypeOK /\ LineInv /\ \A d \in Device : wire[d] \in Seq(Byte)
  BY DEF ReadingsInv, TimesInv, TypeOK
<1>4. Silent => Silent' /\ Noise
  <2>1. CASE Noise
    BY <2>1 DEF Noise, Silent
  <2>2. CASE \E d \in Device : Arrive(d)
    BY <2>2 DEF Arrive, Silent
  <2> QED BY <2>1, <2>2
<1>9. Calm' <=> Calm
  BY DEF Calm, readingVars
<1>5. CASE pc' = "hung"
  <2>1. ~Open'
    BY <1>5 DEF Open, Polled
  <2> QED BY <1>1, <1>2, <1>3, <1>4, <2>1 DEF TimesInv, LineInv
<1>6. CASE pc' = pc
  <2>1. Len(receive_buf) < BufSize /\ receive_buf \in Seq(Byte)
    BY <1>1, <1>3, <1>6 DEF Noise, Arrive, Irq, TypeOK
  <2>2. Late' = Late /\ (Open' <=> Open)
    BY <1>1, <1>6 DEF Late, Open, Polled
  <2>3. Doomed => Doomed'
    <3> SUFFICES ASSUME Doomed PROVE Doomed'
      OBVIOUS
    <3>1. Silent' /\ Noise
      BY <1>4 DEF Doomed
    <3>2. receive_buf' = Append(receive_buf, Stray)
      BY <2>1, <3>1 DEF Noise, Irq
    <3> DEFINE n == Len(receive_buf)
    <3>3. /\ n \in Nat /\ Len(receive_buf') = n + 1
          /\ receive_buf'[n + 1] = Stray
          /\ \A i \in 1 .. n : receive_buf'[i] = receive_buf[i]
      BY <2>1, <3>2
    <3>4. CASE n + 1 < AnswerLen
      BY <3>1, <3>3, <3>4 DEF Doomed
    <3>5. CASE n < AnswerLen /\ ~(n + 1 < AnswerLen)
      <4>1. n + 1 \in 1 .. AnswerLen
        BY <3>3, <3>5, LengthAssumption
      <4> QED BY <3>1, <3>3, <4>1 DEF Doomed
    <3>6. CASE ~(n < AnswerLen)
      <4>1. PICK i \in 1 .. AnswerLen : receive_buf[i] = Stray
        BY <3>6 DEF Doomed
      <4>2. i \in 1 .. n
        BY <3>3, <3>6, LengthAssumption
      <4> QED BY <3>1, <3>3, <4>1, <4>2 DEF Doomed
    <3> QED BY <3>4, <3>5, <3>6
  <2>4. Len(receive_buf) + Len(wire[last_request]) >= AnswerLen =>
            Len(receive_buf') + Len(wire'[last_request]) >= AnswerLen
    <3> DEFINE k == Len(receive_buf)
               l == Len(wire[last_request])
               b == Len(receive_buf')
               w == Len(wire'[last_request])
    <3>1. k \in Nat /\ l \in Nat /\ last_request \in Device
      BY <1>3, <2>1, Numbers
    <3>2. b = k + 1
      BY <2>1 DEF Noise, Arrive, Irq
    <3>3. w = l \/ w = l - 1
      <4>1. CASE Noise
        BY <4>1 DEF Noise
      <4>2. ASSUME NEW d \in Device, Arrive(d) PROVE w = l \/ w = l - 1
        <5>1. CASE d = last_request
          <6>1. /\ wire[d] \in Seq(Byte) /\ wire[d] # << >>
                /\ wire'[d] = Tail(wire[d])
            BY <1>3, <4>2 DEF Arrive, TypeOK
          <6>2. Len(wire'[d]) = Len(wire[d]) - 1
            BY <6>1
          <6> QED BY <5>1, <6>2
        <5>2. CASE d # last_request
          BY <1>3, <4>2, <5>2 DEF Arrive, TypeOK
        <5> QED BY <5>1, <5>2
      <4> QED BY <4>1, <4>2
    <3> HIDE DEF k, l, b, w
    <3>4. AnswerLen \in Nat
      BY LengthAssumption
    <3>5. k + l >= AnswerLen => b + w >= AnswerLen
      BY <3>1, <3>2, <3>3, <3>4
    <3> QED BY <3>5 DEF k, l, b, w
  <2>5. LineInv'
    BY <1>1, <1>3, <1>4, <1>9, <2>2, <2>3, <2>4 DEF LineInv
  <2> QED BY <1>2, <2>5 DEF TimesInv
<1> QED BY <1>1, <1>5, <1>6

LEMMA RestartTimes ==
  ASSUME Watchdog, Restarted
  PROVE  TimesInv'
<1>1. /\ pc' = "serve" /\ now' = 1 /\ busy' = FALSE /\ send_ts' = 0 /\ ts' = 1
      /\ wire' = [d \in Device |-> << >>]
      /\ report' = [d \in Device |-> FALSE]
      /\ first' = [d \in Device |-> FALSE]
      /\ on_ts' = [d \in Device |-> 0]
      /\ answers' = [d \in Device |-> 0]
      /\ delayed' = [d \in Device |-> FALSE]
  BY DEF Watchdog, Restarted
<1>2. Silent' /\ ~Open' /\ ~Sending'
  BY <1>1 DEF Silent, Open, Sending
<1>3. LineInv'
  BY <1>2 DEF LineInv
<1>4. ClockInv'
  BY <1>1, <1>2 DEF ClockInv
<1>5. ReadingsType' /\ ActiveInv'
  BY <1>1 DEF ReadingsType, ActiveInv
<1>6. \A d \in Healthy : AgeInv(d)'
  BY <1>1, DeviceAssumption DEF AgeInv
<1> QED BY <1>3, <1>4, <1>5, <1>6 DEF TimesInv

LEMMA ReadingsStep ==
  ASSUME Slow = {}, SendMs + AnswerMs < PollInterval,
         ReadingsInv, [ReadingsNext]_<<vars, readingVars>>
  PROVE  ReadingsInv'
<1>1. [Next]_vars
  BY Zenon DEF ReadingsNext, ReadingsLoop, Next, Loop
<1>2. TypeOK'
  BY <1>1, NextType DEF ReadingsInv
<1>3. CASE Decode /\ Note(Accepted)
  <2>1. Accepted \in BOOLEAN
    BY DEF Accepted
  <2>2. pc = "routine" /\ busy /\ Conclude(Accepted)
    BY <1>3 DEF Decode
  <2>3. Calm /\ (Accepted \/ last_request \in Healthy) =>
            now - send_ts =< AnswerMs + 2 * LoopMs
    BY <1>3, SuccessInTime
  <2> QED BY <1>2, <1>3, <2>1, <2>2, <2>3, ConcludeTimes DEF ReadingsInv
<1>4. CASE Timeout /\ Note(FALSE)
  <2>1. pc = "routine" /\ busy /\ Conclude(FALSE)
    BY <1>4 DEF Timeout
  <2>2. Calm /\ last_request \in Healthy => now - send_ts =< AnswerMs + 2 * LoopMs
    <3>1. Open /\ Late = 2 * LoopMs
      BY <2>1 DEF Open, Polled, Late
    <3> QED BY <3>1 DEF ReadingsInv, TimesInv, LineInv
  <2> QED BY <1>2, <1>4, <2>1, <2>2, ConcludeTimes DEF ReadingsInv
<1>5. CASE Write /\ Measure
  BY <1>2, <1>5, WriteTimes DEF ReadingsInv
<1>6. CASE Rest /\ Confirm
  BY <1>2, <1>6, RestTimes DEF ReadingsInv
<1>7. CASE (Serve \/ NothingYet \/ Request \/ Clear \/ Wipe) /\ UNCHANGED readingVars
  BY <1>2, <1>7, ServeTimes, NothingYetTimes, RequestTimes, ClearTimes DEF ReadingsInv
<1>11. CASE HeldUp /\ Delay
  BY <1>2, <1>11, HeldUpTimes DEF ReadingsInv
<1>8. CASE Watchdog /\ Restarted
  BY <1>2, <1>8, RestartTimes DEF ReadingsInv
<1>9. CASE (Noise \/ \E d \in Device : Arrive(d)) /\ UNCHANGED readingVars
  BY <1>2, <1>9, LineTimes DEF ReadingsInv
<1>10. CASE UNCHANGED <<vars, readingVars>>
  <2>1. UNCHANGED vars /\ UNCHANGED readingVars
    BY <1>10, Zenon
  <2>2. /\ UNCHANGED <<now, busy, send_ts, last_request, request_ts, next_dev, dev_error>>
        /\ pc' = pc /\ wire' = wire /\ receive_buf' = receive_buf
    BY <2>1 DEF vars, masterVars, lineVars
  <2>3. /\ ClockInv' /\ ReadingsType' /\ ActiveInv'
        /\ \A d \in Healthy : AgeInv(d)'
    BY <2>1, <2>2, TimesKept DEF Sending, Polled
  <2>4. LineInv'
    BY <2>1, <2>2 DEF ReadingsInv, TimesInv, LineInv, Open, Polled, Late, Calm, Doomed, Silent,
                      readingVars
  <2> QED BY <1>2, <2>3, <2>4 DEF ReadingsInv, TimesInv
<1> QED BY <1>3, <1>4, <1>5, <1>6, <1>7, <1>8, <1>9, <1>10, <1>11, Zenon
        DEF ReadingsNext, ReadingsLoop

\* One reading alone is not confirmed: before the time is over the device has
\* answered again, or the request to the other one has failed.
LEMMA NotConfirmedYet ==
  ASSUME Turn + TimeoutMs < ConfirmMs, 2 * Turn + AnswerMs < ConfirmMs,
         ReadingsInv, NEW d \in Healthy, pc = "rest", answers[d] = 1, ~delayed[d],
         ~dev_error[Other(d)]
  PROVE  ts - Since(d) < ConfirmMs
<1>1. /\ TypeOK /\ LineInv /\ ClockInv /\ ReadingsType /\ AgeInv(d) /\ d \in Device
  BY DeviceAssumption DEF ReadingsInv, TimesInv
<1>2. Since(d) \in Nat /\ ts \in Nat /\ ts =< now /\ ConfirmMs \in Nat
  BY <1>1, SinceType, Numbers, ConfirmAssumption DEF ClockInv
<1>7. Calm
  BY <1>1 DEF Calm
<1>3. Late = 0 /\ (Open <=> busy) /\ (Idle <=> ~busy)
  BY DEF Late, Open, Idle, Polled
<1>4. CASE Idle
  <2>1. Waiting /\ (Polls(d, 0) \/ Polls(d, 1))
    BY <1>1, <1>4, Devices, Numbers DEF AgeInv
  <2>2. now - request_ts < PollInterval
    BY <2>1 DEF Waiting
  <2>3. request_ts + SendMs - Since(d) =< Turn
    BY <1>1, <1>2, <2>1, Numbers DEF Polls
  <2> QED BY <1>1, <1>2, <2>2, <2>3, Numbers
<1>5. CASE Open /\ last_request = Other(d)
  <2>1. Polls(d, 1) /\ now - send_ts =< TimeoutMs + Late /\ send_ts = request_ts + SendMs
    BY <1>1, <1>5, <1>7 DEF AgeInv, LineInv, ClockInv
  <2>2. send_ts - Since(d) =< Turn
    BY <1>1, <1>2, <2>1, Numbers DEF Polls
  <2> QED BY <1>1, <1>2, <1>3, <2>1, <2>2, Numbers
<1>6. CASE Open /\ last_request = d
  <2>1. /\ Polls(d, 2) /\ now - send_ts =< AnswerMs + Late
        /\ send_ts = request_ts + SendMs
    BY <1>1, <1>6, <1>7 DEF AgeInv, LineInv, ClockInv
  <2>2. send_ts - Since(d) =< 2 * Turn
    BY <1>1, <1>2, <2>1, Numbers DEF Polls
  <2> QED BY <1>1, <1>2, <1>3, <2>1, <2>2, Numbers
<1> QED BY <1>1, <1>3, <1>4, <1>5, <1>6, Devices, Numbers

\* No emergency light comes on for one reading alone, unless the request to the
\* other device failed or the main loop was held up, if no device answers after its
\* timeout, every answer comes before the next poll, and two turns of polling, or one
\* and a timeout, are shorter than EMERGENCY_CONFIRM_MS.  In the code a turn is 40 ms
\* and twice what the main loop takes outside the routine, the timeout 100 ms, and
\* 150 ms leave room for 2 * 4 ms (main.c 27, 122-166, 332-343, stairway_sensors.c 14,
\* 75, 84, 101-118).
THEOREM OneAnswerNeverConfirms ==
  ASSUME Slow = {}, SendMs + AnswerMs < PollInterval,
         Turn + TimeoutMs < ConfirmMs, 2 * Turn + AnswerMs < ConfirmMs
  PROVE  ReadingsSpec => OneAnswerIsNotEnough
<1> DEFINE Step == \A d \in Healthy : Confirms(d) /\ pc' = "serve" =>
                       answers[d] = 2 \/ dev_error[Other(d)] \/ delayed[d]
<1>1. ReadingsInit => ReadingsInv
  BY ReadingsInitInv
<1>2. ReadingsInv /\ [ReadingsNext]_<<vars, readingVars>> => ReadingsInv'
  BY ReadingsStep
<1>3. ASSUME ReadingsInv, ReadingsNext, NEW d \in Healthy, Confirms(d), pc' = "serve",
             answers[d] # 2, ~dev_error[Other(d)], ~delayed[d]
      PROVE  FALSE
  <2>1. Confirm /\ pc = "rest"
    BY <1>3 DEF Confirms, ReadingsNext, ReadingsLoop, Decode, Timeout, NothingYet, Request, Clear,
                Wipe, Write, Serve, Pass, HeldUp, Watchdog, Noise, Arrive, Irq
  <2>2. d \in Device /\ first[d]
    BY <1>3, DeviceAssumption DEF Confirms
  <2>3. answers[d] = 1
    BY <1>3, <2>2 DEF ReadingsInv, TimesInv, ReadingsType, ActiveInv
  <2>4. on_ts'[d] = Since(d)
    BY <2>1, <2>2 DEF Confirm, Since
  <2>5. ts - Since(d) < ConfirmMs
    BY <1>3, <2>1, <2>3, NotConfirmedYet
  <2>6. ts - Since(d) >= ConfirmMs
    BY <1>3, <2>4 DEF Confirms, LongEnough
  <2>7. Since(d) \in Nat /\ ts \in Nat /\ ConfirmMs \in Nat
    BY <1>3, <2>2, SinceType, Numbers, ConfirmAssumption DEF ReadingsInv, TimesInv, ClockInv
  <2> QED BY <2>5, <2>6, <2>7
<1>4. ReadingsInv /\ [ReadingsNext]_<<vars, readingVars>> => [Step]_<<vars, readingVars>>
  BY <1>3
<1> QED BY <1>1, <1>2, <1>4, PTL DEF ReadingsSpec, OneAnswerIsNotEnough
=============================================================================
