---------------------------- MODULE ModbusMaster ----------------------------
(***************************************************************************)
(* The Modbus master and its only user, the polling of the two sensor      *)
(* devices (modbus_master.c, stairway_sensors.c).                          *)
(*                                                                         *)
(* The main loop calls stairway_sensors_routine once per iteration: it     *)
(* concludes an open request (answer complete, or timeout) and, once       *)
(* PollInterval has passed, sends the next one, to the devices in turn.    *)
(* Bytes are received by the UART interrupt, which may run between any two *)
(* steps of the main loop, also in the middle of a send.                   *)
(*                                                                         *)
(* Outside the routine the main loop may be held up: by a flash write, the *)
(* access point going up or down, a long strip that is sent, a log the     *)
(* host does not read.  A flash write runs with interrupts off, and the    *)
(* UART has no FIFO: what arrives meanwhile is lost, also of a device that *)
(* answers in time.                                                        *)
(*                                                                         *)
(* A byte is known by its sender, its position in the answer, and whether  *)
(* it belongs to the answer of the last request to that device.  An answer *)
(* passes the CRC when its bytes are those of one answer, in order.        *)
(***************************************************************************)
EXTENDS Integers, Sequences, FiniteSets

CONSTANTS
    Healthy,       \* devices that answer every request in time
    Lossy,         \* devices that answer in time or not at all
    Slow,          \* devices that may also answer late
    AnswerLen,     \* length of an answer, 17 bytes in the code
    BufSize,       \* bytes the receive buffer takes, 255 in the code
    PollInterval,  \* POLL_INTERVAL_MS
    TimeoutMs,     \* .timeout of the requests
    SendMs,        \* time uart_write_blocking takes
    AnswerMs,      \* within it a device that is not slow has answered
    NoiseBytes,    \* bound: stray bytes on the line
    LoopMs,        \* time the main loop takes before the routine, and after it
    HeldUpMs,      \* how long the main loop may be held up
    HoldUps        \* bound: how often it is

Device == {"UP", "DOWN"}
Other(d) == IF d = "UP" THEN "DOWN" ELSE "UP"

ASSUME DeviceAssumption ==
    /\ Healthy \union Lossy \union Slow = Device
    /\ Healthy \intersect Lossy = {} /\ (Healthy \union Lossy) \intersect Slow = {}
ASSUME LengthAssumption ==
    AnswerLen \in Nat /\ BufSize \in Nat /\ 2 =< AnswerLen /\ AnswerLen =< BufSize
ASSUME TimeAssumption ==
    /\ PollInterval \in Nat /\ TimeoutMs \in Nat /\ SendMs \in Nat /\ AnswerMs \in Nat
    /\ AnswerMs < TimeoutMs
ASSUME NoiseAssumption == NoiseBytes \in Nat
ASSUME HoldUpAssumption == LoopMs \in Nat \ {0} /\ HeldUpMs \in Nat /\ HoldUps \in Nat

VARIABLES
    pc,            \* where the main loop is
    now,           \* get_time_ms()
    busy,
    receive_buf,   \* the bytes received so far; receive_counter is its length
    send_ts,
    last_request,  \* the device of the last request
    request_ts,
    next_dev,
    dev_error,     \* what stairway_sensors.c concludes about each device
    wire,          \* bytes each device has still to send
    noise,         \* stray bytes there may still be
    hold_ups,      \* how often the main loop may still be held up
    lost           \* history: bytes of the answer to the last request were lost

masterVars == <<pc, now, busy, send_ts, last_request, request_ts, next_dev, dev_error>>
historyVars == <<hold_ups, lost>>
lineVars   == <<receive_buf, wire, noise, historyVars>>
vars == <<masterVars, lineVars>>

Stray == [dev |-> "none", pos |-> 0, fresh |-> FALSE]
Byte == [dev : Device, pos : 1 .. AnswerLen, fresh : BOOLEAN] \union {Stray}

Answer(d) == [i \in 1 .. AnswerLen |-> [dev |-> d, pos |-> i, fresh |-> TRUE]]

Init ==
    /\ pc = "serve"
    /\ now = 1
    /\ busy = FALSE
    /\ receive_buf = << >>
    /\ send_ts = 0
    /\ last_request = "UP"
    /\ request_ts = 0
    /\ next_dev = "UP"
    /\ dev_error = [d \in Device |-> FALSE]
    /\ wire = [d \in Device |-> << >>]
    /\ noise = NoiseBytes
    /\ hold_ups = HoldUps
    /\ lost = FALSE

-----------------------------------------------------------------------------
(* modbus_master_routine: what becomes of the open request.                *)

\* Enough bytes for an answer, or no room for more.
Complete == Len(receive_buf) >= AnswerLen \/ Len(receive_buf) >= BufSize

\* Function and id of the request, and the CRC is right.
Accepted ==
    \A i \in 1 .. AnswerLen :
        /\ receive_buf[i].dev = last_request
        /\ receive_buf[i].pos = i
        /\ receive_buf[i].fresh = receive_buf[1].fresh

\* Mutants of Conclude: the other device is blamed; a failure leaves the master busy.
ConcludeOther(success) ==
    /\ dev_error' = [dev_error EXCEPT ![next_dev] = ~success]
    /\ busy' = FALSE
    /\ pc' = "request"
    /\ UNCHANGED <<now, send_ts, last_request, request_ts, next_dev, lineVars>>

ConcludeBusy(success) ==
    /\ dev_error' = [dev_error EXCEPT ![last_request] = ~success]
    /\ busy' = ~success
    /\ pc' = "request"
    /\ UNCHANGED <<now, send_ts, last_request, request_ts, next_dev, lineVars>>

\* The callback of the request reports success or an error of its device.
Conclude(success) ==
    /\ dev_error' = [dev_error EXCEPT ![last_request] = ~success]
    /\ busy' = FALSE
    /\ pc' = "request"
    /\ UNCHANGED <<now, send_ts, last_request, request_ts, next_dev, lineVars>>

Decode ==
    /\ pc = "routine" /\ busy /\ Complete
    /\ Conclude(Accepted)

Timeout ==
    /\ pc = "routine" /\ busy /\ ~Complete
    /\ now - send_ts > TimeoutMs
    /\ Conclude(FALSE)

NothingYet ==
    /\ pc = "routine"
    /\ busy => (~Complete /\ now - send_ts =< TimeoutMs)
    /\ pc' = "request"
    /\ UNCHANGED <<now, busy, send_ts, last_request, request_ts, next_dev, dev_error, lineVars>>

-----------------------------------------------------------------------------
(* stairway_sensors_routine and modbus_master_send.                        *)

DueForPoll == ~busy /\ now - request_ts >= PollInterval

Request ==
    /\ pc = "request"
    /\ IF DueForPoll
       THEN request_ts' = now /\ busy' = TRUE /\ pc' = "clear"
       ELSE UNCHANGED <<request_ts, busy>> /\ pc' = "rest"
    /\ UNCHANGED <<now, send_ts, last_request, next_dev, dev_error, lineVars>>

\* Mutant of Clear: the counter is not reset.
ClearNothing ==
    /\ pc = "clear"
    /\ pc' = "wipe"
    /\ UNCHANGED <<now, busy, send_ts, last_request, request_ts, next_dev, dev_error,
                   lineVars>>

\* receive_counter = 0
Clear ==
    /\ pc = "clear"
    /\ receive_buf' = << >>
    /\ pc' = "wipe"
    /\ UNCHANGED <<now, busy, send_ts, last_request, request_ts, next_dev, dev_error,
                   wire, noise, historyVars>>

\* memset: a byte received since then keeps its place, not its value.
Wipe ==
    /\ pc = "wipe"
    /\ receive_buf' = [i \in DOMAIN receive_buf |-> Stray]
    /\ pc' = "write"
    /\ UNCHANGED <<now, busy, send_ts, last_request, request_ts, next_dev, dev_error,
                   wire, noise, historyVars>>

\* The device has the request; bytes it has not sent yet are now outdated.
\* A slow device may stick to its old answer, a lossy one may miss the request.
Receives(d) ==
    \/ wire' = [wire EXCEPT ![d] = Answer(d)]
    \/ d \notin Healthy /\ wire' = [wire EXCEPT ![d] =
                                       [i \in DOMAIN @ |-> [@[i] EXCEPT !.fresh = FALSE]]]

Stale(buf, d) == [i \in DOMAIN buf |-> IF buf[i].dev = d THEN [buf[i] EXCEPT !.fresh = FALSE]
                                                         ELSE buf[i]]

\* uart_write_blocking and the wait for the last byte; only then the request
\* becomes last_request.
Write ==
    /\ pc = "write"
    /\ now' = now + SendMs
    /\ Receives(next_dev)
    /\ receive_buf' = Stale(receive_buf, next_dev)
    /\ last_request' = next_dev
    /\ send_ts' = now'
    /\ next_dev' = Other(next_dev)
    /\ lost' = FALSE
    /\ pc' = "rest"
    /\ UNCHANGED <<busy, request_ts, dev_error, noise, hold_ups>>

-----------------------------------------------------------------------------
(* The main loop around the routine.                                       *)

\* The clock does not outrun a device that answers in time.
OnTime == \A d \in Device \ Slow : wire'[d] # << >> => now' - send_ts =< AnswerMs

\* What the main loop does outside the routine takes some time, or hardly any.
Pass(from, to) ==
    /\ pc = from
    /\ \E t \in 0 .. LoopMs : now' = now + t
    /\ pc' = to
    /\ UNCHANGED <<busy, send_ts, last_request, request_ts, next_dev, dev_error, lineVars>>
    /\ OnTime

\* Button, access point, command line and light sensor, before the routine.
Serve == Pass("serve", "routine")

\* Detectors and lights, and net_poll of the next iteration.
Rest == Pass("rest", "serve")

Loop == Serve \/ Decode \/ Timeout \/ NothingYet \/ Request \/ Clear \/ Wipe \/ Write \/ Rest

\* settings_write or net_ap_set_state, called for the button, the command line or
\* (in net_poll) the web page, or a strip so long that it takes more than LoopMs.
\* One byte waits in the UART, as if it had come before; of those behind it some
\* are lost.
HeldUp ==
    /\ pc \in {"serve", "rest"}
    /\ hold_ups > 0
    /\ hold_ups' = hold_ups - 1
    /\ \E t \in 1 .. HeldUpMs : now' = now + t
    /\ \E k \in [Device -> 0 .. AnswerLen] :
          wire' = [d \in Device |-> SubSeq(wire[d], k[d] + 1, Len(wire[d]))]
    /\ lost' = (lost \/ wire'[last_request] # wire[last_request])
    /\ UNCHANGED <<pc, busy, send_ts, last_request, request_ts, next_dev, dev_error,
                   receive_buf, noise>>
    /\ OnTime

-----------------------------------------------------------------------------
(* The UART interrupt and the line.                                        *)

\* Mutant of Irq: the size of the buffer is not checked.
IrqUnbounded(b) ==
    /\ pc # "hung"
    /\ receive_buf' = Append(receive_buf, b)
    /\ UNCHANGED masterVars

\* modbus_master_uart_rx_irq.  With the buffer full it never reads the byte it
\* waits for, so it never returns.
Irq(b) ==
    /\ pc # "hung"
    /\ IF Len(receive_buf) < BufSize
       THEN receive_buf' = Append(receive_buf, b) /\ UNCHANGED pc
       ELSE pc' = "hung" /\ UNCHANGED receive_buf
    /\ UNCHANGED <<now, busy, send_ts, last_request, request_ts, next_dev, dev_error>>

Arrive(d) ==
    /\ wire[d] # << >>
    /\ Irq(Head(wire[d]))
    /\ wire' = [wire EXCEPT ![d] = Tail(@)]
    /\ UNCHANGED <<noise, historyVars>>

Noise ==
    /\ noise > 0
    /\ Irq(Stray)
    /\ noise' = noise - 1
    /\ UNCHANGED <<wire, historyVars>>

\* The watchdog restarts the controller; by then the devices have fallen silent.
Watchdog ==
    /\ pc = "hung"
    /\ pc' = "serve" /\ now' = 1 /\ busy' = FALSE
    /\ send_ts' = 0 /\ request_ts' = 0
    /\ last_request' = "UP" /\ next_dev' = "UP"
    /\ dev_error' = [d \in Device |-> FALSE]
    /\ receive_buf' = << >> /\ wire' = [d \in Device |-> << >>]
    /\ lost' = FALSE
    /\ UNCHANGED <<noise, hold_ups>>

Next == Loop \/ HeldUp \/ Noise \/ Watchdog \/ \E d \in Device : Arrive(d)

Spec == Init /\ [][Next]_vars

-----------------------------------------------------------------------------
TypeOK ==
    /\ pc \in {"serve", "routine", "request", "clear", "wipe", "write", "rest", "hung"}
    /\ now \in Nat
    /\ busy \in BOOLEAN
    /\ receive_buf \in Seq(Byte) /\ Len(receive_buf) =< BufSize
    /\ send_ts \in 0 .. now
    /\ last_request \in Device
    /\ request_ts \in 0 .. now
    /\ next_dev \in Device
    /\ dev_error \in [Device -> BOOLEAN]
    /\ wire \in [Device -> Seq(Byte)]
    /\ noise \in 0 .. NoiseBytes
    /\ hold_ups \in 0 .. HoldUps
    /\ lost \in BOOLEAN

\* As long as no stray byte comes, what is concluded about a device that answers
\* every request in time depends on its own answer only: it is reported faulty
\* for a request whose answer lost bytes while the main loop was held up, healthy
\* again upon the next one that did not, and whatever the other device does
\* changes nothing (modbus_master.c 41-86, 199-215, stairway_sensors.c 29-118).
FaultStaysLocal ==
    [][noise' = NoiseBytes =>
           \A d \in Healthy :
               dev_error'[d] = IF busy /\ ~busy' /\ last_request = d THEN lost
                               ELSE dev_error[d]]_vars

\* Stray and lost bytes spoil the answers they fall into, and no more: a device
\* that answers is in the end reported healthy for good.
Recovers == <>[](\A d \in Healthy : ~dev_error[d])

\* No request stays open: the next device always gets its turn, also after
\* a full buffer, at which the interrupt handler hangs until the watchdog
\* restarts everything (modbus_master.c 88-94, 199-215).
PollingGoesOn == \A d \in Device : []<>(next_dev = d)
=============================================================================
