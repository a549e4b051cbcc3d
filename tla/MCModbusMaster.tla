--------------------------- MODULE MCModbusMaster ---------------------------
(* Instances of ModbusMaster with SensorReadings for TLC.  The clock never *)
(* stops: the view keeps the ages of its time stamps, up to the limit each *)
(* is compared with, and as long as a comparison can still tell anything.  *)
EXTENDS SensorReadings

Age(t, limit) == IF now - t > limit THEN limit + 1 ELSE now - t

\* Only a single measurement, and no delay, leave open what happens.
Watched(d) == first[d] /\ answers[d] = 1 /\ ~delayed[d]

OnAge(d) == IF on_ts[d] = 0 THEN -1
            ELSE IF ts - on_ts[d] > ConfirmMs THEN ConfirmMs ELSE ts - on_ts[d]

TsUsed ==
    \E d \in Healthy : Watched(d) \/ (pc \in {"serve", "routine"} /\ ~delayed[d])

ModbusView ==
    << pc, busy, receive_buf,
       IF busy THEN Age(send_ts, TimeoutMs) ELSE
       IF \E d \in Device \ Slow : wire[d] # << >> THEN Age(send_ts, AnswerMs) ELSE 0,
       IF pc \in {"clear", "wipe", "write"} THEN 0 ELSE Age(request_ts, PollInterval),
       last_request, next_dev, dev_error, wire, noise, hold_ups, lost,
       IF TsUsed THEN Age(ts, ConfirmMs) ELSE -1, report, first, answers,
       [d \in Healthy |-> << delayed[d], IF Watched(d) THEN OnAge(d) ELSE 0 >>] >>
=============================================================================
