----------------------------- MODULE Ser_proofs -----------------------------
(***************************************************************************)
(* The recovery for any number of errors, failures, stops and lost messages: *)
(* its types and the bound on its queue, the polling that drives it, and what *)
(* it pauses at each stage of the handshake with the firmware.               *)
(***************************************************************************)
EXTENDS Ser, Integers, TLAPS

\* The modules are long: a busy proof manager must not make a step time out.
USE SMTT(10), ZenonT(20)

\* While no recovery has failed, no request to stop is open between two handlers: the
\* tasklet is not between its test and its store, and is stopped while the module's bit
\* asks for it.
TxInv ==
    ~bserl2 => /\ txTask = "idle"
               /\ phl_sw_tx_sts \in {"RUNNING", "SW_PAUSE"}
               /\ pause_tx_id <=> phl_sw_tx_sts = "SW_PAUSE"

-----------------------------------------------------------------------------
\* The handlers of the background thread keep it: they pause and wait, resume, or
\* give up with bserl2.
LEMMA HandlersKeep == ASSUME TxInv, Handler PROVE TxInv'
<1>1. txTask' = txTask
  BY DEF Handler, Handles, _ser_msg_hdl_polling_chk, _ser_msg_hdl_evt_chk,
         _ser_msg_hdl_m1, _ser_msg_hdl_m3, _ser_msg_hdl_m5, _ser_msg_hdl_m9,
         _ser_msg_hdl_fw_expire
<1>2. CASE /\ UNCHANGED <<pause_tx_id, phl_sw_tx_sts>>
           /\ bserl2' = bserl2 \/ bserl2' = TRUE
  BY <1>1, <1>2, Zenon DEF TxInv
<1>3. CASE M1Paused
  <2>1. bserl2' = bserl2 /\ pause_tx_id' = TRUE
    BY <1>3 DEF M1Paused, TxPause
  <2>2. phl_sw_tx_sts' = IF phl_sw_tx_sts = "RUNNING" THEN "SW_PAUSE" ELSE phl_sw_tx_sts
    BY <1>3 DEF M1Paused, TxPause
  <2> QED BY <1>1, <2>1, <2>2 DEF TxInv
<1>4. CASE M1Fails
  BY <1>4 DEF M1Fails, L2, TxInv
<1>5. CASE _phl_sw_tx_resume /\ bserl2' = bserl2
  BY <1>1, <1>5 DEF _phl_sw_tx_resume, TxInv
<1>6. CASE bserl2' = TRUE
  BY <1>6 DEF TxInv
<1>7. CASE _ser_msg_hdl_polling_chk \/ _ser_msg_hdl_evt_chk \/ _ser_msg_hdl_fw_expire
  BY <1>2, <1>7, Zenon DEF _ser_msg_hdl_polling_chk, _ser_msg_hdl_evt_chk,
                    _ser_msg_hdl_fw_expire, dataVars
<1>8. CASE _ser_msg_hdl_m1
  BY <1>3, <1>4, <1>8 DEF _ser_msg_hdl_m1
<1>9. CASE _ser_msg_hdl_m3
  BY <1>2, <1>9, Zenon DEF _ser_msg_hdl_m3, M3Reset, M3Fails, L2
<1>10. CASE _ser_msg_hdl_m5
  BY <1>5, <1>10 DEF _ser_msg_hdl_m5
<1>11. CASE _ser_msg_hdl_m9
  BY <1>6, <1>11 DEF _ser_msg_hdl_m9, L2
<1> QED BY <1>7, <1>8, <1>9, <1>10, <1>11 DEF Handler

\* The state of the TX tasklet that the pause of _ser_m1_pause_trx and the resume of
\* _ser_msg_hdl_m5 leave.
LEMMA TxPauseHeld == Spec => []TxInv
<1>1. Init => TxInv
  BY DEF Init, TxInv
<1>2. TxInv /\ [Next]_vars => TxInv'
  <2> SUFFICES ASSUME TxInv, [Next]_vars PROVE TxInv'
    OBVIOUS
  <2>1. ASSUME bserl2' = bserl2, txTask' = txTask, dataVars' = dataVars
        PROVE  TxInv'
    BY <2>1 DEF TxInv, dataVars
  <2>2. CASE Handler
    BY <2>2, HandlersKeep
  <2>3. CASE \/ _ser_poll_timer_cb \/ ExtSend \/ _ser_hdl_external_evt
             \/ _phl_ser_mdl_stop \/ dispr_stop \/ _phl_ser_mdl_start
    BY <2>1, <2>3 DEF _ser_poll_timer_cb, ExtSend, _ser_hdl_external_evt,
                      _phl_ser_mdl_stop, dispr_stop, _phl_ser_mdl_start, serVars
  <2>4. CASE TxTest
    BY <2>4 DEF TxTest, TxInv, serVars
  <2>5. CASE phl_tx_stop_usb
    BY <2>5 DEF phl_tx_stop_usb, TxInv, serVars
  <2>6. CASE FwL1 \/ FwM3 \/ FwM5 \/ FwLog \/ FwHang \/ FwWdt
    BY <2>1, <2>6 DEF FwL1, FwM3, FwM5, FwLog, FwHang, FwWdt, FwStep, serVars
  <2>7. CASE UNCHANGED vars
    BY <2>1, <2>7 DEF vars, serVars
  <2> QED BY <2>2, <2>3, <2>4, <2>5, <2>6, <2>7 DEF Next
<1> QED BY <1>1, <1>2, PTL DEF Spec

-----------------------------------------------------------------------------
\* What a step that sends does to the queue: rest is followed by some of ms, in
\* their order, and a message that is missing is counted.
Sent(rest, ms, f) ==
    /\ q' \in Seq(Msgs)
    /\ Len(rest) <= Len(q') /\ Len(q') <= Len(rest) + Len(ms)
    /\ \A i \in 1..Len(rest) : q'[i] = rest[i]
    /\ \A i \in (Len(rest) + 1)..Len(q') : \E j \in 1..Len(ms) : q'[i] = ms[j]
    /\ \A i, j \in (Len(rest) + 1)..Len(q') : i < j => q'[i] = ms[1] /\ q'[j] = ms[2]
    /\ n' \in [Faults -> Nat]
    /\ n'["fail"] = n["fail"] + f /\ n'["fail"] <= MaxFails
    /\ n["lost"] <= n'["lost"] /\ n'["lost"] <= MaxLost
    /\ \A g \in Faults \ {"fail", "lost"} : n'[g] = n[g]
    /\ Len(q') = Len(rest) + Len(ms) \/ n'["lost"] > 0

\* What Send of at most two messages does while the dispatcher runs.
LEMMA SendLemma ==
    ASSUME NEW rest \in Seq(Msgs), NEW ms \in Seq(Msgs), NEW f \in 0..1,
           Len(ms) <= 2, n \in [Faults -> Nat], up # "down", Send(rest, ms, f)
    PROVE  Sent(rest, ms, f)
<1>1. PICK kept \in {<<>>, ms} \cup {<<ms[i]>> : i \in DOMAIN ms} :
        /\ n["lost"] + (Len(ms) - Len(kept)) <= MaxLost /\ n["fail"] + f <= MaxFails
        /\ n' = [n EXCEPT !["lost"] = @ + (Len(ms) - Len(kept)), !["fail"] = @ + f]
        /\ q' = rest \o kept
  BY SMTT(30) DEF Send
<1>2. /\ kept \in Seq(Msgs) /\ Len(kept) \in 0..Len(ms)
      /\ \A i \in 1..Len(kept) : \E j \in 1..Len(ms) : kept[i] = ms[j]
      /\ \A i, j \in 1..Len(kept) : i < j => kept[i] = ms[1] /\ kept[j] = ms[2]
  <2>1. CASE kept = <<>>
    BY <2>1
  <2>2. CASE kept = ms
    BY <2>2
  <2>3. CASE \E i \in DOMAIN ms : kept = <<ms[i]>>
    <3>1. PICK k \in 1..Len(ms) : kept = <<ms[k]>>
      BY <2>3
    <3>2. Len(kept) = 1 /\ kept[1] = ms[k] /\ kept \in Seq(Msgs) /\ Len(ms) \in Nat
      BY <3>1
    <3> QED BY <3>1, <3>2
  <2> QED BY <2>1, <2>2, <2>3
<1>3. /\ q' \in Seq(Msgs) /\ Len(q') = Len(rest) + Len(kept)
      /\ \A i \in 1..Len(rest) : q'[i] = rest[i]
      /\ \A i \in (Len(rest) + 1)..Len(q') : q'[i] = kept[i - Len(rest)]
  BY <1>1, <1>2
<1>4. /\ Len(rest) \in Nat /\ Len(ms) \in Nat /\ Len(kept) \in Nat /\ Len(q') \in Nat
      /\ n["lost"] \in Nat /\ n["fail"] \in Nat
      /\ n'["lost"] = n["lost"] + (Len(ms) - Len(kept)) /\ n'["fail"] = n["fail"] + f
      /\ n' \in [Faults -> Nat]
      /\ \A g \in Faults \ {"fail", "lost"} : n'[g] = n[g]
  <2>1. Len(rest) \in Nat /\ Len(ms) \in Nat /\ Len(kept) \in Nat /\ Len(q') \in Nat
    BY <1>2, <1>3
  <2>2. PICK lost \in Nat : lost = Len(ms) - Len(kept)
    <3>1. \A a, b \in Nat : b \in 0..a => a - b \in Nat
      OBVIOUS
    <3>2. Len(ms) - Len(kept) \in Nat
      BY <1>2, <2>1, <3>1, Zenon
    <3> QED BY <3>2, Zenon
  <2>3. n' = [n EXCEPT !["lost"] = @ + lost, !["fail"] = @ + f]
    BY <1>1, <2>2
  <2>4. n["lost"] \in Nat /\ n["fail"] \in Nat /\ f \in Nat
    BY DEF Faults
  <2>5. n'["lost"] = n["lost"] + lost /\ n'["fail"] = n["fail"] + f
    BY <2>3, <2>4 DEF Faults
  <2>6. n' \in [Faults -> Nat] /\ \A g \in Faults \ {"fail", "lost"} : n'[g] = n[g]
    <3>1. PICK a \in Nat, b \in Nat : a = n["lost"] + lost /\ b = n["fail"] + f
      BY <2>2, <2>4
    <3>2. n' = [n EXCEPT !["lost"] = a, !["fail"] = b]
      BY <2>3, <3>1
    <3> QED BY <3>1, <3>2, Zenon
  <2> QED BY <2>1, <2>2, <2>4, <2>5, <2>6
<1>5. \A i \in (Len(rest) + 1)..Len(q') : i - Len(rest) \in 1..Len(kept)
  BY <1>3, <1>4
<1>6. \A i \in (Len(rest) + 1)..Len(q') : \E j \in 1..Len(ms) : q'[i] = ms[j]
  <2> TAKE i \in (Len(rest) + 1)..Len(q')
  <2>1. q'[i] = kept[i - Len(rest)] /\ i - Len(rest) \in 1..Len(kept)
    BY <1>3, <1>5, Zenon
  <2> QED BY <1>2, <2>1, ZenonT(30)
<1>7. \A i, j \in (Len(rest) + 1)..Len(q') : i < j => q'[i] = ms[1] /\ q'[j] = ms[2]
  <2> TAKE i, j \in (Len(rest) + 1)..Len(q')
  <2> HAVE i < j
  <2>1. i - Len(rest) < j - Len(rest)
    BY <1>4
  <2> QED BY <1>2, <1>3, <1>5, <2>1, ZenonT(30)
<1>8. /\ Len(rest) <= Len(q') /\ Len(q') <= Len(rest) + Len(ms)
      /\ n'["fail"] <= MaxFails /\ n["lost"] <= n'["lost"] /\ n'["lost"] <= MaxLost
      /\ Len(q') = Len(rest) + Len(ms) \/ n'["lost"] > 0
  <2>1. n["lost"] + (Len(ms) - Len(kept)) <= MaxLost /\ n["fail"] + f <= MaxFails
    BY <1>1
  <2>2. Len(kept) <= Len(ms) /\ Len(q') = Len(rest) + Len(kept)
    BY <1>2, <1>3
  <2>3. MaxLost \in Nat /\ MaxFails \in Nat
    BY SerAssumption
  <2>4. Len(rest) <= Len(q') /\ Len(q') <= Len(rest) + Len(ms)
    BY <1>4, <2>2
  <2>5. n'["fail"] <= MaxFails /\ n'["lost"] <= MaxLost
    BY <1>4, <2>1
  <2>6. n["lost"] <= n'["lost"]
    BY <1>4, <2>2
  <2>7. Len(q') = Len(rest) + Len(ms) \/ n'["lost"] > 0
    <3>1. CASE Len(kept) = Len(ms)
      BY <2>2, <3>1
    <3>2. CASE Len(kept) < Len(ms)
      <4>1. Len(ms) - Len(kept) > 0
        BY <1>4, <3>2
      <4> QED BY <1>4, <4>1
    <3> QED BY <1>4, <2>2, <3>1, <3>2
  <2> QED BY <2>4, <2>5, <2>6, <2>7
<1> QED BY <1>3, <1>4, <1>6, <1>7, <1>8 DEF Sent

-----------------------------------------------------------------------------
(***************************************************************************)
(* Types, the bound on the queue, and polling.                              *)
(***************************************************************************)
\* TypeOK but for the length of the queue.
Types ==
    /\ state \subseteq {"M2", "M4", "M9"}
    /\ poll_cnt \in 0..PollTimes
    /\ bserl2 \in BOOLEAN /\ timer \in BOOLEAN /\ cut \in BOOLEAN
    /\ pause_tx_id \in BOOLEAN /\ pause_rx_id \in BOOLEAN /\ is_hw_trx_pause \in BOOLEAN
    /\ q \in Seq(Msgs)
    /\ ext \in {"none", "wait", "pend"} /\ up \in {"up", "stopping", "down"}
    /\ phl_sw_tx_sts \in {"RUNNING", "STOP_INPROGRESS", "SW_PAUSE"}
    /\ phl_sw_rx_sts \in {"RUNNING", "STOP_INPROGRESS"}
    /\ txTask \in {"idle", "stop"}
    /\ fw \in {"run", "m1", "m2", "m3", "m4", "hung", "dead"}
    /\ err \in Errors \cup {NULL}
    /\ isr \subseteq {"halt", "wdt"}
    /\ n \in [Faults -> Nat] /\ \A f \in Faults : n[f] <= Bound[f]

\* An interrupt, and then the one message that follows it, stand for an error status
\* that is not read yet, so that _ser_event_notify always finds one.
Events ==
    /\ "halt" \in isr => err # NULL
    /\ \A i \in 1..Len(q) : q[i] = "EVENT_CHK" => err # NULL /\ "halt" \notin isr
    /\ \A i, j \in 1..Len(q) : q[i] = "EVENT_CHK" /\ q[j] = "EVENT_CHK" => i = j
    /\ err = "LOG" => n["log"] > 0
    /\ "wdt" \in isr => fw = "dead"

One(b) == IF b THEN 1 ELSE 0

\* Every message takes the place of another message or of the timer, but for the
\* watchdog's and the one the timer sends after a failure.
QueueBound ==
    IF up = "down" THEN q = <<>>
    ELSE One(timer) + Len(q) + One(fw # "dead" \/ "wdt" \in isr) <= 2 + n["fail"]

PollInv == Types /\ Events /\ QueueBound /\ PollingGoesOn

\* The oldest message leaves the queue.
LEMMA DoneLemma ==
    ASSUME q \in Seq(Msgs), q # <<>>
    PROVE  /\ Tail(q) \in Seq(Msgs) /\ Len(q) \in Nat \ {0} /\ Len(Tail(q)) = Len(q) - 1
           /\ Len(Tail(q)) \in Nat
           /\ \A i \in 1..Len(Tail(q)) : Tail(q)[i] = q[i + 1] /\ i + 1 \in 1..Len(q)
           /\ Head(q) = q[1] /\ 1 \in 1..Len(q)
<1>1. Len(q) \in Nat \ {0} /\ Tail(q) \in Seq(Msgs) /\ Len(Tail(q)) = Len(q) - 1
  OBVIOUS
<1>2. \A i \in 1..Len(Tail(q)) : Tail(q)[i] = q[i + 1] /\ i + 1 \in 1..Len(q)
  BY <1>1
<1> QED BY <1>1, <1>2

\* The bounds on what happens.
LEMMA BoundIs ==
    /\ Bound["l1"] = MaxL1 /\ Bound["hang"] = MaxHangs /\ Bound["log"] = MaxLogs
    /\ Bound["lost"] = MaxLost /\ Bound["fail"] = MaxFails /\ Bound["stop"] = MaxStops
    /\ \A f \in Faults : Bound[f] \in Nat
BY SerAssumption DEF Bound, Faults

\* Counting one more of f.
LEMMA CountLemma ==
    ASSUME NEW f \in Faults, Count(f), n \in [Faults -> Nat],
           \A g \in Faults : n[g] <= Bound[g]
    PROVE  /\ n' \in [Faults -> Nat] /\ \A g \in Faults : n'[g] <= Bound[g]
           /\ n'[f] = n[f] + 1 /\ \A g \in Faults \ {f} : n'[g] = n[g]
           /\ \A g \in Faults : n[g] <= n'[g]
<1>1. n[f] \in Nat /\ Bound[f] \in Nat /\ n[f] < Bound[f]
  BY BoundIs DEF Count
<1>2. PICK a \in Nat : a = n[f] + 1 /\ a <= Bound[f]
  BY <1>1
<1>3. n' = [n EXCEPT ![f] = a]
  BY <1>2 DEF Count
<1>4. n' \in [Faults -> Nat] /\ n'[f] = a /\ \A g \in Faults \ {f} : n'[g] = n[g]
  BY <1>2, <1>3
<1>5. \A g \in Faults : n[g] <= n'[g]
  BY <1>1, <1>2, <1>4
<1>6. \A g \in Faults : n'[g] <= Bound[g]
  BY <1>2, <1>4
<1> QED BY <1>2, <1>4, <1>5, <1>6

\* A handler that sends nothing and sets the timer keeps the events, the bound and
\* the polling.
LEMMA QuietKeeps ==
    ASSUME PollInv, up # "down", q # <<>>, q' = Tail(q), timer' = TRUE, up' = up,
           UNCHANGED err, isr' = isr \/ isr' = isr \ {"wdt"},
           (fw' = "dead") <=> (fw = "dead"),
           Types', n["fail"] <= n'["fail"], n'["log"] = n["log"]
    PROVE  PollInv'
<1> USE DEF PollInv
<1>1. Tail(q) \in Seq(Msgs) /\ Len(Tail(q)) = Len(q) - 1 /\ Len(Tail(q)) \in Nat /\ Len(q) \in Nat
  BY DoneLemma DEF Types
<1>2. \A i \in 1..Len(Tail(q)) : Tail(q)[i] = q[i + 1] /\ i + 1 \in 1..Len(q)
  BY DoneLemma DEF Types
<1>3. Events'
  <2>1. ("halt" \in isr') <=> ("halt" \in isr)
    OBVIOUS
  <2>2. \A i \in 1..Len(q') : q'[i] = "EVENT_CHK" => err' # NULL /\ "halt" \notin isr'
    BY <1>2, <2>1 DEF Events
  <2>3. \A i, j \in 1..Len(q') : q'[i] = "EVENT_CHK" /\ q'[j] = "EVENT_CHK" => i = j
    <3> TAKE i, j \in 1..Len(q')
    <3>1. q'[i] = "EVENT_CHK" /\ q'[j] = "EVENT_CHK" => i + 1 = j + 1
      BY <1>2 DEF Events
    <3> QED BY <1>1, <3>1
  <2>4. "wdt" \in isr' => fw' = "dead"
    BY DEF Events
  <2> QED BY <2>1, <2>2, <2>3, <2>4 DEF Events
<1>4. QueueBound'
  <2>1. One(timer) \in {0, 1} /\ One(timer') = 1
    BY DEF One
  <2>2. One(fw' # "dead" \/ "wdt" \in isr') <= One(fw # "dead" \/ "wdt" \in isr)
    BY DEF One
  <2>3. /\ One(fw' # "dead" \/ "wdt" \in isr') \in {0, 1}
        /\ One(fw # "dead" \/ "wdt" \in isr) \in {0, 1}
    BY DEF One
  <2>4. n["fail"] \in Nat /\ n'["fail"] \in Nat
    BY DEF Types, Faults
  <2>5. One(timer) + Len(q) + One(fw # "dead" \/ "wdt" \in isr) <= 2 + n["fail"]
    BY DEF QueueBound
  <2>6. One(timer') + Len(q') + One(fw' # "dead" \/ "wdt" \in isr') <= 2 + n'["fail"]
    BY <1>1, <2>1, <2>2, <2>3, <2>4, <2>5
  <2> QED BY <2>6, Zenon DEF QueueBound
<1>5. PollingGoesOn'
  BY DEF PollingGoesOn
<1> QED BY <1>3, <1>4, <1>5

\* The handlers of the handshake and of an expired wait.
LEMMA HandshakeKeeps ==
    ASSUME PollInv,
           \/ _ser_msg_hdl_m1 \/ _ser_msg_hdl_m3 \/ _ser_msg_hdl_m5
           \/ _ser_msg_hdl_m9 \/ _ser_msg_hdl_fw_expire
    PROVE  PollInv'
<1>0. Types /\ n \in [Faults -> Nat] /\ (\A g \in Faults : n[g] <= Bound[g]) /\ q \in Seq(Msgs)
  BY DEF PollInv, Types
<1>1. PollTimes \in Nat /\ PollTimes \in 0..PollTimes /\ 0 \in 0..PollTimes
  BY SerAssumption
<1>2. up # "down" /\ q # <<>> /\ q' = Tail(q) /\ UNCHANGED <<up, txTask, cut, err>>
  BY DEF _ser_msg_hdl_m1, _ser_msg_hdl_m3, _ser_msg_hdl_m5, _ser_msg_hdl_m9,
         _ser_msg_hdl_fw_expire, Handles, Done, fwVars
<1>3. Tail(q) \in Seq(Msgs)
  BY <1>0, <1>2, DoneLemma
<1>4. ASSUME UNCHANGED n \/ Count("fail")
      PROVE  /\ n' \in [Faults -> Nat] /\ \A g \in Faults : n'[g] <= Bound[g]
             /\ n["fail"] <= n'["fail"] /\ n'["log"] = n["log"]
  <2>1. CASE UNCHANGED n
    <3>1. n["fail"] \in Nat
      BY <1>0 DEF Faults
    <3> QED BY <1>0, <2>1, <3>1
  <2>2. CASE Count("fail")
    <3>1. "fail" \in Faults /\ "log" \in Faults \ {"fail"}
      BY DEF Faults
    <3> QED BY <1>0, <2>2, <3>1, CountLemma
  <2> QED BY <1>4, <2>1, <2>2
<1>5. CASE _ser_msg_hdl_m1
  <2>1. CASE M1Paused
    <3>1. Types'
      BY <1>0, <1>1, <1>2, <1>3, <2>1
      DEF Types, M1Paused, TxPause, _phl_hw_trx_pause, _phl_sw_rx_pause, _ser_m2_notify,
          _ser_m3_m5_waiting
    <3>2. /\ timer' = TRUE /\ isr' = isr /\ ((fw' = "dead") <=> (fw = "dead"))
          /\ UNCHANGED n
      BY <2>1 DEF M1Paused, _ser_m2_notify, _ser_m3_m5_waiting
    <3> QED BY <1>2, <1>4, <3>1, <3>2, QuietKeeps
  <2>2. CASE M1Fails
    <3>1. Types'
      <4>1. pause_tx_id' \in BOOLEAN /\ is_hw_trx_pause' \in BOOLEAN /\ pause_rx_id' \in BOOLEAN
        BY <1>0, <2>2, Zenon DEF Types, M1Fails, TxPause, TxPauseFails, RxPauseFails,
                                 _phl_hw_trx_pause
      <4>2. /\ phl_sw_tx_sts' \in {"RUNNING", "STOP_INPROGRESS", "SW_PAUSE"}
            /\ phl_sw_rx_sts' \in {"RUNNING", "STOP_INPROGRESS"}
        BY <1>0, <2>2 DEF Types, M1Fails, TxPause, TxPauseFails, RxPauseFails
      <4> QED BY <1>0, <1>1, <1>2, <1>3, <1>4, <2>2, <4>1, <4>2
              DEF Types, M1Fails, L2, clr_pending_msg, _ser_reset_status
    <3>2. timer' = TRUE /\ isr' = isr \ {"wdt"} /\ fw' = fw /\ Count("fail")
      BY <2>2 DEF M1Fails, L2, _ser_reset_status
    <3> QED BY <1>2, <1>4, <3>1, <3>2, QuietKeeps
  <2> QED BY <1>5, <2>1, <2>2 DEF _ser_msg_hdl_m1
<1>6. CASE _ser_msg_hdl_m3
  <2>1. CASE M3Reset
    <3>1. Types'
      <4>1. /\ state' \subseteq {"M2", "M4", "M9"}
            /\ fw' \in {"run", "m1", "m2", "m3", "m4", "hung", "dead"}
        BY <1>0, <2>1 DEF Types, M3Reset, _ser_m4_notify
      <4>2. poll_cnt' = PollTimes /\ timer' = TRUE /\ is_hw_trx_pause' = FALSE /\ pause_rx_id' = FALSE
        BY <2>1 DEF M3Reset, _phl_hw_trx_rst_resume, _phl_sw_rx_resume, _ser_m3_m5_waiting
      <4>3. phl_sw_rx_sts' \in {"RUNNING", "STOP_INPROGRESS"}
        BY <1>0, <2>1 DEF Types, M3Reset, _phl_sw_rx_resume
      <4>4. UNCHANGED <<bserl2, ext, isr, n, phl_sw_tx_sts, pause_tx_id>>
        BY <1>6, <2>1 DEF _ser_msg_hdl_m3, M3Reset
      <4> QED BY <1>0, <1>1, <1>2, <1>3, <4>1, <4>2, <4>3, <4>4, ZenonT(60) DEF Types
    <3>2. /\ timer' = TRUE /\ isr' = isr /\ ((fw' = "dead") <=> (fw = "dead"))
          /\ UNCHANGED n
      BY <2>1 DEF M3Reset, _ser_m4_notify, _ser_m3_m5_waiting
    <3> QED BY <1>2, <1>4, <3>1, <3>2, QuietKeeps
  <2>2. CASE M3Fails
    <3>1. UNCHANGED n \/ Count("fail")
      BY <2>2 DEF M3Fails
    <3>2. Types'
      <4>1. is_hw_trx_pause' \in BOOLEAN /\ pause_rx_id' \in BOOLEAN
        BY <1>0, <2>2, Zenon DEF Types, M3Fails, _phl_hw_trx_rst_resume, _phl_sw_rx_resume
      <4>2. phl_sw_rx_sts' \in {"RUNNING", "STOP_INPROGRESS"}
        BY <1>0, <2>2 DEF Types, M3Fails, _phl_sw_rx_resume
      <4> QED BY <1>0, <1>1, <1>2, <1>3, <1>4, <1>6, <2>2, <3>1, <4>1, <4>2
              DEF Types, _ser_msg_hdl_m3, M3Fails, L2, clr_pending_msg, _ser_reset_status
    <3>3. timer' = TRUE /\ isr' = isr \ {"wdt"} /\ fw' = fw
      BY <2>2 DEF M3Fails, L2, _ser_reset_status
    <3> QED BY <1>2, <1>4, <3>1, <3>2, <3>3, QuietKeeps
  <2> QED BY <1>6, <2>1, <2>2 DEF _ser_msg_hdl_m3
<1>7. CASE _ser_msg_hdl_m5
  <2>1. Types'
    <3>1. state' = {} /\ poll_cnt' = 0 /\ timer' = TRUE /\ pause_tx_id' = FALSE
      BY <1>7 DEF _ser_msg_hdl_m5, _phl_sw_tx_resume, _ser_reset_status
    <3>2. /\ phl_sw_tx_sts' \in {"RUNNING", "STOP_INPROGRESS", "SW_PAUSE"}
          /\ ext' \in {"none", "wait", "pend"}
      BY <1>0, <1>7 DEF Types, _ser_msg_hdl_m5, _phl_sw_tx_resume, clr_pending_msg
    <3>3. UNCHANGED <<bserl2, phl_sw_rx_sts, pause_rx_id, is_hw_trx_pause, fw, isr, n>>
      BY <1>7 DEF _ser_msg_hdl_m5, fwVars
    <3> QED BY <1>0, <1>1, <1>2, <1>3, <3>1, <3>2, <3>3, ZenonT(60) DEF Types
  <2>2. timer' = TRUE /\ isr' = isr /\ fw' = fw /\ UNCHANGED n
    BY <1>7 DEF _ser_msg_hdl_m5, _ser_reset_status, fwVars
  <2> QED BY <1>2, <1>4, <2>1, <2>2, QuietKeeps
<1>8. CASE _ser_msg_hdl_m9
  <2>1. Types'
    <3>1. /\ state' = {} /\ poll_cnt' = 0 /\ timer' = TRUE /\ bserl2' = TRUE
          /\ pause_tx_id' = FALSE /\ pause_rx_id' = FALSE
      BY <1>8 DEF _ser_msg_hdl_m9, _phl_sw_tx_resume, _phl_sw_rx_resume, L2, _ser_reset_status
    <3>2. /\ phl_sw_tx_sts' \in {"RUNNING", "STOP_INPROGRESS", "SW_PAUSE"}
          /\ phl_sw_rx_sts' \in {"RUNNING", "STOP_INPROGRESS"}
      BY <1>0, <1>8 DEF Types, _ser_msg_hdl_m9, _phl_sw_tx_resume, _phl_sw_rx_resume
    <3>3. ext' \in {"none", "wait", "pend"} /\ isr' \subseteq {"halt", "wdt"}
      BY <1>0, <1>8 DEF Types, _ser_msg_hdl_m9, L2, clr_pending_msg
    <3>4. UNCHANGED <<is_hw_trx_pause, fw, n>>
      BY <1>8 DEF _ser_msg_hdl_m9
    <3> QED BY <1>0, <1>1, <1>2, <1>3, <3>1, <3>2, <3>3, <3>4, Zenon DEF Types
  <2>2. timer' = TRUE /\ isr' = isr \ {"wdt"} /\ fw' = fw /\ UNCHANGED n
    BY <1>8 DEF _ser_msg_hdl_m9, L2, _ser_reset_status
  <2> QED BY <1>2, <1>4, <2>1, <2>2, QuietKeeps
<1>9. CASE _ser_msg_hdl_fw_expire
  <2>1. Types'
    BY <1>0, <1>1, <1>2, <1>3, <1>9 DEF Types, _ser_msg_hdl_fw_expire, dataVars, fwVars
  <2>2. timer' = TRUE /\ isr' = isr /\ fw' = fw /\ UNCHANGED n
    BY <1>9 DEF _ser_msg_hdl_fw_expire, fwVars
  <2> QED BY <1>2, <1>4, <2>1, <2>2, QuietKeeps
<1> QED BY <1>5, <1>6, <1>7, <1>8, <1>9

\* The interrupts found are at most one message to read the status and one M9.
LEMMA InterruptsLemma ==
    ASSUME isr \subseteq {"halt", "wdt"}
    PROVE  /\ Interrupts \in Seq(Msgs)
           /\ Len(Interrupts) = One("halt" \in isr) + One("wdt" \in isr)
           /\ Len(Interrupts) <= 2
           /\ \A j \in 1..Len(Interrupts) : Interrupts[j] = "EVENT_CHK" => "halt" \in isr
           /\ Len(Interrupts) = 2 => Interrupts[2] = "M9"
<1>1. CASE "halt" \in isr /\ "wdt" \in isr
  <2>1. Interrupts = <<"EVENT_CHK">> \o <<"M9">>
    BY <1>1 DEF Interrupts
  <2> QED BY <1>1, <2>1 DEF One, Msgs
<1>2. CASE "halt" \in isr /\ "wdt" \notin isr
  <2>1. Interrupts = <<"EVENT_CHK">>
    BY <1>2 DEF Interrupts
  <2> QED BY <1>2, <2>1 DEF One, Msgs
<1>3. CASE "halt" \notin isr /\ "wdt" \in isr
  <2>1. Interrupts = <<"M9">>
    BY <1>3 DEF Interrupts
  <2> QED BY <1>3, <2>1 DEF One, Msgs
<1>4. CASE "halt" \notin isr /\ "wdt" \notin isr
  <2>1. Interrupts = <<>>
    BY <1>4 DEF Interrupts
  <2> QED BY <1>4, <2>1 DEF One, Msgs
<1> QED BY <1>1, <1>2, <1>3, <1>4

\* None of them is an event of the handshake.
LEMMA InterruptElems ==
    ASSUME isr \subseteq {"halt", "wdt"}
    PROVE  \A j \in 1..Len(Interrupts) : Interrupts[j] \in {"EVENT_CHK", "M9"}
<1>1. CASE "halt" \in isr /\ "wdt" \in isr
  BY <1>1 DEF Interrupts
<1>2. CASE "halt" \in isr /\ "wdt" \notin isr
  BY <1>2 DEF Interrupts
<1>3. CASE "halt" \notin isr /\ "wdt" \in isr
  BY <1>3 DEF Interrupts
<1>4. CASE "halt" \notin isr /\ "wdt" \notin isr
  BY <1>4 DEF Interrupts
<1> QED BY <1>1, <1>2, <1>3, <1>4

\* The status stands for at most one message of the handshake.
LEMMA NotifyLemma ==
    ASSUME NEW e \in Errors
    PROVE  /\ Notify[e] \in Seq(Msgs) /\ Len(Notify[e]) <= 1
           /\ e # "LOG" => Len(Notify[e]) = 1
           /\ \A j \in 1..Len(Notify[e]) :
                 /\ Notify[e][j] \in {"M1", "M3", "M5", "M9"}
                 /\ Notify[e][j] = "M1" => e = "L1_ERR"
                 /\ Notify[e][j] = "M3" => e = "DISABLE_DONE"
                 /\ Notify[e][j] = "M5" => e = "RECOVERY_DONE"
<1>1. CASE e = "L1_ERR"
  <2>1. Notify[e] = <<"M1">>
    BY <1>1 DEF Notify
  <2> QED BY <1>1, <2>1 DEF Msgs
<1>2. CASE e = "DISABLE_DONE"
  <2>1. Notify[e] = <<"M3">>
    BY <1>2 DEF Notify
  <2> QED BY <1>2, <2>1 DEF Msgs
<1>3. CASE e = "RECOVERY_DONE"
  <2>1. Notify[e] = <<"M5">>
    BY <1>3 DEF Notify
  <2> QED BY <1>3, <2>1 DEF Msgs
<1>4. CASE e = "L2_ERR"
  <2>1. Notify[e] = <<"M9">>
    BY <1>4 DEF Notify
  <2> QED BY <1>4, <2>1 DEF Msgs
<1>5. CASE e = "LOG"
  <2>1. Notify[e] = <<>>
    BY <1>5 DEF Notify
  <2> QED BY <1>5, <2>1 DEF Msgs
<1> QED BY <1>1, <1>2, <1>3, <1>4, <1>5 DEF Errors

\* The counts after a step that sends.
LEMMA SentCounts ==
    ASSUME NEW rest, NEW ms, NEW f \in 0..1, Sent(rest, ms, f), Types
    PROVE  /\ n' \in [Faults -> Nat] /\ \A g \in Faults : n'[g] <= Bound[g]
           /\ n'["fail"] = n["fail"] + f /\ n["fail"] \in Nat /\ n'["fail"] \in Nat
           /\ n'["log"] = n["log"]
<1>1. "fail" \in Faults /\ "log" \in Faults \ {"fail", "lost"} /\ n \in [Faults -> Nat]
  BY DEF Faults, Types
<1>2. /\ n' \in [Faults -> Nat] /\ n'["fail"] <= Bound["fail"] /\ n'["lost"] <= Bound["lost"]
      /\ \A g \in Faults \ {"fail", "lost"} : n'[g] = n[g]
  BY BoundIs DEF Sent
<1>3. \A g \in Faults : n'[g] <= Bound[g]
  BY <1>2, Zenon DEF Types
<1> QED BY <1>1, <1>2, <1>3, Zenon DEF Sent

\* _ser_msg_hdl_polling_chk
LEMMA PollingChkKeeps == ASSUME PollInv, _ser_msg_hdl_polling_chk PROVE PollInv'
<1> DEFINE rest == Tail(q)
<1>0. Types /\ n \in [Faults -> Nat] /\ q \in Seq(Msgs) /\ isr \subseteq {"halt", "wdt"}
      /\ (\A g \in Faults : n[g] <= Bound[g])
  BY DEF PollInv, Types
<1>1. /\ up # "down" /\ q # <<>> /\ isr' = {} /\ q[1] = "POLLING_CHK"
      /\ UNCHANGED <<up, txTask, cut, state, bserl2, ext, dataVars, fw, err>>
  BY <1>0, DoneLemma DEF _ser_msg_hdl_polling_chk, Handles
<1>2. /\ rest \in Seq(Msgs) /\ Len(rest) = Len(q) - 1 /\ Len(rest) \in Nat /\ Len(q) \in Nat
      /\ \A i \in 1..Len(rest) : rest[i] = q[i + 1] /\ i + 1 \in 1..Len(q)
  BY <1>0, <1>1, DoneLemma
<1>3. CASE isr = {}
  <2>1. q' = rest /\ UNCHANGED n /\ timer' = TRUE
        /\ poll_cnt' = IF poll_cnt > 0 THEN poll_cnt - 1 ELSE 0
    BY <1>3 DEF _ser_msg_hdl_polling_chk, Done
  <2>2. poll_cnt' \in 0..PollTimes
    BY <1>0, <2>1, SerAssumption DEF Types
  <2>3. Types'
    BY <1>0, <1>1, <1>2, <2>1, <2>2 DEF Types, dataVars
  <2>4. n["fail"] <= n'["fail"]
    BY <1>0, <2>1 DEF Faults
  <2> QED BY <1>1, <1>3, <2>1, <2>3, <2>4, QuietKeeps
<1>4. CASE isr # {}
  <2> DEFINE ms == Interrupts
  <2>1. PICK f \in 0..1 : Send(rest, ms, f) /\ timer' = (timer \/ f = 1)
    BY <1>4 DEF _ser_msg_hdl_polling_chk, _ser_fail_ev_hdlr
  <2>2. poll_cnt' = poll_cnt
    BY <1>4 DEF _ser_msg_hdl_polling_chk
  <2>3. /\ ms \in Seq(Msgs) /\ Len(ms) = One("halt" \in isr) + One("wdt" \in isr) /\ Len(ms) <= 2
        /\ \A j \in 1..Len(ms) : ms[j] = "EVENT_CHK" => "halt" \in isr
        /\ Len(ms) = 2 => ms[2] = "M9"
    BY <1>0, InterruptsLemma
  <2> HIDE DEF rest, ms
  <2>4. Len(ms) \in 1..2
    <3>1. "halt" \in isr \/ "wdt" \in isr
      BY <1>0, <1>4, Zenon
    <3> QED BY <2>3, <3>1 DEF One
  <2>5. Sent(rest, ms, f)
    BY <1>0, <1>1, <1>2, <2>1, <2>3, SendLemma
  <2>6. /\ n' \in [Faults -> Nat] /\ \A g \in Faults : n'[g] <= Bound[g]
        /\ n'["fail"] = n["fail"] + f /\ n["fail"] \in Nat /\ n'["fail"] \in Nat
        /\ n'["log"] = n["log"]
    BY <1>0, <2>5, SentCounts
  <2>7. /\ q' \in Seq(Msgs) /\ Len(rest) <= Len(q') /\ Len(q') <= Len(rest) + Len(ms)
        /\ Len(q') \in Nat
        /\ \A i \in 1..Len(rest) : q'[i] = rest[i]
        /\ \A i \in (Len(rest) + 1)..Len(q') : \E j \in 1..Len(ms) : q'[i] = ms[j]
        /\ \A i, j \in (Len(rest) + 1)..Len(q') : i < j => q'[i] = ms[1] /\ q'[j] = ms[2]
        /\ Len(q') = Len(rest) + Len(ms) \/ n'["lost"] > 0
    BY <2>5 DEF Sent
  <2>8. Types'
    BY <1>0, <1>1, <2>1, <2>2, <2>6, <2>7, SMTT(30) DEF Types, dataVars
  <2>9. Events'
    <3>1. \A i \in 1..Len(q') : \/ i \in 1..Len(rest) \/ i \in (Len(rest) + 1)..Len(q')
      BY <1>2, <2>7
    <3>2. ASSUME NEW i \in 1..Len(rest), q'[i] = "EVENT_CHK"
          PROVE  err # NULL /\ "halt" \notin isr /\ q[i + 1] = "EVENT_CHK" /\ i + 1 \in 1..Len(q)
      BY <1>2, <2>7, <3>2 DEF PollInv, Events
    <3>3. ASSUME NEW i \in (Len(rest) + 1)..Len(q'), q'[i] = "EVENT_CHK"
          PROVE  err # NULL /\ "halt" \in isr
      BY <2>3, <2>7, <3>3 DEF PollInv, Events
    <3>4. ASSUME NEW i \in 1..Len(q'), NEW j \in 1..Len(q'), i < j,
                 q'[i] = "EVENT_CHK", q'[j] = "EVENT_CHK"
          PROVE  FALSE
      <4>1. CASE i \in 1..Len(rest) /\ j \in 1..Len(rest)
        <5>1. i + 1 = j + 1
          BY <3>2, <3>4, <4>1 DEF PollInv, Events
        <5> QED BY <3>4, <5>1
      <4>2. CASE i \in (Len(rest) + 1)..Len(q') /\ j \in (Len(rest) + 1)..Len(q')
        <5>1. ms[2] = "EVENT_CHK"
          BY <2>7, <3>4, <4>2, SMTT(30)
        <5>2. Len(ms) = 2
          <6>1. Len(rest) + 1 <= i /\ i + 1 <= j /\ j <= Len(rest) + Len(ms)
            BY <1>2, <2>4, <2>7, <3>4, <4>2
          <6>2. \A a \in Nat, b \in 1..2 : a + 1 <= i /\ i + 1 <= j /\ j <= a + b => b = 2
            BY <2>7
          <6> QED BY <1>2, <2>4, <6>1, <6>2, Zenon
        <5> QED BY <2>3, <5>1, <5>2, Zenon
      <4> QED BY <3>1, <3>2, <3>3, <3>4, <4>1, <4>2
    <3>5. \A i, j \in 1..Len(q') : q'[i] = "EVENT_CHK" /\ q'[j] = "EVENT_CHK" => i = j
      <4> TAKE i, j \in 1..Len(q')
      <4>1. i < j \/ j < i \/ i = j
        OBVIOUS
      <4> QED BY <3>4, <4>1
    <3>6. err' = "LOG" => n'["log"] > 0
      BY <1>1, <2>6 DEF PollInv, Events
    <3> QED BY <1>1, <3>1, <3>2, <3>3, <3>5, <3>6 DEF Events
  <2>10. QueueBound'
    <3>1. One(timer) + Len(q) + One(fw # "dead" \/ "wdt" \in isr) <= 2 + n["fail"]
      BY <1>1 DEF PollInv, QueueBound
    <3>2. /\ One(timer) \in 0..1 /\ One(timer') \in 0..1
          /\ One(fw # "dead" \/ "wdt" \in isr) \in 0..1
          /\ One(fw' # "dead" \/ "wdt" \in isr') \in 0..1
          /\ One("halt" \in isr) \in 0..1 /\ One("wdt" \in isr) \in 0..1
      BY DEF One
    <3>2a. One(timer') <= One(timer) + f
      <4>1. CASE f = 1
        BY <3>2, <4>1
      <4>2. CASE f # 1
        <5>1. f = 0 /\ timer' = timer
          BY <1>0, <2>1, <4>2 DEF Types
        <5> QED BY <3>2, <5>1
      <4> QED BY <4>1, <4>2
    <3>3. One("wdt" \in isr) + One(fw' # "dead" \/ "wdt" \in isr')
            <= One(fw # "dead" \/ "wdt" \in isr)
      BY <1>1 DEF One, PollInv, Events
    <3>4. Len(q') <= Len(q) - 1 + 1 + One("wdt" \in isr)
      BY <1>2, <2>3, <2>7, <3>2
    <3>5. One(timer') + Len(q') + One(fw' # "dead" \/ "wdt" \in isr') <= 2 + n'["fail"]
      <4>1. \A t, p, t1, p1, w \in 0..1, l \in Nat, l1 \in Nat, x \in Nat :
              /\ t + l + p <= 2 + x /\ t1 <= t + f /\ w + p1 <= p /\ l1 <= l - 1 + 1 + w
              => t1 + l1 + p1 <= 2 + (x + f)
        OBVIOUS
      <4>2. One(timer') + Len(q') + One(fw' # "dead" \/ "wdt" \in isr') <= 2 + (n["fail"] + f)
        BY <1>2, <2>6, <2>7, <3>1, <3>2, <3>2a, <3>3, <3>4, <4>1, ZenonT(60)
      <4> QED BY <2>6, <4>2
    <3> QED BY <1>1, <3>5 DEF QueueBound
  <2>11. PollingGoesOn'
    <3>1. CASE Len(q') = Len(rest) + Len(ms)
      <4>1. \A a \in Nat, b \in 1..2 : a + b # 0
        OBVIOUS
      <4>2. Len(q') # 0
        BY <1>2, <2>4, <3>1, <4>1, Zenon
      <4>3. q' # <<>>
        BY <4>2
      <4> QED BY <4>3 DEF PollingGoesOn
    <3>2. CASE n'["lost"] > 0
      BY <3>2 DEF PollingGoesOn
    <3> QED BY <2>7, <3>1, <3>2, Zenon
  <2> QED BY <2>8, <2>9, <2>10, <2>11 DEF PollInv
<1> QED BY <1>3, <1>4

\* The bound on the queue after a step that sends at most one message in place of one.
LEMMA BoundArith ==
    ASSUME NEW f \in 0..1
    PROVE  \A t, t1, p \in 0..1, l, l1, x \in Nat :
              t + l + p <= 2 + x /\ t1 <= t + f /\ l1 <= l => t1 + l1 + p <= 2 + (x + f)
OBVIOUS

\* _ser_msg_hdl_evt_chk
LEMMA EvtChkKeeps == ASSUME PollInv, _ser_msg_hdl_evt_chk PROVE PollInv'
<1> DEFINE rest == Tail(q)
           ms == Notify[err]
<1>0. Types /\ n \in [Faults -> Nat] /\ q \in Seq(Msgs) /\ Events
  BY DEF PollInv, Types
<1>1. /\ up # "down" /\ q # <<>> /\ q[1] = "EVENT_CHK" /\ 1 \in 1..Len(q) /\ err' = NULL
      /\ UNCHANGED <<up, txTask, cut, state, poll_cnt, bserl2, ext, dataVars, fw, isr>>
  BY <1>0, DoneLemma DEF _ser_msg_hdl_evt_chk, Handles, _ser_event_notify
<1>2. /\ rest \in Seq(Msgs) /\ Len(rest) = Len(q) - 1 /\ Len(rest) \in Nat /\ Len(q) \in Nat
      /\ \A i \in 1..Len(rest) : rest[i] = q[i + 1] /\ i + 1 \in 1..Len(q)
  BY <1>0, <1>1, DoneLemma
<1>3. err \in Errors /\ "halt" \notin isr
  BY <1>0, <1>1 DEF Events, Types
<1>4. PICK f \in 0..1 : Send(rest, ms, f) /\ timer' = (timer \/ f = 1)
  BY DEF _ser_msg_hdl_evt_chk, _ser_event_notify, _ser_fail_ev_hdlr
<1>5. /\ ms \in Seq(Msgs) /\ Len(ms) \in 0..1 /\ Len(ms) <= 2 /\ (err # "LOG" => Len(ms) = 1)
      /\ \A j \in 1..Len(ms) : ms[j] # "EVENT_CHK"
  <2>1. ms \in Seq(Msgs) /\ Len(ms) <= 1 /\ (err # "LOG" => Len(ms) = 1)
        /\ \A j \in 1..Len(ms) : ms[j] \in {"M1", "M3", "M5", "M9"}
    BY <1>3, NotifyLemma
  <2> HIDE DEF ms
  <2>2. Len(ms) \in Nat /\ \A a \in Nat : a <= 1 => a \in 0..1 /\ a <= 2
    BY <2>1
  <2> QED BY <2>1, <2>2
<1> HIDE DEF rest, ms
<1>6. Sent(rest, ms, f)
  BY <1>0, <1>1, <1>2, <1>4, <1>5, SendLemma
<1>7. /\ n' \in [Faults -> Nat] /\ \A g \in Faults : n'[g] <= Bound[g]
      /\ n'["fail"] = n["fail"] + f /\ n["fail"] \in Nat /\ n'["log"] = n["log"]
  BY <1>0, <1>6, SentCounts
<1>8. /\ q' \in Seq(Msgs) /\ Len(rest) <= Len(q') /\ Len(q') <= Len(rest) + Len(ms)
      /\ Len(q') \in Nat
      /\ \A i \in 1..Len(rest) : q'[i] = rest[i]
      /\ \A i \in (Len(rest) + 1)..Len(q') : \E j \in 1..Len(ms) : q'[i] = ms[j]
      /\ Len(q') = Len(rest) + Len(ms) \/ n'["lost"] > 0
  BY <1>6 DEF Sent
<1>9. Types'
  BY <1>0, <1>1, <1>4, <1>7, <1>8, SMTT(30) DEF Types, dataVars
<1>10. Events'
  <2>1. \A i \in 1..Len(q') : \/ i \in 1..Len(rest) \/ i \in (Len(rest) + 1)..Len(q')
    BY <1>2, <1>8
  <2>2. ASSUME NEW i \in 1..Len(rest) PROVE q'[i] # "EVENT_CHK"
    <3>1. i + 1 \in 1..Len(q) /\ i + 1 # 1 /\ q'[i] = q[i + 1]
      BY <1>2, <1>8
    <3> QED BY <1>0, <1>1, <3>1 DEF Events
  <2>3. ASSUME NEW i \in (Len(rest) + 1)..Len(q') PROVE q'[i] # "EVENT_CHK"
    BY <1>5, <1>8
  <2>4. err' # "LOG"
    BY <1>1, SerAssumption DEF Errors
  <2> QED BY <1>0, <1>1, <1>3, <2>1, <2>2, <2>3, <2>4 DEF Events
<1>11. QueueBound'
  <2>1. One(timer) + Len(q) + One(fw # "dead" \/ "wdt" \in isr) <= 2 + n["fail"]
    BY <1>1 DEF PollInv, QueueBound
  <2>2. /\ One(timer) \in 0..1 /\ One(timer') \in 0..1
        /\ One(fw # "dead" \/ "wdt" \in isr) \in 0..1
    BY DEF One
  <2>3. One(timer') <= One(timer) + f
    <3>1. CASE f = 1
      BY <2>2, <3>1
    <3>2. CASE f # 1
      <4>1. f = 0 /\ timer' = timer
        BY <1>0, <1>4, <3>2 DEF Types
      <4> QED BY <2>2, <4>1
    <3> QED BY <3>1, <3>2
  <2>4. Len(q') <= Len(q)
    <3>1. \A a, b, c, d \in Nat : a = b - 1 /\ c <= a + d /\ d <= 1 => c <= b
      OBVIOUS
    <3>2. Len(ms) \in Nat /\ Len(ms) <= 1
      BY <1>5
    <3> QED BY <1>2, <1>8, <3>1, <3>2
  <2>5. One(timer') + Len(q') + One(fw # "dead" \/ "wdt" \in isr) <= 2 + (n["fail"] + f)
    BY <1>2, <1>7, <1>8, <2>1, <2>2, <2>3, <2>4, BoundArith, ZenonT(30)
  <2>6. One(timer') + Len(q') + One(fw' # "dead" \/ "wdt" \in isr') <= 2 + n'["fail"]
    BY <1>1, <1>7, <2>5
  <2> QED BY <1>1, <2>6 DEF QueueBound
<1>12. PollingGoesOn'
  <2>1. CASE err = "LOG"
    BY <1>0, <1>7, <2>1 DEF Events, PollingGoesOn
  <2>2. CASE err # "LOG"
    <3>1. q' # <<>> \/ n'["lost"] > 0
      <4>1. Len(q') = Len(rest) + 1 \/ n'["lost"] > 0
        BY <1>5, <1>8, <2>2, Zenon
      <4>2. Len(rest) + 1 # 0
        BY <1>2
      <4> QED BY <4>1, <4>2
    <3> QED BY <3>1 DEF PollingGoesOn
  <2> QED BY <2>1, <2>2
<1> QED BY <1>9, <1>10, <1>11, <1>12 DEF PollInv

\* _ser_poll_timer_cb
LEMMA TimerKeeps == ASSUME PollInv, _ser_poll_timer_cb PROVE PollInv'
<1>0. Types /\ n \in [Faults -> Nat] /\ q \in Seq(Msgs) /\ Events /\ Len(q) \in Nat
  BY DEF PollInv, Types
<1>1. PICK ms \in {<<"FW_EXPIRE">>, <<"POLLING_CHK">>} : Send(q, ms, 0)
  BY DEF _ser_poll_timer_cb
<1>2. /\ timer = TRUE /\ timer' = FALSE
      /\ UNCHANGED <<state, poll_cnt, bserl2, ext, up, dataVars, txTask, fwVars, cut>>
  BY <1>0 DEF _ser_poll_timer_cb, Types
<1>2b. /\ timer' \in BOOLEAN /\ UNCHANGED <<state, poll_cnt, isr, fw, err, ext, up, txTask>>
       /\ UNCHANGED <<bserl2, cut, pause_tx_id, pause_rx_id, is_hw_trx_pause>>
       /\ UNCHANGED <<phl_sw_rx_sts, phl_sw_tx_sts>>
  BY <1>2, Zenon DEF fwVars, dataVars
<1>3. CASE up = "down"
  <2>1. q' = q /\ n' = n /\ q = <<>>
    BY <1>1, <1>3 DEF Send, PollInv, QueueBound
  <2>2. Types'
    BY <1>0, <1>2b, <2>1 DEF Types
  <2>3. Events'
    BY <1>0, <1>2, <2>1 DEF Events, fwVars
  <2>4. QueueBound' /\ PollingGoesOn'
    BY <1>2, <1>3, <2>1 DEF QueueBound, PollingGoesOn
  <2> QED BY <2>2, <2>3, <2>4 DEF PollInv
<1>4. CASE up # "down"
  <2>1. ms \in Seq(Msgs) /\ Len(ms) = 1 /\ Len(ms) <= 2 /\ ms[1] # "EVENT_CHK"
    <3>1. CASE ms = <<"FW_EXPIRE">>
      BY <3>1 DEF Msgs
    <3>2. CASE ms = <<"POLLING_CHK">>
      BY <3>2 DEF Msgs
    <3> QED BY <3>1, <3>2
  <2>2. Sent(q, ms, 0)
    <3>1. 0 \in 0..1
      OBVIOUS
    <3> QED BY <1>0, <1>1, <1>4, <2>1, <3>1, SendLemma, Zenon
  <2>3. /\ n' \in [Faults -> Nat] /\ \A g \in Faults : n'[g] <= Bound[g]
        /\ n'["fail"] = n["fail"] + 0 /\ n["fail"] \in Nat /\ n'["log"] = n["log"]
    BY <1>0, <2>2, SentCounts
  <2>4. /\ q' \in Seq(Msgs) /\ Len(q) <= Len(q') /\ Len(q') <= Len(q) + 1
        /\ Len(q') \in Nat
        /\ \A i \in 1..Len(q) : q'[i] = q[i]
        /\ \A i \in (Len(q) + 1)..Len(q') : q'[i] = ms[1]
        /\ Len(q') = Len(q) + 1 \/ n'["lost"] > 0
    BY <2>1, <2>2 DEF Sent
  <2>5. Types'
    BY <1>0, <1>2b, <2>3, <2>4 DEF Types
  <2>6. Events'
    <3>1. \A i \in 1..Len(q') : q'[i] = "EVENT_CHK" => i \in 1..Len(q) /\ q[i] = "EVENT_CHK"
      <4> TAKE i \in 1..Len(q')
      <4>1. i \in 1..Len(q) \/ i \in (Len(q) + 1)..Len(q')
        BY <1>0, <2>4
      <4> QED BY <2>1, <2>4, <4>1
    <3> QED BY <1>0, <1>2, <2>3, <3>1 DEF Events, fwVars
  <2>7. QueueBound'
    <3>1. One(timer) + Len(q) + One(fw # "dead" \/ "wdt" \in isr) <= 2 + n["fail"]
      BY <1>4 DEF PollInv, QueueBound
    <3>2. One(timer) = 1 /\ One(timer') = 0 /\ One(fw # "dead" \/ "wdt" \in isr) \in 0..1
      BY <1>2 DEF One
    <3>3. \A p \in 0..1, l, l1, x \in Nat :
            1 + l + p <= 2 + x /\ l1 <= l + 1 => 0 + l1 + p <= 2 + (x + 0)
      OBVIOUS
    <3>4. 0 + Len(q') + One(fw # "dead" \/ "wdt" \in isr) <= 2 + (n["fail"] + 0)
      BY <1>0, <2>3, <2>4, <3>1, <3>2, <3>3
    <3>5. One(timer') + Len(q') + One(fw' # "dead" \/ "wdt" \in isr') <= 2 + n'["fail"]
      BY <1>2, <2>3, <3>2, <3>4 DEF fwVars
    <3> QED BY <1>2, <1>4, <3>5 DEF QueueBound
  <2>8. PollingGoesOn'
    <3>1. q' # <<>> \/ n'["lost"] > 0
      BY <1>0, <2>4
    <3> QED BY <3>1 DEF PollingGoesOn
  <2> QED BY <2>5, <2>6, <2>7, <2>8 DEF PollInv
<1> QED BY <1>3, <1>4

\* A step of the firmware, which posts an event only when the last one has been read.
LEMMA FwStepKeeps ==
    ASSUME PollInv, NEW from, NEW to, NEW e \in Errors \cup {NULL}, NEW ints,
           FwStep(from, to, e, ints),
           ints \subseteq {"halt", "wdt"}, "halt" \in ints => e # NULL,
           "wdt" \in ints => to = "dead", e = "LOG" => n'["log"] > 0,
           to \in {"run", "m1", "m2", "m3", "m4", "hung", "dead"}, fw # "dead",
           n' \in [Faults -> Nat], \A g \in Faults : n'[g] <= Bound[g],
           n'["fail"] = n["fail"], n'["lost"] = n["lost"], n["log"] <= n'["log"]
    PROVE  PollInv'
<1>0. Types /\ Events
  BY DEF PollInv
<1>1. /\ up # "down" /\ fw' = to /\ isr' = isr \cup ints
      /\ e # NULL => err = NULL
      /\ err' = IF e = NULL THEN err ELSE e
  BY DEF FwStep
<1>2. /\ UNCHANGED <<state, poll_cnt, bserl2, timer, q, ext, up, txTask, cut>>
      /\ UNCHANGED <<pause_tx_id, pause_rx_id, is_hw_trx_pause>>
      /\ UNCHANGED <<phl_sw_rx_sts, phl_sw_tx_sts>>
  BY DEF FwStep, serVars, dataVars
<1>3. Types'
  BY <1>0, <1>1, <1>2 DEF Types
<1>4. "log" \in Faults /\ n["log"] \in Nat /\ n'["log"] \in Nat
  BY <1>0 DEF Types, Faults
<1>5. Events'
  <2>1. "halt" \in isr' => err' # NULL
    BY <1>0, <1>1 DEF Events
  <2>2. \A i \in 1..Len(q') : q'[i] = "EVENT_CHK" => err' # NULL /\ "halt" \notin isr'
    BY <1>0, <1>1, <1>2 DEF Events
  <2>3. err' = "LOG" => n'["log"] > 0
    BY <1>0, <1>1, <1>4 DEF Events
  <2>4. "wdt" \in isr' => fw' = "dead"
    BY <1>0, <1>1 DEF Events
  <2> QED BY <1>0, <1>2, <2>1, <2>2, <2>3, <2>4 DEF Events
<1>6. QueueBound'
  <2>1. One(timer) + Len(q) + One(fw # "dead" \/ "wdt" \in isr) <= 2 + n["fail"]
    BY <1>1 DEF PollInv, QueueBound
  <2>2. One(fw # "dead" \/ "wdt" \in isr) = 1 /\ One(fw' # "dead" \/ "wdt" \in isr') \in 0..1
        /\ One(timer) \in 0..1 /\ Len(q) \in Nat /\ n["fail"] \in Nat
    BY <1>0 DEF One, Types, Faults
  <2>3. \A t, p \in 0..1, l, x \in Nat : t + l + 1 <= 2 + x => t + l + p <= 2 + x
    OBVIOUS
  <2>4. One(timer) + Len(q) + One(fw' # "dead" \/ "wdt" \in isr') <= 2 + n["fail"]
    BY <2>1, <2>2, <2>3
  <2> QED BY <1>1, <1>2, <2>4 DEF QueueBound
<1>7. PollingGoesOn'
  BY <1>2, <1>4 DEF PollInv, PollingGoesOn
<1> QED BY <1>3, <1>5, <1>6, <1>7 DEF PollInv

\* The firmware's actions.
LEMMA FirmwareKeeps ==
    ASSUME PollInv, FwL1 \/ FwM3 \/ FwM5 \/ FwLog \/ FwHang \/ FwWdt
    PROVE  PollInv'
<1>0. /\ Types /\ n \in [Faults -> Nat] /\ \A g \in Faults : n[g] <= Bound[g]
      /\ fw \in {"run", "m1", "m2", "m3", "m4", "hung", "dead"}
      /\ n["log"] \in Nat
  BY DEF PollInv, Types, Faults
<1>1. NULL \notin Errors
  BY SerAssumption
<1>2. ASSUME NEW f \in Faults, Count(f)
      PROVE  /\ n' \in [Faults -> Nat] /\ \A g \in Faults : n'[g] <= Bound[g]
             /\ n'[f] = n[f] + 1 /\ \A g \in Faults \ {f} : n'[g] = n[g]
             /\ \A g \in Faults : n[g] <= n'[g]
  BY <1>0, <1>2, CountLemma
<1>3. CASE FwL1
  <2>1. FwStep({"run"}, "m1", "L1_ERR", {"halt"}) /\ Count("l1") /\ fw = "run"
    BY <1>3 DEF FwL1, FwStep
  <2>2. /\ n' \in [Faults -> Nat] /\ \A g \in Faults : n'[g] <= Bound[g]
        /\ n'["fail"] = n["fail"] /\ n'["lost"] = n["lost"] /\ n["log"] <= n'["log"]
    BY <1>2, <2>1 DEF Faults
  <2>3. "L1_ERR" \in Errors
    BY DEF Errors
  <2> QED BY <1>1, <2>1, <2>2, <2>3, FwStepKeeps
<1>4. CASE FwM3
  <2>1. FwStep({"m2"}, "m3", "DISABLE_DONE", {"halt"}) /\ n' = n /\ fw = "m2"
    BY <1>4 DEF FwM3, FwStep
  <2>2. "DISABLE_DONE" \in Errors /\ n["log"] <= n'["log"]
    BY <1>0, <2>1 DEF Errors
  <2> QED BY <1>0, <1>1, <2>1, <2>2, FwStepKeeps
<1>5. CASE FwM5
  <2>1. FwStep({"m4"}, "run", "RECOVERY_DONE", {"halt"}) /\ n' = n /\ fw = "m4"
    BY <1>5 DEF FwM5, FwStep
  <2>2. "RECOVERY_DONE" \in Errors /\ n["log"] <= n'["log"]
    BY <1>0, <2>1 DEF Errors
  <2> QED BY <1>0, <1>1, <2>1, <2>2, FwStepKeeps
<1>6. CASE FwLog
  <2>1. FwStep({fw}, fw, "LOG", {"halt"}) /\ Count("log") /\ fw # "dead"
    BY <1>6 DEF FwLog
  <2>2. /\ n' \in [Faults -> Nat] /\ \A g \in Faults : n'[g] <= Bound[g]
        /\ n'["fail"] = n["fail"] /\ n'["lost"] = n["lost"] /\ n["log"] <= n'["log"]
        /\ n'["log"] > 0
    BY <1>0, <1>2, <2>1 DEF Faults
  <2>3. "LOG" \in Errors
    BY DEF Errors
  <2> QED BY <1>0, <1>1, <2>1, <2>2, <2>3, FwStepKeeps
<1>7. CASE FwHang
  <2>1. /\ FwStep({"run", "m1", "m2", "m3", "m4"}, "hung", NULL, {}) /\ Count("hang")
        /\ fw # "dead"
    BY <1>7 DEF FwHang, FwStep
  <2>2. /\ n' \in [Faults -> Nat] /\ \A g \in Faults : n'[g] <= Bound[g]
        /\ n'["fail"] = n["fail"] /\ n'["lost"] = n["lost"] /\ n["log"] <= n'["log"]
    BY <1>2, <2>1 DEF Faults
  <2>3. NULL # "LOG"
    BY <1>1 DEF Errors
  <2> QED BY <1>1, <2>1, <2>2, <2>3, FwStepKeeps
<1>8. CASE FwWdt
  <2>1. n' = n /\ fw = "hung" /\ n["log"] <= n'["log"]
    BY <1>0, <1>8 DEF FwWdt, FwStep
  <2>2. NULL # "LOG" /\ "L2_ERR" \in Errors /\ NULL # "L2_ERR"
    BY <1>1 DEF Errors
  <2>3. CASE FwStep({"hung"}, "dead", NULL, {"wdt"})
    BY <1>0, <2>1, <2>2, <2>3, FwStepKeeps
  <2>4. CASE FwStep({"hung"}, "dead", "L2_ERR", {"halt"})
    BY <1>0, <2>1, <2>2, <2>4, FwStepKeeps
  <2> QED BY <1>8, <2>3, <2>4 DEF FwWdt
<1> QED BY <1>3, <1>4, <1>5, <1>6, <1>7, <1>8

\* The module's start and stop, the messages of other modules, and the TX tasklet.
LEMMA OthersKeep ==
    ASSUME PollInv,
           \/ ExtSend \/ _ser_hdl_external_evt \/ TxTest \/ phl_tx_stop_usb
           \/ _phl_ser_mdl_stop \/ dispr_stop \/ _phl_ser_mdl_start \/ UNCHANGED vars
    PROVE  PollInv'
<1>0. /\ Types /\ Events /\ QueueBound /\ PollingGoesOn
      /\ n \in [Faults -> Nat] /\ \A g \in Faults : n[g] <= Bound[g]
  BY DEF PollInv, Types
<1> USE DEF serVars, dataVars, fwVars
<1>1. CASE ExtSend \/ _ser_hdl_external_evt \/ TxTest \/ phl_tx_stop_usb \/ UNCHANGED vars
  <2>1. /\ UNCHANGED <<state, poll_cnt, bserl2, timer, q, up, cut, fw, err, isr, n>>
        /\ UNCHANGED <<pause_tx_id, pause_rx_id, is_hw_trx_pause, phl_sw_rx_sts>>
    BY <1>1, SMTT(30) DEF ExtSend, _ser_hdl_external_evt, TxTest, phl_tx_stop_usb, vars
  <2>2. /\ ext' \in {"none", "wait", "pend"} /\ txTask' \in {"idle", "stop"}
        /\ phl_sw_tx_sts' \in {"RUNNING", "STOP_INPROGRESS", "SW_PAUSE"}
    BY <1>0, <1>1 DEF ExtSend, _ser_hdl_external_evt, TxTest, phl_tx_stop_usb, vars, Types
  <2>3. Types'
    BY <1>0, <2>1, <2>2 DEF Types
  <2>4. Events' /\ QueueBound' /\ PollingGoesOn'
    BY <1>0, <2>1 DEF Events, QueueBound, PollingGoesOn
  <2> QED BY <2>3, <2>4 DEF PollInv
<1>2. CASE _phl_ser_mdl_stop
  <2>1. /\ up = "up" /\ up' = "stopping" /\ timer' = FALSE /\ Count("stop")
        /\ UNCHANGED <<state, poll_cnt, bserl2, q, ext, txTask, cut, fw, err, isr>>
        /\ UNCHANGED <<pause_tx_id, pause_rx_id, is_hw_trx_pause, phl_sw_rx_sts>>
        /\ UNCHANGED phl_sw_tx_sts
    BY <1>2 DEF _phl_ser_mdl_stop
  <2>2. /\ n' \in [Faults -> Nat] /\ \A g \in Faults : n'[g] <= Bound[g]
        /\ n'["fail"] = n["fail"] /\ n'["log"] = n["log"]
    BY <1>0, <2>1, CountLemma DEF Faults
  <2>3. Types'
    <3>1. timer' \in BOOLEAN /\ up' \in {"up", "stopping", "down"}
      BY <2>1, Zenon
    <3>2. /\ UNCHANGED <<state, poll_cnt, bserl2, q, ext, txTask, cut, fw, err, isr>>
          /\ UNCHANGED <<pause_tx_id, pause_rx_id, is_hw_trx_pause, phl_sw_rx_sts>>
          /\ UNCHANGED phl_sw_tx_sts
      BY <2>1
    <3> QED BY <1>0, <2>2, <3>1, <3>2 DEF Types
  <2>4. Events'
    BY <1>0, <2>1, <2>2 DEF Events
  <2>5. QueueBound'
    <3>1. One(timer) + Len(q) + One(fw # "dead" \/ "wdt" \in isr) <= 2 + n["fail"]
      BY <1>0, <2>1 DEF QueueBound
    <3>2. /\ One(timer) \in 0..1 /\ One(timer') = 0 /\ Len(q) \in Nat /\ n["fail"] \in Nat
          /\ One(fw # "dead" \/ "wdt" \in isr) \in 0..1
      BY <1>0, <2>1 DEF One, Types, Faults
    <3>3. \A t, p \in 0..1, l, x \in Nat : t + l + p <= 2 + x => 0 + l + p <= 2 + x
      OBVIOUS
    <3>4. 0 + Len(q) + One(fw # "dead" \/ "wdt" \in isr) <= 2 + n["fail"]
      BY <3>1, <3>2, <3>3
    <3> QED BY <2>1, <2>2, <3>2, <3>4 DEF QueueBound
  <2>6. PollingGoesOn'
    BY <2>1 DEF PollingGoesOn
  <2> QED BY <2>3, <2>4, <2>5, <2>6 DEF PollInv
<1>3. CASE dispr_stop
  <2>1. /\ up' = "down" /\ q' = <<>> /\ ext' = "none" /\ cut' \in BOOLEAN
        /\ UNCHANGED <<state, poll_cnt, bserl2, timer, txTask, fw, err, isr, n>>
        /\ UNCHANGED <<pause_tx_id, pause_rx_id, is_hw_trx_pause, phl_sw_rx_sts>>
        /\ UNCHANGED phl_sw_tx_sts
    BY <1>0, <1>3 DEF dispr_stop, Types
  <2>2. q' \in Seq(Msgs) /\ Len(q') = 0
    BY <2>1
  <2>3. Types'
    BY <1>0, <2>1, <2>2 DEF Types
  <2>4. Events'
    BY <1>0, <2>1, <2>2 DEF Events
  <2>5. QueueBound' /\ PollingGoesOn'
    BY <2>1 DEF QueueBound, PollingGoesOn
  <2> QED BY <2>3, <2>4, <2>5 DEF PollInv
<1>4. CASE _phl_ser_mdl_start
  <2>1. /\ up = "down" /\ up' = "up" /\ state' = {} /\ poll_cnt' = 0 /\ timer' = TRUE
        /\ fw' = "run" /\ err' = NULL /\ isr' = {}
        /\ UNCHANGED <<bserl2, q, ext, txTask, cut, n>>
        /\ UNCHANGED <<pause_tx_id, pause_rx_id, is_hw_trx_pause, phl_sw_rx_sts>>
        /\ UNCHANGED phl_sw_tx_sts
    BY <1>4 DEF _phl_ser_mdl_start, _ser_reset_status
  <2>2. q = <<>> /\ Len(q) = 0 /\ n["fail"] \in Nat /\ 0 \in 0..PollTimes
    BY <1>0, <2>1, SerAssumption DEF QueueBound, Types, Faults
  <2>3. Types'
    BY <1>0, <2>1, <2>2 DEF Types
  <2>4. Events'
    <3>1. NULL # "LOG"
      BY SerAssumption DEF Errors
    <3> QED BY <2>1, <2>2, <3>1 DEF Events
  <2>5. QueueBound'
    <3>1. One(timer') = 1 /\ One(fw' # "dead" \/ "wdt" \in isr') = 1 /\ Len(q') = 0
      BY <2>1, <2>2 DEF One
    <3>2. 1 + 0 + 1 <= 2 + n["fail"]
      BY <2>2
    <3> QED BY <2>1, <3>1, <3>2 DEF QueueBound
  <2>6. PollingGoesOn'
    BY <2>1 DEF PollingGoesOn
  <2> QED BY <2>3, <2>4, <2>5, <2>6 DEF PollInv
<1> QED BY <1>1, <1>2, <1>3, <1>4

\* The inductive invariant behind the types, the bound and the polling.
LEMMA Polls == Spec => []PollInv
<1>1. Init => PollInv
  <2> SUFFICES ASSUME Init PROVE PollInv
    OBVIOUS
  <2>1. /\ n \in [Faults -> Nat] /\ \A f \in Faults : n[f] = 0
    BY DEF Init
  <2>2. \A f \in Faults : n[f] <= Bound[f]
    BY <2>1, BoundIs
  <2>3. q = <<>> /\ Len(q) = 0 /\ q \in Seq(Msgs) /\ 0 \in 0..PollTimes /\ n["fail"] = 0
    BY <2>1, SerAssumption DEF Init, Faults
  <2>4. Types
    BY <2>1, <2>2, <2>3, Zenon DEF Init, Types
  <2>5. Events
    <3>1. NULL # "LOG"
      BY SerAssumption DEF Errors
    <3> QED BY <2>3, <3>1 DEF Init, Events
  <2>6. QueueBound
    <3>1. One(timer) = 1 /\ One(fw # "dead" \/ "wdt" \in isr) = 1
      BY DEF Init, One
    <3>2. 1 + 0 + 1 <= 2 + 0 /\ up # "down"
      BY DEF Init
    <3> QED BY <2>3, <3>1, <3>2 DEF QueueBound
  <2>7. PollingGoesOn
    BY DEF Init, PollingGoesOn
  <2> QED BY <2>4, <2>5, <2>6, <2>7 DEF PollInv
<1>2. PollInv /\ [Next]_vars => PollInv'
  <2> SUFFICES ASSUME PollInv, [Next]_vars PROVE PollInv'
    OBVIOUS
  <2>1. CASE Handler
    BY <2>1, PollingChkKeeps, EvtChkKeeps, HandshakeKeeps DEF Handler
  <2>2. CASE _ser_poll_timer_cb
    BY <2>2, TimerKeeps
  <2>3. CASE FwL1 \/ FwM3 \/ FwM5 \/ FwLog \/ FwHang \/ FwWdt
    BY <2>3, FirmwareKeeps
  <2>4. CASE \/ ExtSend \/ _ser_hdl_external_evt \/ TxTest \/ phl_tx_stop_usb
             \/ _phl_ser_mdl_stop \/ dispr_stop \/ _phl_ser_mdl_start \/ UNCHANGED vars
    BY <2>4, OthersKeep
  <2> QED BY <2>1, <2>2, <2>3, <2>4 DEF Next
<1> QED BY <1>1, <1>2, PTL DEF Spec

\* Type correctness; the messages of the SER module in the dispatcher never exceed
\* two and one for every failure that set the timer (_ser_fail_ev_hdlr).
THEOREM TypeCorrect == Spec => []TypeOK
<1>1. PollInv => TypeOK
  <2> SUFFICES ASSUME PollInv PROVE TypeOK
    OBVIOUS
  <2>1. Types /\ QueueBound
    BY DEF PollInv
  <2>2. /\ Len(q) \in Nat /\ n["fail"] \in Nat /\ n["fail"] <= MaxFails
    BY <2>1, BoundIs DEF Types, Faults
  <2>3. /\ One(timer) \in 0..1 /\ One(fw # "dead" \/ "wdt" \in isr) \in 0..1
        /\ MaxFails \in Nat
    BY SerAssumption DEF One
  <2>4. \A t, p \in 0..1, l, x, m \in Nat : t + l + p <= 2 + x /\ x <= m => l <= 2 + m
    OBVIOUS
  <2>5. Len(q) <= 2 + MaxFails
    <3>1. CASE up = "down"
      BY <2>1, <2>3, <3>1 DEF QueueBound
    <3>2. CASE up # "down"
      <4>1. One(timer) + Len(q) + One(fw # "dead" \/ "wdt" \in isr) <= 2 + n["fail"]
        BY <2>1, <3>2 DEF QueueBound
      <4> QED BY <2>2, <2>3, <2>4, <4>1
    <3> QED BY <3>1, <3>2
  <2> QED BY <2>1, <2>5 DEF Types, TypeOK
<1> QED BY <1>1, Polls, PTL

\* Polling goes on while the module is up: short of a message without a slot and of an
\* event that asks for a log, no handler, failure, stop or restart ends it.
THEOREM PollingAlive == Spec => []PollingGoesOn
<1>1. PollInv => PollingGoesOn
  BY DEF PollInv
<1> QED BY <1>1, Polls, PTL

-----------------------------------------------------------------------------
(***************************************************************************)
(* The handshake with the firmware.                                         *)
(***************************************************************************)
\* The events of the handshake, as messages and as the status they are read from.
Steps  == {"M1", "M3", "M5"}
Posted == {"L1_ERR", "DISABLE_DONE", "RECOVERY_DONE"}

\* Where the firmware may be while an event is on its way to its handler.
AtM1 == fw \in {"m1", "hung", "dead"}
AtM3 == fw \in {"m3", "hung", "dead"}
AtM5 == fw \in {"run", "m1", "hung", "dead"} /\ ~pause_rx_id

\* The events on their way fit the firmware's state, and only the M1 of the next
\* recovery follows another, the M5 of the last.
InFlight ==
    /\ \A i \in 1..Len(q) :
          /\ q[i] = "M1" => AtM1
          /\ q[i] = "M3" => AtM3
          /\ q[i] = "M5" => AtM5
          /\ q[i] \in Steps /\ err \in Posted => q[i] = "M5" /\ err = "L1_ERR"
    /\ err = "L1_ERR" => AtM1
    /\ err = "DISABLE_DONE" => AtM3
    /\ err = "RECOVERY_DONE" => AtM5
    /\ \A i, j \in 1..Len(q) :
          i < j /\ q[i] \in Steps /\ q[j] \in Steps => q[i] = "M5" /\ q[j] = "M1"

\* What is paused at each stage.
Pauses ==
    /\ up = "down" => state = {}
    /\ pause_tx_id <=> state # {}
    /\ pause_rx_id => pause_tx_id
    /\ fw = "m2" => pause_tx_id /\ is_hw_trx_pause
    /\ fw = "m4" => /\ pause_tx_id /\ ~is_hw_trx_pause
                    /\ ~pause_rx_id /\ phl_sw_rx_sts = "RUNNING"

\* Until a recovery fails or is cut short.
Handshake == ~bserl2 /\ ~cut => InFlight /\ Pauses

\* A step that neither handles nor posts an event of the handshake: the events in the
\* queue after it were there before, d places further back.
LEMMA InFlightKept ==
    ASSUME PollInv, InFlight, UNCHANGED <<fw, pause_rx_id>>, NEW d \in 0..1,
           Len(q') \in Nat, err' = err \/ err' \notin Posted,
           \A i \in 1..Len(q') :
              q'[i] \in Steps => i + d \in 1..Len(q) /\ q'[i] = q[i + d]
    PROVE  InFlight'
<1>1. (AtM1' <=> AtM1) /\ (AtM3' <=> AtM3) /\ (AtM5' <=> AtM5)
  BY DEF AtM1, AtM3, AtM5
<1>2. ASSUME NEW i \in 1..Len(q')
      PROVE  /\ q'[i] = "M1" => AtM1'
             /\ q'[i] = "M3" => AtM3'
             /\ q'[i] = "M5" => AtM5'
             /\ q'[i] \in Steps /\ err' \in Posted => q'[i] = "M5" /\ err' = "L1_ERR"
  <2>1. q'[i] \in Steps => i + d \in 1..Len(q) /\ q'[i] = q[i + d]
    OBVIOUS
  <2>2. CASE q'[i] \notin Steps
    BY <2>2 DEF Steps
  <2>3. CASE q'[i] \in Steps
    BY <1>1, <2>1, <2>3 DEF InFlight
  <2> QED BY <2>2, <2>3
<1>3. ASSUME NEW i \in 1..Len(q'), NEW j \in 1..Len(q'),
             i < j, q'[i] \in Steps, q'[j] \in Steps
      PROVE  q'[i] = "M5" /\ q'[j] = "M1"
  <2>1. /\ i + d \in 1..Len(q) /\ q'[i] = q[i + d]
        /\ j + d \in 1..Len(q) /\ q'[j] = q[j + d]
    BY <1>3
  <2>2. i + d < j + d
    BY <1>3
  <2> QED BY <1>3, <2>1, <2>2 DEF InFlight
<1>4. /\ err' = "L1_ERR" => AtM1'
      /\ err' = "DISABLE_DONE" => AtM3'
      /\ err' = "RECOVERY_DONE" => AtM5'
  BY <1>1 DEF InFlight, Posted
<1> QED BY <1>2, <1>3, <1>4 DEF InFlight

\* The handler of the only event on its way leaves none.
LEMMA InFlightLast ==
    ASSUME PollInv, InFlight, q # <<>>, q[1] \in {"M1", "M3"}, q' = Tail(q), err' = err
    PROVE  InFlight'
<1>1. q \in Seq(Msgs)
  BY DEF PollInv, Types
<1>2. /\ Len(Tail(q)) \in Nat /\ 1 \in 1..Len(q)
      /\ \A i \in 1..Len(Tail(q)) : Tail(q)[i] = q[i + 1] /\ i + 1 \in 1..Len(q)
  BY <1>1, DoneLemma
<1>3. err' \notin Posted
  BY <1>2 DEF InFlight, Steps
<1>4. ASSUME NEW i \in 1..Len(q') PROVE q'[i] \notin Steps
  <2>1. i + 1 \in 1..Len(q) /\ q'[i] = q[i + 1] /\ 1 < i + 1
    BY <1>2
  <2> QED BY <1>2, <2>1 DEF InFlight, Steps
<1> QED BY <1>3, <1>4 DEF InFlight, Steps, Posted

\* The handlers of the background thread.
LEMMA HandlersShake == ASSUME PollInv, Handshake, Handler PROVE Handshake'
<1>0. Types /\ q \in Seq(Msgs) /\ n \in [Faults -> Nat] /\ isr \subseteq {"halt", "wdt"}
  BY DEF PollInv, Types
<1>1. up # "down" /\ q # <<>> /\ UNCHANGED <<up, cut>>
  BY DEF Handler, Handles, _ser_msg_hdl_polling_chk, _ser_msg_hdl_evt_chk,
         _ser_msg_hdl_m1, _ser_msg_hdl_m3, _ser_msg_hdl_m5, _ser_msg_hdl_m9,
         _ser_msg_hdl_fw_expire
<1>2. /\ Tail(q) \in Seq(Msgs) /\ Len(Tail(q)) = Len(q) - 1 /\ Len(Tail(q)) \in Nat
      /\ Len(q) \in Nat /\ Head(q) = q[1] /\ 1 \in 1..Len(q)
      /\ \A i \in 1..Len(Tail(q)) : Tail(q)[i] = q[i + 1] /\ i + 1 \in 1..Len(q)
  BY <1>0, <1>1, DoneLemma
<1>3. CASE bserl2' = TRUE
  BY <1>3 DEF Handshake
<1>4. CASE bserl2' = bserl2 /\ ~bserl2 /\ ~cut
  <2>0. InFlight /\ Pauses
    BY <1>4 DEF Handshake
  <2>1. CASE _ser_msg_hdl_polling_chk
    <3>1. UNCHANGED <<state, fw, err, pause_tx_id, pause_rx_id, is_hw_trx_pause, phl_sw_rx_sts>>
      BY <2>1 DEF _ser_msg_hdl_polling_chk, dataVars
    <3>2. Pauses'
      BY <1>1, <2>0, <3>1 DEF Pauses
    <3>3. /\ Len(q') \in Nat
          /\ \A i \in 1..Len(q') : q'[i] \in Steps => i + 1 \in 1..Len(q) /\ q'[i] = q[i + 1]
      <4>1. CASE isr = {}
        <5>1. q' = Tail(q)
          BY <2>1, <4>1 DEF _ser_msg_hdl_polling_chk, Done
        <5> QED BY <1>2, <5>1
      <4>2. CASE isr # {}
        <5>1. PICK f \in 0..1 : Send(Tail(q), Interrupts, f)
          BY <2>1, <4>2 DEF _ser_msg_hdl_polling_chk
        <5>2. /\ Interrupts \in Seq(Msgs) /\ Len(Interrupts) <= 2
          BY <1>0, InterruptsLemma
        <5>3. Sent(Tail(q), Interrupts, f)
          BY <1>0, <1>1, <1>2, <5>1, <5>2, SendLemma, Zenon
        <5>4. \A j \in 1..Len(Interrupts) : Interrupts[j] \notin Steps
          BY <1>0, InterruptElems DEF Steps
        <5>5. /\ q' \in Seq(Msgs) /\ Len(q') \in Nat
              /\ \A i \in 1..Len(Tail(q)) : q'[i] = Tail(q)[i]
              /\ \A i \in (Len(Tail(q)) + 1)..Len(q') :
                    \E j \in 1..Len(Interrupts) : q'[i] = Interrupts[j]
          BY <5>3, SMTT(30) DEF Sent
        <5>6. \A i \in 1..Len(q') : i \in 1..Len(Tail(q)) \/ i \in (Len(Tail(q)) + 1)..Len(q')
          BY <1>2, <5>5
        <5> QED BY <1>2, <5>4, <5>5, <5>6
      <4> QED BY <4>1, <4>2
    <3>4. InFlight'
      <4>1. 1 \in 0..1
        OBVIOUS
      <4> QED BY <2>0, <3>1, <3>3, <4>1, InFlightKept
    <3> QED BY <3>2, <3>4 DEF Handshake
  <2>2. CASE _ser_msg_hdl_evt_chk
    <3>1. /\ UNCHANGED <<state, fw, pause_tx_id, pause_rx_id, is_hw_trx_pause, phl_sw_rx_sts>>
          /\ q[1] = "EVENT_CHK" /\ err' = NULL
      BY <1>2, <2>2 DEF _ser_msg_hdl_evt_chk, _ser_event_notify, Handles, dataVars
    <3>2. Pauses'
      BY <1>1, <2>0, <3>1 DEF Pauses
    <3>3. err \in Errors
      BY <1>0, <1>2, <3>1 DEF PollInv, Events, Types
    <3>4. PICK f \in 0..1 : Send(Tail(q), Notify[err], f)
      BY <2>2 DEF _ser_msg_hdl_evt_chk, _ser_event_notify
    <3> DEFINE ms == Notify[err]
    <3>5. /\ ms \in Seq(Msgs) /\ Len(ms) <= 1
          /\ \A j \in 1..Len(ms) :
                /\ ms[j] = "M1" => err = "L1_ERR"
                /\ ms[j] = "M3" => err = "DISABLE_DONE"
                /\ ms[j] = "M5" => err = "RECOVERY_DONE"
      BY <3>3, NotifyLemma
    <3> HIDE DEF ms
    <3>6. Len(ms) \in Nat /\ Len(ms) <= 2
      <4>1. Len(ms) \in Nat /\ \A a \in Nat : a <= 1 => a <= 2
        BY <3>5
      <4> QED BY <3>5, <4>1
    <3>7. Sent(Tail(q), ms, f)
      BY <1>0, <1>1, <1>2, <3>4, <3>5, <3>6, SendLemma, Zenon DEF ms
    <3>8. /\ Len(q') \in Nat /\ Len(q') <= Len(Tail(q)) + Len(ms)
          /\ \A i \in 1..Len(Tail(q)) : q'[i] = Tail(q)[i]
          /\ \A i \in (Len(Tail(q)) + 1)..Len(q') : \E j \in 1..Len(ms) : q'[i] = ms[j]
      BY <3>7 DEF Sent
    <3>9. ASSUME NEW i \in 1..Len(q'), q'[i] \in Steps
          PROVE  \/ i \in 1..Len(Tail(q)) /\ q'[i] = q[i + 1] /\ i + 1 \in 1..Len(q)
                 \/ /\ i = Len(Tail(q)) + 1 /\ err \in Posted
                    /\ q'[i] = "M1" => err = "L1_ERR"
                    /\ q'[i] = "M3" => err = "DISABLE_DONE"
                    /\ q'[i] = "M5" => err = "RECOVERY_DONE"
      <4>1. CASE i \in 1..Len(Tail(q))
        BY <1>2, <3>8, <4>1, Zenon
      <4>2. CASE i \notin 1..Len(Tail(q))
        <5>1. i = Len(Tail(q)) + 1
          <6>1. \A a, b, c \in Nat : \A k \in 1..c :
                  c <= a + b /\ b <= 1 /\ k \notin 1..a => k = a + 1
            OBVIOUS
          <6> QED BY <1>2, <3>5, <3>6, <3>8, <4>2, <6>1, Zenon
        <5>2. i \in (Len(Tail(q)) + 1)..Len(q')
          BY <1>2, <3>8, <5>1
        <5> QED BY <3>5, <3>8, <3>9, <5>1, <5>2 DEF Steps, Posted
      <4> QED BY <4>1, <4>2
    <3>10. (AtM1' <=> AtM1) /\ (AtM3' <=> AtM3) /\ (AtM5' <=> AtM5)
      BY <3>1 DEF AtM1, AtM3, AtM5
    <3>11. err' \notin Posted
      BY <3>1, SerAssumption DEF Posted, Errors
    <3>12. ASSUME NEW i \in 1..Len(q')
           PROVE  /\ q'[i] = "M1" => AtM1'
                  /\ q'[i] = "M3" => AtM3'
                  /\ q'[i] = "M5" => AtM5'
      BY <2>0, <3>9, <3>10 DEF InFlight, Steps
    <3>13. ASSUME NEW i \in 1..Len(q'), NEW j \in 1..Len(q'),
                  i < j, q'[i] \in Steps, q'[j] \in Steps
           PROVE  q'[i] = "M5" /\ q'[j] = "M1"
      <4>1. i \in 1..Len(Tail(q)) /\ q'[i] = q[i + 1] /\ i + 1 \in 1..Len(q)
        <5>1. \A c, k \in Nat : \A a, b \in 1..c : a < b /\ a = k + 1 => b # k + 1 /\ b \notin 1..k
          OBVIOUS
        <5>2. i # Len(Tail(q)) + 1
          BY <1>2, <3>8, <3>9, <3>13, <5>1, ZenonT(60)
        <5> QED BY <3>9, <3>13, <5>2
      <4>2. CASE j \in 1..Len(Tail(q)) /\ q'[j] = q[j + 1] /\ j + 1 \in 1..Len(q)
        <5>1. i + 1 < j + 1
          BY <3>13
        <5> QED BY <2>0, <3>13, <4>1, <4>2, <5>1 DEF InFlight
      <4>3. CASE ~(j \in 1..Len(Tail(q)) /\ q'[j] = q[j + 1] /\ j + 1 \in 1..Len(q))
        <5>1. /\ err \in Posted
              /\ q'[j] = "M1" => err = "L1_ERR"
              /\ q'[j] = "M3" => err = "DISABLE_DONE"
              /\ q'[j] = "M5" => err = "RECOVERY_DONE"
          BY <3>9, <3>13, <4>3
        <5> QED BY <2>0, <3>13, <4>1, <5>1 DEF InFlight, Steps
      <4> QED BY <4>2, <4>3
    <3>14. InFlight'
      BY <3>11, <3>12, <3>13 DEF InFlight, Posted
    <3> QED BY <3>2, <3>14 DEF Handshake
  <2>3. CASE _ser_msg_hdl_m1
    <3>1. M1Paused /\ q[1] = "M1" /\ q' = Tail(q) /\ err' = err
      BY <1>2, <1>4, <2>3 DEF _ser_msg_hdl_m1, Handles, Done, M1Fails, L2
    <3>2. InFlight'
      BY <1>1, <2>0, <3>1, InFlightLast
    <3>3. /\ state' # {} /\ pause_tx_id' = TRUE /\ is_hw_trx_pause' = TRUE
          /\ fw' = IF fw = "m1" THEN "m2" ELSE fw
      BY <3>1 DEF M1Paused, TxPause, _phl_hw_trx_pause, _ser_m2_notify
    <3>4. fw # "m4"
      BY <1>2, <2>0, <3>1 DEF InFlight, AtM1
    <3>5. Pauses'
      BY <1>1, <3>3, <3>4 DEF Pauses
    <3> QED BY <3>2, <3>5 DEF Handshake
  <2>4. CASE _ser_msg_hdl_m3
    <3>1. M3Reset /\ q[1] = "M3" /\ q' = Tail(q) /\ err' = err /\ pause_tx_id' = pause_tx_id
      BY <1>2, <1>4, <2>4 DEF _ser_msg_hdl_m3, Handles, Done, M3Fails, L2
    <3>2. InFlight'
      BY <1>1, <2>0, <3>1, InFlightLast
    <3>3. /\ state' # {} /\ pause_rx_id /\ pause_rx_id' = FALSE /\ is_hw_trx_pause' = FALSE
          /\ phl_sw_rx_sts' = "RUNNING" /\ fw' = IF fw = "m3" THEN "m4" ELSE fw
      BY <3>1 DEF M3Reset, _phl_hw_trx_rst_resume, _phl_sw_rx_resume, _ser_m4_notify
    <3>4. fw # "m2" /\ pause_tx_id
      BY <1>2, <2>0, <3>1, <3>3 DEF InFlight, AtM3, Pauses
    <3>5. Pauses'
      BY <1>1, <3>1, <3>3, <3>4 DEF Pauses
    <3> QED BY <3>2, <3>5 DEF Handshake
  <2>5. CASE _ser_msg_hdl_m5
    <3>1. /\ q[1] = "M5" /\ q' = Tail(q) /\ state' = {} /\ pause_tx_id' = FALSE
          /\ UNCHANGED <<fw, err, pause_rx_id>>
      BY <1>2, <2>5 DEF _ser_msg_hdl_m5, Handles, Done, _phl_sw_tx_resume,
                        _ser_reset_status, fwVars
    <3>2. AtM5
      BY <1>2, <2>0, <3>1 DEF InFlight
    <3>3. Pauses'
      BY <1>1, <3>1, <3>2 DEF Pauses, AtM5
    <3>4. InFlight'
      <4>1. 1 \in 0..1
        OBVIOUS
      <4> QED BY <1>2, <2>0, <3>1, <4>1, InFlightKept
    <3> QED BY <3>3, <3>4 DEF Handshake
  <2>6. CASE _ser_msg_hdl_m9 \/ _ser_msg_hdl_fw_expire
    BY <1>4, <2>6 DEF _ser_msg_hdl_m9, _ser_msg_hdl_fw_expire, L2
  <2> QED BY <2>1, <2>2, <2>3, <2>4, <2>5, <2>6 DEF Handler
<1>5. CASE bserl2' = bserl2 /\ (bserl2 \/ cut)
  BY <1>1, <1>5 DEF Handshake
<1>6. bserl2' = TRUE \/ bserl2' = bserl2
  BY Zenon DEF Handler, _ser_msg_hdl_polling_chk, _ser_msg_hdl_evt_chk,
         _ser_msg_hdl_m1, _ser_msg_hdl_m3, _ser_msg_hdl_m5, _ser_msg_hdl_m9,
         _ser_msg_hdl_fw_expire, M1Paused, M1Fails, M3Reset, M3Fails, L2
<1> QED BY <1>3, <1>4, <1>5, <1>6, Zenon

\* The firmware's actions.
LEMMA FirmwareShakes ==
    ASSUME PollInv, Handshake, FwL1 \/ FwM3 \/ FwM5 \/ FwLog \/ FwHang \/ FwWdt
    PROVE  Handshake'
<1>1. /\ UNCHANGED <<bserl2, cut, state, q, up>>
      /\ UNCHANGED <<pause_tx_id, pause_rx_id, is_hw_trx_pause, phl_sw_rx_sts>>
  BY DEF FwL1, FwM3, FwM5, FwLog, FwHang, FwWdt, FwStep, serVars, dataVars
<1>2. SUFFICES ASSUME ~bserl2, ~cut PROVE InFlight' /\ Pauses'
  BY <1>1 DEF Handshake
<1>3. InFlight /\ Pauses
  BY <1>2 DEF Handshake
<1>4. NULL \notin Errors /\ q \in Seq(Msgs) /\ Len(q) \in Nat
  BY SerAssumption DEF PollInv, Types
<1>5. CASE FwL1
  <2>1. fw = "run" /\ fw' = "m1" /\ err' = "L1_ERR"
    BY <1>4, <1>5 DEF FwL1, FwStep, Errors
  <2> QED BY <1>1, <1>3, <2>1 DEF InFlight, Pauses, AtM1, AtM3, AtM5, Steps, Posted
<1>6. CASE FwM3
  <2>1. fw = "m2" /\ fw' = "m3" /\ err' = "DISABLE_DONE"
    BY <1>4, <1>6 DEF FwM3, FwStep, Errors
  <2> QED BY <1>1, <1>3, <2>1 DEF InFlight, Pauses, AtM1, AtM3, AtM5, Steps, Posted
<1>7. CASE FwM5
  <2>1. fw = "m4" /\ fw' = "run" /\ err' = "RECOVERY_DONE"
    BY <1>4, <1>7 DEF FwM5, FwStep, Errors
  <2> QED BY <1>1, <1>3, <2>1 DEF InFlight, Pauses, AtM1, AtM3, AtM5, Steps, Posted
<1>8. CASE FwLog
  <2>1. fw' = fw /\ err' = "LOG"
    BY <1>4, <1>8 DEF FwLog, FwStep, Errors
  <2> QED BY <1>1, <1>3, <2>1 DEF InFlight, Pauses, AtM1, AtM3, AtM5, Steps, Posted
<1>9. CASE FwHang
  <2>1. fw' = "hung" /\ err' = err
    BY <1>9 DEF FwHang, FwStep
  <2> QED BY <1>1, <1>3, <2>1 DEF InFlight, Pauses, AtM1, AtM3, AtM5, Steps, Posted
<1>10. CASE FwWdt
  <2>1. fw = "hung" /\ fw' = "dead" /\ (err' = err \/ err' = "L2_ERR")
    BY <1>4, <1>10 DEF FwWdt, FwStep, Errors
  <2> QED BY <1>1, <1>3, <2>1 DEF InFlight, Pauses, AtM1, AtM3, AtM5, Steps, Posted
<1> QED BY <1>5, <1>6, <1>7, <1>8, <1>9, <1>10

\* The timer, the module's start and stop, and the other threads.
LEMMA OthersShake ==
    ASSUME PollInv, Handshake,
           \/ _ser_poll_timer_cb \/ ExtSend \/ _ser_hdl_external_evt \/ TxTest
           \/ phl_tx_stop_usb \/ _phl_ser_mdl_stop \/ dispr_stop \/ _phl_ser_mdl_start
           \/ UNCHANGED vars
    PROVE  Handshake'
<1>0. q \in Seq(Msgs) /\ Len(q) \in Nat /\ n \in [Faults -> Nat] /\ QueueBound
  BY DEF PollInv, Types
<1>1. /\ bserl2' = bserl2 /\ (~cut' => ~cut)
      /\ UNCHANGED <<pause_tx_id, pause_rx_id, is_hw_trx_pause, phl_sw_rx_sts>>
  <2> USE DEF _ser_poll_timer_cb, ExtSend, _ser_hdl_external_evt, TxTest, phl_tx_stop_usb,
              _phl_ser_mdl_stop, dispr_stop, _phl_ser_mdl_start, vars, serVars, dataVars
  <2>1. /\ bserl2' = bserl2
        /\ UNCHANGED <<pause_tx_id, pause_rx_id, is_hw_trx_pause, phl_sw_rx_sts>>
    OBVIOUS
  <2>2. cut' = cut \/ cut' = (cut \/ state # {})
    OBVIOUS
  <2>3. ~cut' => ~cut
    BY <2>2, Zenon
  <2> QED BY <2>1, <2>3
<1>2. SUFFICES ASSUME ~bserl2, ~cut, ~cut' PROVE InFlight' /\ Pauses'
  BY <1>1 DEF Handshake
<1>3. InFlight /\ Pauses
  BY <1>2 DEF Handshake
<1>4. CASE _ser_poll_timer_cb
  <2>1. UNCHANGED <<state, up, fw, err>>
    BY <1>4 DEF _ser_poll_timer_cb, fwVars
  <2>2. PICK ms \in {<<"FW_EXPIRE">>, <<"POLLING_CHK">>} : Send(q, ms, 0)
    BY <1>4 DEF _ser_poll_timer_cb
  <2>3. /\ Len(q') \in Nat
        /\ \A i \in 1..Len(q') : q'[i] \in Steps => i + 0 \in 1..Len(q) /\ q'[i] = q[i + 0]
    <3>1. CASE up = "down"
      BY <1>0, <2>2, <3>1 DEF Send
    <3>2. CASE up # "down"
      <4>1. ms \in Seq(Msgs) /\ Len(ms) = 1 /\ Len(ms) <= 2 /\ ms[1] \notin Steps
        <5>1. CASE ms = <<"FW_EXPIRE">>
          BY <5>1 DEF Msgs, Steps
        <5>2. CASE ms = <<"POLLING_CHK">>
          BY <5>2 DEF Msgs, Steps
        <5> QED BY <5>1, <5>2
      <4>2. 0 \in 0..1
        OBVIOUS
      <4>3. Sent(q, ms, 0)
        BY <1>0, <2>2, <3>2, <4>1, <4>2, SendLemma, Zenon
      <4>4. /\ Len(q') \in Nat /\ \A i \in 1..Len(q) : q'[i] = q[i]
            /\ \A i \in (Len(q) + 1)..Len(q') : q'[i] = ms[1]
        BY <4>1, <4>3 DEF Sent
      <4>5. \A i \in 1..Len(q') : i \in 1..Len(q) \/ i \in (Len(q) + 1)..Len(q')
        BY <1>0, <4>4
      <4> QED BY <4>1, <4>4, <4>5
    <3> QED BY <3>1, <3>2
  <2>4. InFlight'
    <3>1. 0 \in 0..1
      OBVIOUS
    <3> QED BY <1>1, <1>3, <2>1, <2>3, <3>1, InFlightKept
  <2>5. Pauses'
    BY <1>1, <1>3, <2>1 DEF Pauses
  <2> QED BY <2>4, <2>5
<1>5. CASE ExtSend \/ _ser_hdl_external_evt \/ TxTest \/ phl_tx_stop_usb \/ UNCHANGED vars
  <2>1. UNCHANGED <<state, up, q, fw, err>>
    BY <1>5 DEF ExtSend, _ser_hdl_external_evt, TxTest, phl_tx_stop_usb, vars, serVars, fwVars
  <2>2. (AtM1 <=> AtM1') /\ (AtM3 <=> AtM3') /\ (AtM5 <=> AtM5')
    BY <1>1, <2>1 DEF AtM1, AtM3, AtM5
  <2>3. InFlight'
    BY <1>3, <2>1, <2>2 DEF InFlight
  <2>4. Pauses'
    BY <1>1, <1>3, <2>1 DEF Pauses
  <2> QED BY <2>3, <2>4
<1>6. CASE _phl_ser_mdl_stop
  <2>1. UNCHANGED <<state, q, fw, err>> /\ up' = "stopping"
    BY <1>6 DEF _phl_ser_mdl_stop, fwVars
  <2> QED BY <1>1, <1>3, <2>1 DEF InFlight, Pauses, AtM1, AtM3, AtM5
<1>7. CASE dispr_stop
  <2>1. UNCHANGED <<state, fw, err>> /\ Len(q') = 0 /\ state = {}
    BY <1>2, <1>7, Zenon DEF dispr_stop, serVars, fwVars
  <2> QED BY <1>1, <1>3, <2>1 DEF InFlight, Pauses, AtM1, AtM3, AtM5
<1>8. CASE _phl_ser_mdl_start
  <2>1. up = "down" /\ state' = {} /\ fw' = "run" /\ err' = NULL /\ q' = q /\ q = <<>>
    BY <1>0, <1>8 DEF _phl_ser_mdl_start, _ser_reset_status, QueueBound
  <2>2. NULL \notin Posted /\ Len(q') = 0
    BY <2>1, SerAssumption DEF Errors, Posted
  <2>3. InFlight'
    BY <2>1, <2>2 DEF InFlight, Posted
  <2>4. Pauses'
    BY <1>1, <1>3, <2>1 DEF Pauses
  <2> QED BY <2>3, <2>4
<1> QED BY <1>4, <1>5, <1>6, <1>7, <1>8

\* The invariant of the handshake.
LEMMA Shakes == Spec => []Handshake
<1>1. Init => Handshake
  <2> SUFFICES ASSUME Init PROVE Handshake
    OBVIOUS
  <2>1. NULL \notin Posted /\ Len(q) = 0
    BY SerAssumption DEF Init, Errors, Posted
  <2> QED BY <2>1 DEF Init, Handshake, InFlight, Pauses, Posted
<1>2. PollInv /\ Handshake /\ [Next]_vars => Handshake'
  <2> SUFFICES ASSUME PollInv, Handshake, [Next]_vars PROVE Handshake'
    OBVIOUS
  <2>1. CASE Handler
    BY <2>1, HandlersShake
  <2>2. CASE FwL1 \/ FwM3 \/ FwM5 \/ FwLog \/ FwHang \/ FwWdt
    BY <2>2, FirmwareShakes
  <2>3. CASE \/ _ser_poll_timer_cb \/ ExtSend \/ _ser_hdl_external_evt \/ TxTest
             \/ phl_tx_stop_usb \/ _phl_ser_mdl_stop \/ dispr_stop \/ _phl_ser_mdl_start
             \/ UNCHANGED vars
    BY <2>3, OthersShake
  <2> QED BY <2>1, <2>2, <2>3 DEF Next
<1> QED BY <1>1, <1>2, Polls, PTL DEF Spec

\* Transmission is paused exactly while a recovery is under way: _ser_msg_hdl_m5 resumes
\* it for every M1 that paused it, however the errors follow each other.
THEOREM TxPausedForRecovery == Spec => []TxWithRecovery
<1>1. Handshake => TxWithRecovery
  BY DEF Handshake, Pauses, TxWithRecovery
<1> QED BY <1>1, Shakes, PTL

\* The firmware resets the DMA only while the TX tasklet and the hardware are stopped,
\* and recovers with the hardware and reception running and transmission stopped.
THEOREM DmaResetQuiet == Spec => []QuietReset
<1>1. Handshake /\ TxInv => QuietReset
  BY DEF Handshake, Pauses, TxInv, QuietReset
<1> QED BY <1>1, Shakes, TxPauseHeld, PTL
=============================================================================
