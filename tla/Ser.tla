-------------------------------- MODULE Ser --------------------------------
(***************************************************************************)
(* System error recovery of the USB driver (phl_cmd_ser.c with evtsrc =      *)
(* CMD_SER_SRC_POLL): a timer makes the dispatcher's background thread poll  *)
(* the interrupt registers; the events found there drive the handshake      *)
(* M1 -> M2 -> M3 -> M4 -> M5 with the firmware, during which transmission   *)
(* and the hardware are paused and the messages of other modules are put     *)
(* off.  M9 is the recovery the driver cannot do (L2).                       *)
(*                                                                         *)
(* The background thread handles one message at a time, so a handler is one  *)
(* step; the states M1, M3 and M5 exist only inside one.  The timer callback, *)
(* the TX tasklet, the thread that stops the module, and the firmware run    *)
(* beside it.                                                                *)
(***************************************************************************)
EXTENDS Naturals, Sequences

CONSTANTS
    NULL,
    PollTimes,   \* CMD_SER_POLLING_INTERVAL: polls for M3 or M5 before giving up
    MaxL1,       \* errors of level 1 the firmware reports
    MaxHangs,    \* failures the firmware cannot recover from
    MaxLogs,     \* events that only ask for a log
    MaxLost,     \* messages the dispatcher has no slot for
    MaxFails,    \* steps of the recovery that fail in the driver
    MaxStops     \* stops of the module

\* The events the firmware reports in its error status.
Errors == {"L1_ERR", "DISABLE_DONE", "RECOVERY_DONE", "L2_ERR", "LOG"}

ASSUME SerAssumption ==
    /\ NULL \notin Errors
    /\ PollTimes \in Nat \ {0}
    /\ \A b \in {MaxL1, MaxHangs, MaxLogs, MaxLost, MaxFails, MaxStops} : b \in Nat

VARIABLES
    state, poll_cnt, bserl2,  \* struct cmd_ser
    timer,          \* poll_timer is pending
    q,              \* messages of the SER module, oldest first
    ext,            \* a message of another module
    up,             \* the module is up, stopping (thread still runs) or down
    phl_sw_tx_sts, phl_sw_rx_sts,
    pause_tx_id, pause_rx_id, \* the bit of PHL_MDL_SER
    is_hw_trx_pause,
    txTask,         \* the TX tasklet, between its test and its store
    fw, err, isr,   \* the firmware, its error status, its interrupts
    cut,            \* a stop has cut a recovery short
    n               \* what has happened, for the bounds

serVars  == <<state, poll_cnt, bserl2, timer>>
dataVars == <<phl_sw_tx_sts, phl_sw_rx_sts, pause_tx_id, pause_rx_id, is_hw_trx_pause>>
fwVars   == <<fw, err, isr>>
vars     == <<serVars, q, ext, up, dataVars, txTask, fwVars, cut, n>>

Msgs   == {"POLLING_CHK", "EVENT_CHK", "M1", "M3", "M5", "M9", "FW_EXPIRE"}
Faults == {"l1", "hang", "log", "lost", "fail", "stop"}
Bound  == [f \in Faults |-> CASE f = "l1" -> MaxL1 [] f = "hang" -> MaxHangs
                              [] f = "log" -> MaxLogs [] f = "lost" -> MaxLost
                              [] f = "fail" -> MaxFails [] f = "stop" -> MaxStops]

Init ==
    /\ state = {} /\ poll_cnt = 0 /\ bserl2 = FALSE /\ timer = TRUE
    /\ q = <<>> /\ ext = "none" /\ up = "up"
    /\ phl_sw_tx_sts = "RUNNING" /\ phl_sw_rx_sts = "RUNNING"
    /\ pause_tx_id = FALSE /\ pause_rx_id = FALSE /\ is_hw_trx_pause = FALSE
    /\ txTask = "idle"
    /\ fw = "run" /\ err = NULL /\ isr = {}
    /\ cut = FALSE /\ n = [f \in Faults |-> 0]

Count(f) == n[f] < Bound[f] /\ n' = [n EXCEPT ![f] = @ + 1]

(***************************************************************************)
(* phl_ser_send_msg and phl_disp_eng_send_msg: the message is queued, or    *)
(* lost when the dispatcher has no slot or is not started; the senders only  *)
(* log that.  There are at most two of them.  The step may also count f      *)
(* failures.                                                                 *)
(***************************************************************************)
Send(rest, ms, f) ==
    IF up = "down" THEN q' = rest /\ UNCHANGED n
    ELSE \E kept \in {<<>>, ms} \cup {<<ms[i]>> : i \in DOMAIN ms} :
            LET lost == Len(ms) - Len(kept)
            IN  /\ n["lost"] + lost <= MaxLost /\ n["fail"] + f <= MaxFails
                /\ n' = [n EXCEPT !["lost"] = @ + lost, !["fail"] = @ + f]
                /\ q' = rest \o kept

\* Mutant: an expired wait is polled like any other.
_ser_poll_timer_cb_NoExpire ==
    /\ timer
    /\ timer' = FALSE
    /\ Send(q, <<"POLLING_CHK">>, 0)
    /\ UNCHANGED <<state, poll_cnt, bserl2, ext, up, dataVars, txTask, fwVars, cut>>

\* The timer asks for a poll, or says that the firmware did not answer M2 or M4.
_ser_poll_timer_cb ==
    /\ timer
    /\ timer' = FALSE
    /\ Send(q, <<IF state \cap {"M2", "M4"} # {} /\ poll_cnt = 0
                 THEN "FW_EXPIRE" ELSE "POLLING_CHK">>, 0)
    /\ UNCHANGED <<state, poll_cnt, bserl2, ext, up, dataVars, txTask, fwVars, cut>>

\* The background thread handles the oldest message.
Handles(m) ==
    /\ up # "down"
    /\ q # <<>> /\ Head(q) = m
    /\ UNCHANGED <<up, txTask, cut>>

Done == q' = Tail(q)

\* The handler leaves the timer alone, but when a later module fails the message
\* _ser_fail_ev_hdlr sets it.
_ser_fail_ev_hdlr(f) == timer' = (timer \/ f = 1)

\* phl_disp_eng_clr_pending_msg: what was put off starts over.
clr_pending_msg == ext' = IF ext = "pend" THEN "wait" ELSE ext

\* Mutant: the timer is not set again.
_ser_reset_status_NoTimer == state' = {} /\ poll_cnt' = 0 /\ timer' = FALSE

\* The recovery is over: polling starts again.
_ser_reset_status == state' = {} /\ poll_cnt' = 0 /\ timer' = TRUE

\* _ser_l2_notify, which also resets the watchdog's interrupt, and what follows it
L2 ==
    /\ bserl2' = TRUE
    /\ isr' = isr \ {"wdt"}
    /\ clr_pending_msg
    /\ _ser_reset_status

\* _ser_m3_m5_waiting
_ser_m3_m5_waiting == poll_cnt' = PollTimes /\ timer' = TRUE

\* _phl_sw_tx_resume and _phl_sw_rx_resume: without the module's bit they fail.  No
\* other module sets a bit in this build (the power-save module is not compiled), so
\* that the branch for a path that stays paused is not taken.
_phl_sw_tx_resume ==
    /\ pause_tx_id' = FALSE
    /\ phl_sw_tx_sts' = IF pause_tx_id THEN "RUNNING" ELSE phl_sw_tx_sts

_phl_sw_rx_resume ==
    /\ pause_rx_id' = FALSE
    /\ phl_sw_rx_sts' = IF pause_rx_id THEN "RUNNING" ELSE phl_sw_rx_sts

(***************************************************************************)
(* _ser_msg_hdl_polling_chk, with hal_recognize_int_8852au, which            *)
(* acknowledges the interrupts, and rtw_phl_interrupt_handler, which turns    *)
(* them into messages.  The timer is set only when there is none.            *)
(***************************************************************************)
Interrupts == (IF "halt" \in isr THEN <<"EVENT_CHK">> ELSE <<>>)
              \o (IF "wdt" \in isr THEN <<"M9">> ELSE <<>>)

\* Mutant: the count of polls goes below zero.
_ser_msg_hdl_polling_chk_Under ==
    /\ Handles("POLLING_CHK")
    /\ IF isr # {}
       THEN /\ \E f \in 0..1 : Send(Tail(q), Interrupts, f) /\ _ser_fail_ev_hdlr(f)
            /\ UNCHANGED poll_cnt
       ELSE /\ Done /\ UNCHANGED n
            /\ poll_cnt' = poll_cnt - 1
            /\ timer' = TRUE
    /\ isr' = {}
    /\ UNCHANGED <<state, bserl2, ext, dataVars, fw, err>>

_ser_msg_hdl_polling_chk ==
    /\ Handles("POLLING_CHK")
    /\ IF isr # {}
       THEN /\ \E f \in 0..1 : Send(Tail(q), Interrupts, f) /\ _ser_fail_ev_hdlr(f)
            /\ UNCHANGED poll_cnt
       ELSE /\ Done /\ UNCHANGED n
            /\ poll_cnt' = IF poll_cnt > 0 THEN poll_cnt - 1 ELSE 0
            /\ timer' = TRUE
    /\ isr' = {}
    /\ UNCHANGED <<state, bserl2, ext, dataVars, fw, err>>

\* rtw_hal_ser_get_error_status: the event that the status stands for; the events
\* that only ask for a log stand for none.
Notify == [e \in Errors |->
           CASE e = "L1_ERR" -> <<"M1">>        [] e = "DISABLE_DONE" -> <<"M3">>
             [] e = "RECOVERY_DONE" -> <<"M5">> [] e = "L2_ERR" -> <<"M9">>
             [] e = "LOG" -> <<>>]

\* Reading the status clears it.
_ser_event_notify(f) == Send(Tail(q), Notify[err], f) /\ err' = NULL

_ser_msg_hdl_evt_chk ==
    /\ Handles("EVENT_CHK")
    /\ \E f \in 0..1 : _ser_event_notify(f) /\ _ser_fail_ev_hdlr(f)
    /\ UNCHANGED <<state, poll_cnt, bserl2, ext, dataVars, fw, isr>>

(***************************************************************************)
(* M1: _ser_msg_hdl_m1 and _ser_m1_pause_trx.                               *)
(***************************************************************************)
\* _phl_sw_tx_pause: a running tasklet is asked to stop and waited for; one that
\* is paused, or has only been asked to, is taken for paused.
TxPause ==
    /\ pause_tx_id' = TRUE
    /\ phl_sw_tx_sts' = IF phl_sw_tx_sts = "RUNNING" THEN "SW_PAUSE" ELSE phl_sw_tx_sts

\* The wait expires, with the bit set; or the tasklet cannot be scheduled, without.
TxPauseFails ==
    /\ phl_sw_tx_sts = "RUNNING" /\ phl_sw_tx_sts' = "STOP_INPROGRESS"
    /\ pause_tx_id' \in {pause_tx_id, TRUE}

\* _phl_sw_rx_pause: nothing in the USB receive path takes the request up, so that
\* the wait expires, which _ser_m1_pause_trx tolerates; it does not tolerate that the
\* RX tasklet cannot be scheduled.
_phl_sw_rx_pause ==
    /\ pause_rx_id' = TRUE
    /\ phl_sw_rx_sts' = IF phl_sw_rx_sts = "RUNNING" THEN "STOP_INPROGRESS"
                        ELSE phl_sw_rx_sts

RxPauseFails ==
    /\ phl_sw_rx_sts = "RUNNING" /\ phl_sw_rx_sts' = "STOP_INPROGRESS"
    /\ UNCHANGED pause_rx_id

_phl_hw_trx_pause == is_hw_trx_pause' = TRUE

\* M2 goes to the firmware.
_ser_m2_notify ==
    /\ state' = (state \ {"M1"}) \cup {"M2"}
    /\ fw' = IF fw = "m1" THEN "m2" ELSE fw

\* Mutant: M2 is sent before the hardware is paused.
M1Paused_NoHw ==
    /\ TxPause
    /\ UNCHANGED is_hw_trx_pause
    /\ _phl_sw_rx_pause
    /\ _ser_m2_notify
    /\ _ser_m3_m5_waiting
    /\ UNCHANGED <<bserl2, ext, isr, n>>

\* Everything is paused: the firmware may go on.
M1Paused ==
    /\ TxPause
    /\ _phl_hw_trx_pause
    /\ _phl_sw_rx_pause
    /\ _ser_m2_notify
    /\ _ser_m3_m5_waiting
    /\ UNCHANGED <<bserl2, ext, isr, n>>

\* The TX tasklet, the hardware or the RX tasklet cannot be paused: what was paused
\* before it stays paused.
M1Fails ==
    /\ Count("fail")
    /\ \/ TxPauseFails /\ UNCHANGED <<is_hw_trx_pause, phl_sw_rx_sts, pause_rx_id>>
       \/ TxPause /\ UNCHANGED <<is_hw_trx_pause, phl_sw_rx_sts, pause_rx_id>>
       \/ TxPause /\ _phl_hw_trx_pause /\ RxPauseFails
    /\ L2
    /\ UNCHANGED fw

_ser_msg_hdl_m1 == Handles("M1") /\ Done /\ (M1Paused \/ M1Fails) /\ UNCHANGED err

(***************************************************************************)
(* M3: _ser_msg_hdl_m3 and _ser_m3_reset_hw_trx.                            *)
(***************************************************************************)
\* M4 goes to the firmware.
_ser_m4_notify ==
    /\ state' = (state \ {"M2", "M3"}) \cup {"M4"}
    /\ fw' = IF fw = "m3" THEN "m4" ELSE fw

_phl_hw_trx_rst_resume == is_hw_trx_pause' = FALSE

M3Reset ==
    /\ _phl_hw_trx_rst_resume
    /\ pause_rx_id /\ _phl_sw_rx_resume
    /\ _ser_m4_notify
    /\ _ser_m3_m5_waiting
    /\ UNCHANGED <<bserl2, ext, isr, n>>

\* The hardware cannot be reset, M9 has resumed reception before, or the RX tasklet
\* cannot be scheduled once it is resumed.
M3Fails ==
    /\ \/ Count("fail") /\ UNCHANGED <<is_hw_trx_pause, phl_sw_rx_sts, pause_rx_id>>
       \/ /\ ~pause_rx_id /\ UNCHANGED n
          /\ _phl_hw_trx_rst_resume /\ _phl_sw_rx_resume
       \/ /\ pause_rx_id /\ Count("fail")
          /\ _phl_hw_trx_rst_resume /\ _phl_sw_rx_resume
    /\ L2
    /\ UNCHANGED fw

_ser_msg_hdl_m3 ==
    /\ Handles("M3") /\ Done
    /\ M3Reset \/ M3Fails
    /\ UNCHANGED <<phl_sw_tx_sts, pause_tx_id, err>>

\* Mutant: transmission is not resumed.
_ser_msg_hdl_m5_NoResume ==
    /\ Handles("M5") /\ Done
    /\ _ser_reset_status
    /\ clr_pending_msg
    /\ UNCHANGED <<bserl2, dataVars, fwVars, n>>

\* Mutant: what was put off is not started again.
_ser_msg_hdl_m5_NoClear ==
    /\ Handles("M5") /\ Done
    /\ _phl_sw_tx_resume
    /\ _ser_reset_status
    /\ UNCHANGED <<bserl2, ext, phl_sw_rx_sts, pause_rx_id, is_hw_trx_pause, fwVars, n>>

\* M5: _ser_msg_hdl_m5
_ser_msg_hdl_m5 ==
    /\ Handles("M5") /\ Done
    /\ _phl_sw_tx_resume
    /\ _ser_reset_status
    /\ clr_pending_msg
    /\ UNCHANGED <<bserl2, phl_sw_rx_sts, pause_rx_id, is_hw_trx_pause, fwVars, n>>

\* M9: _ser_msg_hdl_m9
_ser_msg_hdl_m9 ==
    /\ Handles("M9") /\ Done
    /\ _phl_sw_tx_resume /\ _phl_sw_rx_resume
    /\ L2
    /\ UNCHANGED <<is_hw_trx_pause, fw, err, n>>

\* The firmware did not answer in time: _ser_msg_hdl_fw_expire
_ser_msg_hdl_fw_expire ==
    /\ Handles("FW_EXPIRE") /\ Done
    /\ state' = state \cup {"M9"}
    /\ timer' = TRUE
    /\ bserl2' = TRUE
    /\ UNCHANGED <<poll_cnt, ext, dataVars, fwVars, n>>

(***************************************************************************)
(* Messages of other modules.                                               *)
(***************************************************************************)
\* Another module sends one.
ExtSend ==
    /\ up # "down" /\ ext = "none"
    /\ ext' = "wait"
    /\ UNCHANGED <<serVars, q, up, dataVars, txTask, fwVars, cut, n>>

\* The background thread shows it to this module, if it is started: the message is
\* failed, put off, or passes.
_ser_hdl_external_evt ==
    /\ up # "down" /\ ext = "wait"
    /\ ext' = IF up = "up" /\ ~bserl2 /\ state # {} THEN "pend" ELSE "none"
    /\ UNCHANGED <<serVars, q, up, dataVars, txTask, fwVars, cut, n>>

(***************************************************************************)
(* The module stops, the background thread with it, and starts again with    *)
(* the firmware loaded anew.  The pauses of the data path are not undone.    *)
(***************************************************************************)
_phl_ser_mdl_stop ==
    /\ up = "up" /\ Count("stop")
    /\ up' = "stopping"
    /\ timer' = FALSE
    /\ UNCHANGED <<state, poll_cnt, bserl2, q, ext, dataVars, txTask, fwVars, cut>>

dispr_stop ==
    /\ up = "stopping"
    /\ up' = "down" /\ q' = <<>> /\ ext' = "none"
    /\ cut' = (cut \/ state # {})
    /\ UNCHANGED <<serVars, dataVars, txTask, fwVars, n>>

_phl_ser_mdl_start ==
    /\ up = "down"
    /\ up' = "up"
    /\ _ser_reset_status
    /\ fw' = "run" /\ err' = NULL /\ isr' = {}
    /\ UNCHANGED <<bserl2, q, ext, dataVars, txTask, cut, n>>

(***************************************************************************)
(* The end of the TX tasklet, _phl_tx_callback_usb, which takes up a request *)
(* to stop: it tests and then stores, with no lock.                          *)
(***************************************************************************)
TxTest ==
    /\ txTask = "idle" /\ phl_sw_tx_sts = "STOP_INPROGRESS"
    /\ txTask' = "stop"
    /\ UNCHANGED <<serVars, q, ext, up, dataVars, fwVars, cut, n>>

phl_tx_stop_usb ==
    /\ txTask = "stop"
    /\ txTask' = "idle" /\ phl_sw_tx_sts' = "SW_PAUSE"
    /\ UNCHANGED <<serVars, q, ext, up, phl_sw_rx_sts, pause_tx_id, pause_rx_id,
                   is_hw_trx_pause, fwVars, cut, n>>

(***************************************************************************)
(* The firmware: it posts an event when the last one has been read.          *)
(***************************************************************************)
FwStep(from, to, e, ints) ==
    /\ up # "down"
    /\ fw \in from /\ fw' = to
    /\ e # NULL => err = NULL
    /\ err' = IF e = NULL THEN err ELSE e
    /\ isr' = isr \cup ints
    /\ UNCHANGED <<serVars, q, ext, up, dataVars, txTask, cut>>

FwL1   == FwStep({"run"}, "m1", "L1_ERR", {"halt"}) /\ Count("l1")
FwM3   == FwStep({"m2"}, "m3", "DISABLE_DONE", {"halt"}) /\ UNCHANGED n
FwM5   == FwStep({"m4"}, "run", "RECOVERY_DONE", {"halt"}) /\ UNCHANGED n
FwLog  == /\ fw # "dead" /\ Count("log")
          /\ FwStep({fw}, fw, "LOG", {"halt"})
FwHang == /\ Count("hang")
          /\ FwStep({"run", "m1", "m2", "m3", "m4"}, "hung", NULL, {})
FwWdt  == /\ UNCHANGED n
          /\ \/ FwStep({"hung"}, "dead", NULL, {"wdt"})
             \/ FwStep({"hung"}, "dead", "L2_ERR", {"halt"})

Handler ==
    \/ _ser_msg_hdl_polling_chk \/ _ser_msg_hdl_evt_chk \/ _ser_msg_hdl_m1
    \/ _ser_msg_hdl_m3 \/ _ser_msg_hdl_m5 \/ _ser_msg_hdl_m9
    \/ _ser_msg_hdl_fw_expire

Next ==
    \/ _ser_poll_timer_cb \/ Handler
    \/ ExtSend \/ _ser_hdl_external_evt
    \/ _phl_ser_mdl_stop \/ dispr_stop \/ _phl_ser_mdl_start
    \/ TxTest \/ phl_tx_stop_usb
    \/ FwL1 \/ FwM3 \/ FwM5 \/ FwLog \/ FwHang \/ FwWdt

Spec == Init /\ [][Next]_vars

\* A pending timer fires, the background thread serves its queue and the other
\* modules' messages, and a firmware that hangs is caught by its watchdog.  The
\* firmware need not answer M2 or M4.
FairSpec ==
    /\ Spec
    /\ WF_vars(_ser_poll_timer_cb) /\ WF_vars(Handler)
    /\ WF_vars(_ser_hdl_external_evt) /\ WF_vars(FwWdt)

-----------------------------------------------------------------------------
\* Every variable keeps its type, and the module never has more than two messages in
\* the dispatcher beyond those that its failed steps sent.
TypeOK ==
    /\ state \subseteq {"M2", "M4", "M9"}
    /\ poll_cnt \in 0..PollTimes
    /\ bserl2 \in BOOLEAN /\ timer \in BOOLEAN /\ cut \in BOOLEAN
    /\ pause_tx_id \in BOOLEAN /\ pause_rx_id \in BOOLEAN /\ is_hw_trx_pause \in BOOLEAN
    /\ q \in Seq(Msgs) /\ Len(q) <= 2 + MaxFails
    /\ ext \in {"none", "wait", "pend"} /\ up \in {"up", "stopping", "down"}
    /\ phl_sw_tx_sts \in {"RUNNING", "STOP_INPROGRESS", "SW_PAUSE"}
    /\ phl_sw_rx_sts \in {"RUNNING", "STOP_INPROGRESS"}
    /\ txTask \in {"idle", "stop"}
    /\ fw \in {"run", "m1", "m2", "m3", "m4", "hung", "dead"}
    /\ err \in Errors \cup {NULL}
    /\ isr \subseteq {"halt", "wdt"}
    /\ n \in [Faults -> Nat] /\ \A f \in Faults : n[f] <= Bound[f]

\* Transmission is paused exactly while a recovery is under way: no path through the
\* handlers forgets to resume it, and none resumes it early, short of an error of
\* level 2 or a stop in the middle.
TxWithRecovery == ~bserl2 /\ ~cut => (pause_tx_id <=> state # {})

\* While the firmware resets the DMA (after M2), neither the TX tasklet nor the
\* hardware transfers; while it recovers (after M4), the hardware and reception are
\* back and transmission is not.
QuietReset ==
    ~bserl2 /\ ~cut =>
        /\ fw = "m2" => phl_sw_tx_sts = "SW_PAUSE" /\ is_hw_trx_pause
        /\ fw = "m4" => /\ phl_sw_tx_sts = "SW_PAUSE" /\ ~is_hw_trx_pause
                        /\ phl_sw_rx_sts = "RUNNING"

\* Polling goes on: the timer is pending or a message that leads back to it is
\* queued.  Only a message the dispatcher had no slot for, or an event that asks
\* for a log (neither sets the timer again), ends it.
PollingGoesOn ==
    up = "up" => timer \/ q # <<>> \/ n["lost"] > 0 \/ n["log"] > 0

\* A recovery ends, well or as an error of level 2, whatever the firmware does.
RecoveryEnds ==
    state # {} ~> \/ state = {} \/ bserl2
                  \/ n["lost"] > 0 \/ n["log"] > 0 \/ up # "up"

\* A message put off during a recovery is taken up again when the recovery ends, well
\* or as an error of level 2.  Exempt is the recovery that _ser_msg_hdl_fw_expire gives
\* up (M9 in state): it clears nothing, and the level 2 that would is reached only if
\* the watchdog is noticed, see WdtNoticed.
PutOffResumes ==
    ext = "pend" ~> \/ ext # "pend" \/ "M9" \in state
                    \/ n["lost"] > 0 \/ n["log"] > 0 \/ up # "up"

\* The watchdog's interrupt is noticed (_ser_hdl_internal_evt on
\* MSG_EVT_SER_FW_TIMER_EXPIRE: "do nothing and wait FW WDT").
WdtNoticed == "wdt" \in isr ~> ("wdt" \notin isr \/ up # "up")
=============================================================================
