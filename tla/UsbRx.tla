------------------------------- MODULE UsbRx -------------------------------
(***************************************************************************)
(* The receive side of the USB transport (phl/hci/phl_trx_usb.c and        *)
(* os_dep/linux/usb_ops_linux.c): the buffers that travel between the idle *)
(* list, a bulk-in request (an "in-token": a URB in flight), the pending   *)
(* list, and the packets that refer to them until the core returns them.   *)
(*                                                                         *)
(* Contexts: the completion of a URB ("comp", one at a time: the host      *)
(* controller driver gives URBs back one after the other), the callback of *)
(* the deferred timer ("timer"), the thread that starts and stops the data *)
(* path ("main"), the RX tasklet, the event tasklet that hands the packets *)
(* of the ring to the core, and the core returning packets at any time.    *)
(*                                                                         *)
(* A packet is known by its rxbuf_ptr: the buffer it refers to, or NULL    *)
(* when its bytes were copied into a netbuf.  Every list operation holds   *)
(* the lock of its list and is one step; counters are read without it.     *)
(***************************************************************************)
EXTENDS Integers, Sequences, FiniteSets

CONSTANTS
    NULL,
    Bufs,            \* the rtw_rx_buf blocks (rx_buf_num)
    in_token_num,    \* URBs the driver wants in flight
    RTW_RECVURB_NR,  \* URBs of recv_urb_q
    PoolSize,        \* packets of rx_pkt_pool
    RingRoom,        \* packets the phl_rx ring holds
    NR_RECVFRAME,    \* receive frames of the core
    MaxAgg,          \* bound: packets in one transfer
    MaxErrs,         \* bound: failed transfers and submissions per start
    MaxStarts        \* bound: starts of the data path

ASSUME UsbRxAssumption ==
    /\ IsFiniteSet(Bufs) /\ NULL \notin Bufs /\ "free" \notin Bufs \cup {NULL}
    /\ in_token_num \in Nat \ {0} /\ in_token_num <= Cardinality(Bufs)
    /\ RTW_RECVURB_NR \in Nat /\ RTW_RECVURB_NR > in_token_num
    /\ PoolSize \in Nat \ {0} /\ RingRoom \in Nat \ {0}
    /\ NR_RECVFRAME \in Nat \ {0} /\ MaxAgg \in Nat \ {0}
    /\ MaxErrs \in Nat \ {0} /\ MaxStarts \in Nat \ {0}

Actors == {"comp", "timer", "main"}
Ptrs == Bufs \cup {NULL}
RecvFrames == 1 .. NR_RECVFRAME

VARIABLES
    idle, busy,  \* idle_rxbuf_list, busy_rxbuf_list
    pend,        \* pend_rxbuf_list
    pktcnt,      \* rx_buf->pktcnt
    inflight,    \* buffers whose URB is submitted
    urbs,        \* recv_urb_q.free_urb_buf_cnt
    pc, tok,     \* where a context is, and the buffer it is about to submit
    done,        \* the transfer the completion handles: [buf, ok]
    timer,       \* deferred_timer is pending
    stopped,     \* RTW_CANNOT_RX
    rx_sched,    \* phl_rx_handler is scheduled
    rx, frames,  \* the RX tasklet is running; packets it has not handled yet
    pool,        \* number of idle packets
    ring,        \* phl_rx_ring
    evt,         \* RTW_PHL_EVT_RX in evt_bitmap
    ev_sched,    \* phl_event_handler is scheduled
    ev,          \* packets rtw_core_rx_process still takes; -1: not running
    core,        \* the packet that a receive frame of the core holds
    errs, starts,
    full,        \* history: the last run of the RX tasklet found the ring full
    gaveup       \* history: the last refill by the deferred timer was refused a token

bufs == <<idle, busy, pend, pktcnt>>
usb == <<inflight, urbs>>
ctx == <<pc, tok, done>>
tasklet == <<rx_sched, rx, frames, full>>
event == <<evt, ev_sched, ev>>
pkts == <<pool, ring, core>>
env == <<stopped, errs, starts, gaveup>>
vars == <<bufs, usb, ctx, timer, tasklet, event, pkts, env>>

Init ==
    /\ idle = Bufs /\ busy = {} /\ pend = <<>>
    /\ pktcnt = [b \in Bufs |-> 0]
    /\ inflight = {} /\ urbs = RTW_RECVURB_NR
    /\ pc = [a \in Actors |-> "off"]
    /\ tok = [a \in Actors |-> NULL]
    /\ done = [buf |-> NULL, ok |-> FALSE]
    /\ timer = FALSE /\ stopped = TRUE
    /\ rx_sched = FALSE /\ rx = FALSE /\ frames = <<>> /\ full = FALSE
    /\ pool = PoolSize /\ ring = <<>>
    /\ evt = FALSE /\ ev_sched = FALSE /\ ev = -1
    /\ core = [f \in RecvFrames |-> "free"]
    /\ errs = 0 /\ starts = 0 /\ gaveup = FALSE

Goto(a, l) == pc' = [pc EXCEPT ![a] = l]

-----------------------------------------------------------------------------
(* phl_release_rxbuf_usb. *)
phl_release_rxbuf_usb(b) ==
    LET n == IF pktcnt[b] > 0 THEN pktcnt[b] - 1 ELSE 0
    IN  /\ pktcnt' = [pktcnt EXCEPT ![b] = n]
        /\ idle' = IF n = 0 THEN idle \cup {b} ELSE idle

(* phl_recycle_rx_buf: the packet drops its buffer and is idle again. *)
phl_recycle_rx_buf(p) ==
    /\ pool' = pool + 1
    /\ \/ p = NULL /\ UNCHANGED <<pktcnt, idle>>
       \/ p # NULL /\ phl_release_rxbuf_usb(p)

_phl_indic_new_rxpkt == evt' = TRUE /\ ev_sched' = TRUE

-----------------------------------------------------------------------------
(* Where a context goes on when it could not send its token: the completion *)
(* has queued the transfer and schedules the tasklet, the start fails.      *)
Failed(a) == CASE a = "comp" -> "sched" [] a = "timer" -> "off" [] a = "main" -> "failed"

(* Mutant: the timer's callback does not set its timer again.               *)
NoBuffer_NoRearm(a) ==
    /\ idle = {}
    /\ Goto(a, Failed(a))
    /\ timer' = (timer \/ a = "comp")
    /\ \/ a = "timer" /\ _phl_indic_new_rxpkt
       \/ a # "timer" /\ UNCHANGED <<evt, ev_sched>>
    /\ UNCHANGED <<idle, busy, tok>>

(* Mutant: the timer's callback does not indicate the packets of the ring.  *)
NoBuffer_NoIndic(a) ==
    /\ idle = {}
    /\ Goto(a, Failed(a))
    /\ timer' = (timer \/ a # "main")
    /\ UNCHANGED <<idle, busy, tok, evt, ev_sched>>

(* Mutant: a transfer whose token cannot be replaced is not handed on.      *)
NoBuffer_NoSched(a) ==
    /\ idle = {}
    /\ Goto(a, IF a = "comp" THEN "free" ELSE Failed(a))
    /\ timer' = (timer \/ a # "main")
    /\ \/ a = "timer" /\ _phl_indic_new_rxpkt
       \/ a # "timer" /\ UNCHANGED <<evt, ev_sched>>
    /\ UNCHANGED <<idle, busy, tok>>

(* _phl_in_token_usb, in the context a: take an idle buffer and make it     *)
(* busy; without one the completion arms the deferred timer, the timer's    *)
(* callback indicates what is in the ring and comes again, and the start    *)
(* fails.                                                                   *)
NoBuffer(a) ==
    /\ idle = {}
    /\ Goto(a, Failed(a))
    /\ timer' = (timer \/ a # "main")
    /\ \/ a = "timer" /\ _phl_indic_new_rxpkt
       \/ a # "timer" /\ UNCHANGED <<evt, ev_sched>>
    /\ UNCHANGED <<idle, busy, tok>>

InToken(a) ==
    /\ pc[a] = "token"
    /\ \/ NoBuffer(a)
       \/ \E b \in idle :
            /\ idle' = idle \ {b}
            /\ busy' = busy \cup {b}
            /\ tok' = [tok EXCEPT ![a] = b]
            /\ Goto(a, "submit")
            /\ UNCHANGED <<timer, evt, ev_sched>>
    /\ UNCHANGED <<pend, pktcnt, usb, done, tasklet, ev, pkts, env>>

(* rtw_usb_read_port.  The test of RTW_CANNOT_RX and the submission are one *)
(* step: the hardware is stopped between the setting of the flag and the    *)
(* killing of the URBs, which takes far longer.                             *)
Submitted(a) ==
    /\ ~stopped /\ urbs > 0
    /\ inflight' = inflight \cup {tok[a]}
    /\ urbs' = urbs - 1
    /\ Goto(a, IF a = "comp" THEN "sched" ELSE "check")
    /\ UNCHANGED <<idle, busy, pktcnt, errs, gaveup>>

(* Mutant: a URB that usb_submit_urb refused is not given back.             *)
Refused_Leak(a) ==
    /\ \/ (stopped \/ urbs = 0) /\ UNCHANGED <<errs, gaveup, urbs>>
       \/ /\ ~stopped /\ urbs > 0 /\ errs < MaxErrs /\ errs' = errs + 1
          /\ gaveup' = (gaveup \/ a = "timer") /\ urbs' = urbs - 1
    /\ busy' = busy \ {tok[a]}
    /\ phl_release_rxbuf_usb(tok[a])
    /\ Goto(a, Failed(a))
    /\ UNCHANGED inflight

(* Nothing is submitted: the driver stops, there is no URB, or usb_submit_urb *)
(* fails.                                                                   *)
Refused(a) ==
    /\ \/ (stopped \/ urbs = 0) /\ UNCHANGED <<errs, gaveup>>
       \/ /\ ~stopped /\ errs < MaxErrs /\ errs' = errs + 1
          /\ gaveup' = (gaveup \/ a = "timer")
    /\ busy' = busy \ {tok[a]}
    /\ phl_release_rxbuf_usb(tok[a])
    /\ Goto(a, Failed(a))
    /\ UNCHANGED usb

rtw_usb_read_port(a) ==
    /\ pc[a] = "submit"
    /\ Submitted(a) \/ Refused(a)
    /\ tok' = [tok EXCEPT ![a] = NULL]
    /\ UNCHANGED <<pend, done, timer, tasklet, event, pkts, stopped, starts>>

(* _phl_rx_start_usb: the test of its loop. *)
_phl_rx_start_usb(a) ==
    /\ a \in {"timer", "main"} /\ pc[a] = "check"
    /\ \/ /\ Cardinality(busy) < in_token_num
          /\ Goto(a, "token") /\ UNCHANGED gaveup
       \/ /\ Cardinality(busy) >= in_token_num
          /\ Goto(a, IF a = "timer" THEN "off" ELSE "on")
          /\ gaveup' = (gaveup /\ a # "timer")
    /\ UNCHANGED <<bufs, usb, tok, done, timer, tasklet, event, pkts, stopped, errs, starts>>

(* _phl_rx_deferred_in_token: the deferred timer expires. *)
_phl_rx_deferred_in_token ==
    /\ timer /\ pc["timer"] = "off"
    /\ timer' = FALSE
    /\ Goto("timer", "check")
    /\ UNCHANGED <<bufs, usb, tok, done, tasklet, event, pkts, env>>

-----------------------------------------------------------------------------
(* rtw_usb_read_port_complete.  A transfer that failed may end all receiving *)
(* and sending: a status such as -EPIPE sets drv_stopped, too many errors in *)
(* a row set surprise_removed.                                               *)
rtw_usb_read_port_complete(b, ok) ==
    /\ b \in inflight /\ pc["comp"] = "off"
    /\ \/ ok /\ ~stopped /\ UNCHANGED <<errs, stopped>>
       \/ ~ok /\ ~stopped /\ errs < MaxErrs /\ errs' = errs + 1 /\ stopped' \in BOOLEAN
       \/ ~ok /\ stopped /\ UNCHANGED <<errs, stopped>>
    /\ inflight' = inflight \ {b}
    /\ done' = [buf |-> b, ok |-> ok]
    /\ Goto("comp", "post")
    /\ UNCHANGED <<bufs, urbs, tok, timer, tasklet, event, pkts, starts, gaveup>>

(* phl_pend_rxbuf_usb: a good transfer is queued and its token replaced, a  *)
(* bad one gives its buffer back and is not replaced.                       *)
phl_pend_rxbuf_usb ==
    /\ pc["comp"] = "post"
    /\ busy' = busy \ {done.buf}
    /\ \/ /\ done.ok
          /\ pend' = Append(pend, done.buf)
          /\ Goto("comp", "token")
          /\ UNCHANGED <<pktcnt, idle>>
       \/ /\ ~done.ok
          /\ phl_release_rxbuf_usb(done.buf)
          /\ Goto("comp", "free")
          /\ UNCHANGED pend
    /\ UNCHANGED <<usb, tok, done, timer, tasklet, event, pkts, env>>

(* rtw_phl_start_rx_process, only after a good transfer. *)
rtw_phl_start_rx_process ==
    /\ pc["comp"] = "sched"
    /\ rx_sched' = TRUE
    /\ Goto("comp", "free")
    /\ UNCHANGED <<bufs, usb, tok, done, timer, rx, frames, full, event, pkts, env>>

(* The URB goes back to recv_urb_q only now, after its replacement.         *)
rtw_free_dataurb ==
    /\ pc["comp"] = "free"
    /\ urbs' = urbs + 1
    /\ done' = [buf |-> NULL, ok |-> FALSE]
    /\ Goto("comp", "off")
    /\ UNCHANGED <<bufs, inflight, tok, timer, tasklet, event, pkts, env>>

-----------------------------------------------------------------------------
(* RX tasklet. *)
_phl_rx_callback_usb ==
    /\ rx_sched /\ ~rx
    /\ rx_sched' = FALSE
    /\ full' = (Len(ring) >= RingRoom)
    /\ rx' = ~full'
    /\ UNCHANGED <<bufs, usb, ctx, timer, frames, event, pkts, env>>

(* How often p is in s. *)
Count(s, p) == Cardinality({i \in DOMAIN s : s[i] = p})

(* Mutant: the packets are not taken from rx_pkt_pool.                      *)
phl_get_single_rx_NoTake(b, ps) ==
    LET ref_cnt == Count(ps, b)
    IN  /\ frames' = ps
        /\ \/ ref_cnt = 0 /\ phl_release_rxbuf_usb(b)
           \/ /\ ref_cnt > 0
              /\ pktcnt' = [pktcnt EXCEPT ![b] = ref_cnt]
              /\ UNCHANGED idle
        /\ UNCHANGED pool

(* Mutant: the last packet alone decides whether the buffer is released.    *)
phl_get_single_rx_Last(b, ps) ==
    LET ref_cnt == Count(ps, b)
        brel == IF ps = <<>> THEN TRUE ELSE ps[Len(ps)] = NULL
    IN  /\ pool' = pool - Len(ps)
        /\ frames' = ps
        /\ \/ brel /\ phl_release_rxbuf_usb(b)
           \/ /\ ~brel
              /\ pktcnt' = [pktcnt EXCEPT ![b] = ref_cnt]
              /\ UNCHANGED idle

(* phl_get_single_rx for the next pending buffer: packets whose bytes were  *)
(* copied do not refer to it.  With no reference it is idle again at once.  *)
phl_get_single_rx(b, ps) ==
    LET ref_cnt == Count(ps, b)
    IN  /\ pool' = pool - Len(ps)
        /\ frames' = ps
        /\ \/ ref_cnt = 0 /\ phl_release_rxbuf_usb(b)
           \/ /\ ref_cnt > 0
              /\ pktcnt' = [pktcnt EXCEPT ![b] = ref_cnt]
              /\ UNCHANGED idle

(* The transfer holds any number of packets; none when the first is damaged *)
(* or rx_pkt_pool is empty.                                                 *)
phl_rx_usb ==
    /\ rx /\ frames = <<>>
    /\ \/ /\ pend = <<>>
          /\ rx' = FALSE
          /\ UNCHANGED <<bufs, frames, pool>>
       \/ /\ pend # <<>>
          /\ pend' = Tail(pend)
          /\ \E n \in 0 .. MaxAgg : \E ps \in [1 .. n -> {NULL, Head(pend)}] :
                n <= pool /\ phl_get_single_rx(Head(pend), ps)
          /\ UNCHANGED <<busy, rx>>
    /\ UNCHANGED <<usb, ctx, timer, rx_sched, full, event, ring, core, env>>

(* phl_rx_process_usb for one packet: a frame goes to the ring, or back     *)
(* when there is no room; reports, which are never copied, go back.         *)
phl_rx_process_usb ==
    /\ frames # <<>>
    /\ frames' = Tail(frames)
    /\ \/ /\ Len(ring) < RingRoom
          /\ ring' = Append(ring, Head(frames))
          /\ _phl_indic_new_rxpkt
          /\ UNCHANGED <<idle, pktcnt, pool>>
       \/ /\ Len(ring) >= RingRoom
          /\ phl_recycle_rx_buf(Head(frames))
          /\ _phl_indic_new_rxpkt
          /\ UNCHANGED ring
       \/ /\ Head(frames) # NULL
          /\ phl_recycle_rx_buf(Head(frames))
          /\ UNCHANGED <<ring, evt, ev_sched>>
    /\ UNCHANGED <<busy, pend, usb, ctx, timer, rx_sched, rx, full, ev, core, env>>

-----------------------------------------------------------------------------
(* Event tasklet and core. *)
phl_event_indicator ==
    /\ ev_sched /\ ev = -1
    /\ ev_sched' = FALSE
    /\ ev' = IF evt THEN Len(ring) ELSE -1
    /\ UNCHANGED <<bufs, usb, ctx, timer, tasklet, evt, pkts, env>>

(* A packet is taken when the core has a receive frame for it.              *)
rtw_core_rx_process ==
    /\ ev >= 0
    /\ \/ /\ ev > 0
          /\ \E f \in RecvFrames : /\ core[f] = "free"
                                   /\ core' = [core EXCEPT ![f] = Head(ring)]
          /\ ring' = Tail(ring)
          /\ ev' = ev - 1
          /\ UNCHANGED evt
       \/ /\ ev = 0 \/ \A f \in RecvFrames : core[f] # "free"
          /\ evt' = FALSE
          /\ ev' = -1
          /\ UNCHANGED <<core, ring>>
    /\ UNCHANGED <<bufs, usb, ctx, timer, tasklet, ev_sched, pool, env>>

rtw_phl_return_rxbuf(f) ==
    /\ core[f] # "free"
    /\ core' = [core EXCEPT ![f] = "free"]
    /\ phl_recycle_rx_buf(core[f])
    /\ UNCHANGED <<busy, pend, usb, ctx, timer, tasklet, event, ring, env>>

-----------------------------------------------------------------------------
(* The completion handles a failed transfer whose buffer is still busy.     *)
Failing == IF pc["comp"] = "post" /\ ~done.ok THEN 1 ELSE 0

(* The thread that starts and stops the data path.  A start that failed has *)
(* taken nothing back: the next one finds its tokens at the device.  The    *)
(* flags are cleared before, the deferred timer may still be pending.       *)
phl_trx_cfg_usb ==
    /\ pc["main"] \in {"off", "failed"} /\ starts < MaxStarts
    /\ stopped' = FALSE /\ errs' = Failing /\ starts' = starts + 1 /\ gaveup' = FALSE
    /\ Goto("main", "check")
    /\ UNCHANGED <<bufs, usb, tok, done, timer, tasklet, event, pkts>>

(* dev_set_drv_stopped, before rtw_hw_stop. *)
dev_set_drv_stopped ==
    /\ pc["main"] = "on"
    /\ stopped' = TRUE
    /\ Goto("main", "stop")
    /\ UNCHANGED <<bufs, usb, tok, done, timer, tasklet, event, pkts, errs, starts, gaveup>>

(* A register access or the completion of a transmission finds the device   *)
(* gone, or the device is unplugged.                                        *)
dev_set_surprise_removed ==
    /\ ~stopped
    /\ stopped' = TRUE
    /\ UNCHANGED <<bufs, usb, ctx, timer, tasklet, event, pkts, errs, starts, gaveup>>

(* _phl_rx_stop_usb: del_timer_sync waits for a running callback. *)
_phl_rx_stop_usb ==
    /\ pc["main"] = "stop" /\ pc["timer"] = "off"
    /\ timer' = FALSE
    /\ Goto("main", "kill")
    /\ UNCHANGED <<bufs, usb, tok, done, tasklet, event, pkts, env>>

(* rtw_usb_read_port_cancel: usb_kill_urb waits for the completions. *)
rtw_usb_read_port_cancel ==
    /\ pc["main"] = "kill" /\ inflight = {} /\ pc["comp"] = "off"
    /\ Goto("main", "off")
    /\ UNCHANGED <<bufs, usb, tok, done, timer, tasklet, event, pkts, env>>

Next ==
    \/ \E a \in Actors : InToken(a) \/ rtw_usb_read_port(a) \/ _phl_rx_start_usb(a)
    \/ _phl_rx_deferred_in_token
    \/ \E b \in Bufs, ok \in BOOLEAN : rtw_usb_read_port_complete(b, ok)
    \/ phl_pend_rxbuf_usb \/ rtw_phl_start_rx_process \/ rtw_free_dataurb
    \/ _phl_rx_callback_usb \/ phl_rx_usb \/ phl_rx_process_usb
    \/ phl_event_indicator \/ rtw_core_rx_process
    \/ \E f \in RecvFrames : rtw_phl_return_rxbuf(f)
    \/ phl_trx_cfg_usb \/ dev_set_drv_stopped \/ dev_set_surprise_removed
    \/ _phl_rx_stop_usb \/ rtw_usb_read_port_cancel

Spec == Init /\ [][Next]_vars

(* A scheduled tasklet, a pending timer, a running completion and the       *)
(* thread go on, and the core returns what it took.  Nothing makes the      *)
(* device answer a request.                                                 *)
FairSpec ==
    /\ Spec
    /\ \A a \in Actors : WF_vars(InToken(a) \/ rtw_usb_read_port(a) \/ _phl_rx_start_usb(a))
    /\ WF_vars(_phl_rx_deferred_in_token)
    /\ WF_vars(phl_pend_rxbuf_usb \/ rtw_phl_start_rx_process \/ rtw_free_dataurb)
    /\ WF_vars(_phl_rx_callback_usb) /\ WF_vars(phl_rx_usb \/ phl_rx_process_usb)
    /\ WF_vars(phl_event_indicator) /\ WF_vars(rtw_core_rx_process)
    /\ \A f \in RecvFrames : WF_vars(rtw_phl_return_rxbuf(f))

-----------------------------------------------------------------------------
(* Every variable keeps its type. *)
TypeOK ==
    /\ idle \subseteq Bufs /\ busy \subseteq Bufs /\ pend \in Seq(Bufs)
    /\ pktcnt \in [Bufs -> 0 .. MaxAgg]
    /\ inflight \subseteq Bufs /\ urbs \in 0 .. RTW_RECVURB_NR
    /\ pc \in [Actors -> {"off", "check", "post", "token", "submit", "sched", "free",
                        "failed", "on", "stop", "kill"}]
    /\ pc["comp"] \in {"off", "post", "token", "submit", "sched", "free"}
    /\ pc["timer"] \in {"off", "check", "token", "submit"}
    /\ pc["main"] \in {"off", "check", "token", "submit", "failed", "on", "stop", "kill"}
    /\ tok \in [Actors -> Ptrs] /\ done \in [buf : Ptrs, ok : BOOLEAN]
    /\ timer \in BOOLEAN /\ stopped \in BOOLEAN
    /\ rx_sched \in BOOLEAN /\ rx \in BOOLEAN /\ full \in BOOLEAN
    /\ frames \in Seq(Ptrs) /\ Len(frames) <= MaxAgg
    /\ pool \in 0 .. PoolSize /\ ring \in Seq(Ptrs) /\ Len(ring) <= RingRoom
    /\ evt \in BOOLEAN /\ ev_sched \in BOOLEAN /\ ev \in -1 .. RingRoom
    /\ core \in [RecvFrames -> Ptrs \cup {"free"}]
    /\ errs \in 0 .. MaxErrs /\ starts \in 0 .. MaxStarts /\ gaveup \in BOOLEAN

(* A receive buffer is in exactly one place: idle, busy, pending, or held   *)
(* by packets; and pktcnt counts the packets that still refer to it, in the *)
(* tasklet, in the ring and in the core, so that none of them reads a       *)
(* buffer that was given to the device again (phl_release_rxbuf_usb).       *)
BufPlaces ==
    \A b \in Bufs :
        LET refs == Count(frames, b) + Count(ring, b) + Cardinality({f \in RecvFrames : core[f] = b})
            places == (IF b \in idle THEN 1 ELSE 0) + (IF b \in busy THEN 1 ELSE 0)
                      + Count(pend, b) + (IF pktcnt[b] > 0 THEN 1 ELSE 0)
        IN  refs = pktcnt[b] /\ places = 1

(* Every URB of recv_urb_q is free, in flight or with the completion: of    *)
(* rtw_usb_read_port, each path that fails gives its URB back.  (-EPERM of  *)
(* usb_submit_urb, which it takes for a success, is not modelled: it is the *)
(* answer for a URB being killed, and drv_stopped is set before the kill.)  *)
UrbsBack ==
    urbs + Cardinality(inflight) + (IF pc["comp"] = "off" THEN 0 ELSE 1)
        = RTW_RECVURB_NR

(* While the data path runs, and until the driver marks itself stopped or   *)
(* the device removed, the requests at the device fall below in_token_num   *)
(* only by failed transfers and submissions, whose tokens are not replaced, *)
(* while the deferred timer is going to add them, or when a submission      *)
(* failed under the deferred timer: _phl_rx_start_usb then leaves the rest  *)
(* unsent and nothing sets the timer.  Neither the unlocked test of         *)
(* busy_rxbuf_list.cnt, nor a completion that still holds its URB while it  *)
(* needs the next one, nor a start that meets the tokens or the timer of an *)
(* earlier one loses a token.                                               *)
TokensKept ==
    pc["main"] = "on" /\ ~stopped =>
        \/ timer \/ pc["timer"] # "off" \/ gaveup
        \/ Cardinality(busy) + errs + (IF pc["comp"] = "token" THEN 1 ELSE 0)
              >= in_token_num

(* A transfer is pending and nobody is going to look at it. *)
Stranded ==
    pend # <<>> /\ ~rx_sched /\ ~rx /\ pc["comp"] \notin {"token", "submit", "sched"}

(* A pending transfer is left behind only by a run of the RX tasklet that   *)
(* found the ring full: _phl_rx_callback_usb returns then and schedules     *)
(* nothing.                                                                 *)
RxServesPend == Stranded => full

(* When all buffers are used up, requests are sent to the device again:     *)
(* the deferred timer repeats the indication that phl_event_indicator may   *)
(* have cleared unseen, the core takes the packets and returns the buffers. *)
TokensComeBack ==
    [](~Stranded /\ errs = 0) =>
        (pc["main"] = "on" /\ ~stopped /\ busy = {}) ~> (stopped \/ busy # {})
=============================================================================
