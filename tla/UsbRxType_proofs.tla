-------------------------- MODULE UsbRxType_proofs --------------------------
(***************************************************************************)
(* Proofs for UsbRx, first part: the invariant of the USB receive path, the*)
(* types of its flags and of its contexts, and who holds which buffer.     *)
(***************************************************************************)
EXTENDS UsbRx, TLAPS

\* The modules are long: a busy proof manager must not make a step time out.
USE SMTT(10), ZenonT(20)

-----------------------------------------------------------------------------
(* The inductive invariant. *)

\* The frames of the core that hold a packet of p, and those that hold any.
Held(p) == {f \in RecvFrames : core[f] = p}
Used == {f \in RecvFrames : core[f] # "free"}

\* A packet is idle in rx_pkt_pool, in the tasklet, in the ring or with the core.
PktsKept == pool + Len(frames) + Len(ring) + Cardinality(Used) = PoolSize

\* The packets rtw_core_rx_process is going to take are in the ring: nobody else
\* takes one out.
EvInRing == ev <= Len(ring)

\* A buffer in flight, one about to be submitted and one whose transfer is being
\* completed are busy, and they are different buffers.
Tokens ==
    /\ inflight \subseteq busy
    /\ \A a \in Actors : /\ pc[a] = "submit" => tok[a] \in busy \ inflight
                         /\ pc[a] # "submit" => tok[a] = NULL
    /\ \A a, c \in Actors : tok[a] # NULL /\ tok[a] = tok[c] => a = c
    /\ pc["comp"] = "post" =>
          done.buf \in busy \ inflight /\ \A a \in Actors : tok[a] # done.buf

\* The four places of a buffer.
IsIdle(b) == b \in idle /\ b \notin busy /\ Count(pend, b) = 0 /\ pktcnt[b] = 0
IsBusy(b) == b \notin idle /\ b \in busy /\ Count(pend, b) = 0 /\ pktcnt[b] = 0
IsPend(b) == b \notin idle /\ b \notin busy /\ Count(pend, b) = 1 /\ pktcnt[b] = 0
IsHeld(b) == b \notin idle /\ b \notin busy /\ Count(pend, b) = 0 /\ pktcnt[b] > 0
OnePlace == \A b \in Bufs : IsIdle(b) \/ IsBusy(b) \/ IsPend(b) \/ IsHeld(b)

\* The packets that refer to b are as many as pktcnt says.
Refs(b) == Count(frames, b) + Count(ring, b) + Cardinality(Held(b))
RefsCounted == \A b \in Bufs : Refs(b) = pktcnt[b]

RxInv ==
    TypeOK /\ PktsKept /\ EvInRing /\ Tokens /\ UrbsBack /\ OnePlace /\ RefsCounted

\* Until the driver is marked stopped, a failed transfer that is being completed has
\* been counted.
RunState == ~stopped /\ pc["comp"] = "post" /\ ~done.ok => errs >= 1

\* TokensKept, with the failed transfer that is still busy taken off.
TokensCounted ==
    pc["main"] = "on" /\ ~stopped =>
        \/ timer \/ pc["timer"] # "off" \/ gaveup
        \/ Cardinality(busy) + errs + (IF pc["comp"] = "token" THEN 1 ELSE 0)
              >= in_token_num + (IF pc["comp"] = "post" /\ ~done.ok THEN 1 ELSE 0)

-----------------------------------------------------------------------------
(* The types. *)

Labels == {"off", "check", "post", "token", "submit", "sched", "free",
           "failed", "on", "stop", "kill"}

\* Where the contexts are.
PcOK ==
    /\ pc \in [Actors -> Labels]
    /\ pc["comp"] \in {"off", "post", "token", "submit", "sched", "free"}
    /\ pc["timer"] \in {"off", "check", "token", "submit"}
    /\ pc["main"] \in {"off", "check", "token", "submit", "failed", "on", "stop", "kill"}

\* Every context goes on to a place of its own.
LEMMA PcTypeKept ==
    ASSUME PcOK, [Next]_vars
    PROVE  PcOK'
<1> USE DEF bufs, usb, ctx, tasklet, event, pkts, env, vars, Goto, Labels
<1>1. ASSUME NEW a \in Actors, InToken(a)
      PROVE  PcOK'
  BY <1>1 DEF PcOK, InToken, NoBuffer, Failed, Actors
<1>2. ASSUME NEW a \in Actors, rtw_usb_read_port(a)
      PROVE  PcOK'
  BY <1>2 DEF PcOK, rtw_usb_read_port, Submitted, Refused, Failed, Actors
<1>3. ASSUME NEW a \in Actors, _phl_rx_start_usb(a)
      PROVE  PcOK'
  BY <1>3 DEF PcOK, _phl_rx_start_usb, Actors
<1>4. CASE _phl_rx_deferred_in_token
  BY <1>4 DEF PcOK, _phl_rx_deferred_in_token, Actors
<1>5. ASSUME NEW b \in Bufs, NEW ok \in BOOLEAN, rtw_usb_read_port_complete(b, ok)
      PROVE  PcOK'
  BY <1>5 DEF PcOK, rtw_usb_read_port_complete, Actors
<1>6. CASE phl_pend_rxbuf_usb
  BY <1>6 DEF PcOK, phl_pend_rxbuf_usb, Actors
<1>7. CASE rtw_phl_start_rx_process
  BY <1>7 DEF PcOK, rtw_phl_start_rx_process, Actors
<1>8. CASE rtw_free_dataurb
  BY <1>8 DEF PcOK, rtw_free_dataurb, Actors
<1>9. CASE _phl_rx_callback_usb \/ phl_rx_usb \/ phl_rx_process_usb
  BY <1>9 DEF PcOK, _phl_rx_callback_usb, phl_rx_usb, phl_rx_process_usb
<1>10. CASE phl_event_indicator \/ rtw_core_rx_process
  BY <1>10 DEF PcOK, phl_event_indicator, rtw_core_rx_process
<1>11. ASSUME NEW f \in RecvFrames, rtw_phl_return_rxbuf(f)
       PROVE  PcOK'
  BY <1>11 DEF PcOK, rtw_phl_return_rxbuf
<1>12. CASE phl_trx_cfg_usb
  BY <1>12 DEF PcOK, phl_trx_cfg_usb, Actors
<1>13. CASE dev_set_drv_stopped
  BY <1>13 DEF PcOK, dev_set_drv_stopped, Actors
<1>14. CASE _phl_rx_stop_usb
  BY <1>14 DEF PcOK, _phl_rx_stop_usb, Actors
<1>15. CASE rtw_usb_read_port_cancel
  BY <1>15 DEF PcOK, rtw_usb_read_port_cancel, Actors
<1>16. CASE dev_set_surprise_removed \/ UNCHANGED vars
  BY <1>16 DEF PcOK, dev_set_surprise_removed
<1> QED
  BY <1>1, <1>2, <1>3, <1>4, <1>5, <1>6, <1>7, <1>8, <1>9, <1>10, <1>11, <1>12,
     <1>13, <1>14, <1>15, <1>16 DEF Next

\* The lists and the counts of the buffers, and the requests at the device.
BufsOK ==
    /\ idle \subseteq Bufs /\ busy \subseteq Bufs /\ pend \in Seq(Bufs)
    /\ pktcnt \in [Bufs -> 0 .. MaxAgg]
    /\ inflight \subseteq Bufs

\* The buffers that the contexts hold.
CtxOK ==
    tok \in [Actors -> Ptrs] /\ done \in [buf : Ptrs, ok : BOOLEAN]

\* The lists of packets.
PktsOK ==
    /\ frames \in Seq(Ptrs) /\ Len(frames) <= MaxAgg
    /\ ring \in Seq(Ptrs) /\ Len(ring) <= RingRoom
    /\ core \in [RecvFrames -> Ptrs \cup {"free"}]

\* The flags and the bounded counters.
FlagsOK ==
    /\ timer \in BOOLEAN /\ stopped \in BOOLEAN
    /\ rx_sched \in BOOLEAN /\ rx \in BOOLEAN /\ full \in BOOLEAN
    /\ evt \in BOOLEAN /\ ev_sched \in BOOLEAN
    /\ errs \in 0 .. MaxErrs /\ starts \in 0 .. MaxStarts /\ gaveup \in BOOLEAN

\* TypeOK in parts.
LEMMA TypeParts ==
    TypeOK <=> /\ PcOK /\ BufsOK /\ CtxOK /\ PktsOK /\ FlagsOK
               /\ urbs \in 0 .. RTW_RECVURB_NR /\ pool \in 0 .. PoolSize
               /\ ev \in -1 .. RingRoom
BY DEF TypeOK, PcOK, BufsOK, CtxOK, PktsOK, FlagsOK, Labels

\* Every step keeps the flags and the bounds on errors and starts.
LEMMA FlagsKept ==
    ASSUME FlagsOK, PcOK, [Next]_vars
    PROVE  FlagsOK'
<1>0. MaxErrs \in Nat /\ MaxStarts \in Nat
  BY UsbRxAssumption
<1>a. ASSUME UNCHANGED <<timer, stopped, rx_sched, rx, full, evt, ev_sched, errs, starts, gaveup>>
      PROVE  FlagsOK'
  BY <1>a, SMT DEF FlagsOK
<1>1. ASSUME NEW a \in Actors, InToken(a)
      PROVE  FlagsOK'
  <2>1. UNCHANGED <<stopped, rx_sched, rx, full, errs, starts, gaveup>>
    BY <1>1 DEF InToken, tasklet, env
  <2>2. \/ timer' = timer \/ timer' = (timer \/ a # "main")
    BY <1>1 DEF InToken, NoBuffer
  <2>3. timer' \in BOOLEAN
    BY <2>2, ZenonT(60) DEF FlagsOK
  <2>4. evt' \in BOOLEAN /\ ev_sched' \in BOOLEAN
    BY <1>1, ZenonT(60) DEF FlagsOK, InToken, NoBuffer, _phl_indic_new_rxpkt
  <2> QED
    BY <2>1, <2>3, <2>4 DEF FlagsOK
<1>2. ASSUME NEW a \in Actors, rtw_usb_read_port(a)
      PROVE  FlagsOK'
  <2>1. UNCHANGED <<timer, stopped, rx_sched, rx, full, evt, ev_sched, starts>>
    BY <1>2 DEF rtw_usb_read_port, tasklet, event
  <2>2. gaveup' \in BOOLEAN
    <3>1. gaveup' = gaveup \/ gaveup' = (gaveup \/ a = "timer")
      BY <1>2 DEF rtw_usb_read_port, Submitted, Refused
    <3> QED
      BY <3>1, ZenonT(60) DEF FlagsOK
  <2>3. errs' = errs \/ (errs < MaxErrs /\ errs' = errs + 1)
    BY <1>2 DEF rtw_usb_read_port, Submitted, Refused
  <2> QED
    BY <1>0, <2>1, <2>2, <2>3 DEF FlagsOK
<1>3. ASSUME NEW a \in Actors, _phl_rx_start_usb(a)
      PROVE  FlagsOK'
  <2>1. UNCHANGED <<timer, stopped, rx_sched, rx, full, evt, ev_sched, errs, starts>>
    BY <1>3, SMT DEF _phl_rx_start_usb, tasklet, event
  <2>2. gaveup' = gaveup \/ gaveup' = (gaveup /\ a # "timer")
    BY <1>3, SMT DEF _phl_rx_start_usb
  <2>3. gaveup' \in BOOLEAN
    BY <2>2, ZenonT(60) DEF FlagsOK
  <2> QED
    BY <2>1, <2>3, SMT DEF FlagsOK
<1>4. CASE _phl_rx_deferred_in_token
  <2>1. UNCHANGED <<stopped, rx_sched, rx, full, evt, ev_sched, errs, starts, gaveup>>
    BY <1>4, SMT DEF _phl_rx_deferred_in_token, tasklet, event, env
  <2>2. timer' \in BOOLEAN
    BY <1>4, Zenon DEF _phl_rx_deferred_in_token
  <2> QED
    BY <2>1, <2>2, SMT DEF FlagsOK
<1>5. ASSUME NEW b \in Bufs, NEW ok \in BOOLEAN, rtw_usb_read_port_complete(b, ok)
      PROVE  FlagsOK'
  <2>1. UNCHANGED <<timer, rx_sched, rx, full, evt, ev_sched, starts, gaveup>>
    BY <1>5 DEF rtw_usb_read_port_complete, tasklet, event
  <2>3. stopped' \in BOOLEAN
    <3>1. stopped' = stopped \/ stopped' \in BOOLEAN
      BY <1>5 DEF rtw_usb_read_port_complete
    <3> QED
      BY <3>1, Zenon DEF FlagsOK
  <2>2. errs' = errs \/ (errs < MaxErrs /\ errs' = errs + 1)
    BY <1>5 DEF rtw_usb_read_port_complete
  <2> QED
    BY <1>0, <2>1, <2>2, <2>3 DEF FlagsOK
<1>6. CASE phl_pend_rxbuf_usb \/ rtw_free_dataurb
  BY <1>a, <1>6, SMT DEF phl_pend_rxbuf_usb, rtw_free_dataurb, tasklet, event, env
<1>15. CASE rtw_phl_start_rx_process
  <2>1. UNCHANGED <<timer, stopped, rx, full, evt, ev_sched, errs, starts, gaveup>>
    BY <1>15, SMT DEF rtw_phl_start_rx_process, event, env
  <2>2. rx_sched' \in BOOLEAN
    BY <1>15, Zenon DEF rtw_phl_start_rx_process
  <2> QED
    BY <2>1, <2>2, SMT DEF FlagsOK
<1>7. CASE _phl_rx_callback_usb
  <2>1. UNCHANGED <<timer, stopped, evt, ev_sched, errs, starts, gaveup>>
    BY <1>7 DEF _phl_rx_callback_usb, event, env
  <2>2. rx_sched' \in BOOLEAN /\ rx' \in BOOLEAN /\ full' \in BOOLEAN
    <3>1. full' \in BOOLEAN
      BY <1>7 DEF _phl_rx_callback_usb
    <3>2. rx_sched' = FALSE /\ rx' = ~full'
      BY <1>7, Zenon DEF _phl_rx_callback_usb
    <3> QED
      BY <3>1, <3>2, Zenon
  <2> QED
    BY <2>1, <2>2 DEF FlagsOK
<1>8. CASE phl_rx_usb
  <2>1. UNCHANGED <<timer, stopped, rx_sched, full, evt, ev_sched, errs, starts, gaveup>>
    BY <1>8, SMT DEF phl_rx_usb, event, env
  <2>2. rx' = rx \/ rx' = FALSE
    BY <1>8, Zenon DEF phl_rx_usb
  <2>3. rx' \in BOOLEAN
    BY <2>2, Zenon DEF FlagsOK
  <2> QED
    BY <2>1, <2>3, SMT DEF FlagsOK
<1>9. CASE phl_rx_process_usb
  <2>1. UNCHANGED <<timer, stopped, rx_sched, rx, full, errs, starts, gaveup>>
    BY <1>9 DEF phl_rx_process_usb, env
  <2>2. evt' \in BOOLEAN /\ ev_sched' \in BOOLEAN
    BY <1>9, ZenonT(60) DEF FlagsOK, phl_rx_process_usb, _phl_indic_new_rxpkt
  <2> QED
    BY <2>1, <2>2 DEF FlagsOK
<1>10. CASE phl_event_indicator \/ rtw_core_rx_process
  <2>1. UNCHANGED <<timer, stopped, rx_sched, rx, full, errs, starts, gaveup>>
    BY <1>10, SMT DEF phl_event_indicator, rtw_core_rx_process, tasklet, env
  <2>2. (evt' = evt \/ evt' = FALSE) /\ (ev_sched' = ev_sched \/ ev_sched' = FALSE)
    BY <1>10, Zenon DEF phl_event_indicator, rtw_core_rx_process
  <2>3. evt' \in BOOLEAN /\ ev_sched' \in BOOLEAN
    BY <2>2, Zenon DEF FlagsOK
  <2> QED
    BY <2>1, <2>3, SMT DEF FlagsOK
<1>11. ASSUME NEW f \in RecvFrames, rtw_phl_return_rxbuf(f)
       PROVE  FlagsOK'
  BY <1>a, <1>11, SMT DEF rtw_phl_return_rxbuf, tasklet, event, env
<1>12. CASE phl_trx_cfg_usb
  <2>1. UNCHANGED <<timer, rx_sched, rx, full, evt, ev_sched>>
    BY <1>12 DEF phl_trx_cfg_usb, tasklet, event
  <2>2. stopped' \in BOOLEAN /\ gaveup' \in BOOLEAN
    BY <1>12, Zenon DEF phl_trx_cfg_usb
  <2>3. errs' \in {0, 1} /\ starts < MaxStarts /\ starts' = starts + 1
    BY <1>12 DEF phl_trx_cfg_usb, Failing
  <2>4. MaxErrs >= 1
    BY UsbRxAssumption
  <2> QED
    BY <1>0, <2>1, <2>2, <2>3, <2>4 DEF FlagsOK
<1>13. CASE \/ dev_set_drv_stopped \/ dev_set_surprise_removed
            \/ _phl_rx_stop_usb \/ rtw_usb_read_port_cancel
  <2>1. UNCHANGED <<rx_sched, rx, full, evt, ev_sched, errs, starts, gaveup>>
    BY <1>13, SMT DEF dev_set_drv_stopped, dev_set_surprise_removed, _phl_rx_stop_usb,
           rtw_usb_read_port_cancel, tasklet, event, env
  <2>2. (timer' = timer \/ timer' = FALSE) /\ (stopped' = stopped \/ stopped' = TRUE)
    BY <1>13, Zenon DEF dev_set_drv_stopped, dev_set_surprise_removed, _phl_rx_stop_usb,
           rtw_usb_read_port_cancel, env
  <2>3. timer' \in BOOLEAN /\ stopped' \in BOOLEAN
    BY <2>2, Zenon DEF FlagsOK
  <2> QED
    BY <2>1, <2>3, SMT DEF FlagsOK
<1>14. CASE UNCHANGED vars
  BY <1>a, <1>14, SMT DEF vars, tasklet, event, env
<1> QED
  BY <1>1, <1>2, <1>3, <1>4, <1>5, <1>6, <1>7, <1>8, <1>9, <1>10, <1>11, <1>12,
     <1>13, <1>14, <1>15 DEF Next

-----------------------------------------------------------------------------
(* Who holds which buffer. *)

\* The steps that move no buffer, no URB and no packet.
QuietStep ==
    \/ \E a \in Actors : _phl_rx_start_usb(a)
    \/ _phl_rx_deferred_in_token \/ rtw_phl_start_rx_process \/ _phl_rx_callback_usb
    \/ phl_event_indicator \/ phl_trx_cfg_usb \/ dev_set_drv_stopped
    \/ dev_set_surprise_removed
    \/ _phl_rx_stop_usb \/ rtw_usb_read_port_cancel \/ UNCHANGED vars

\* The steps that do.
BufStep ==
    \/ \E a \in Actors : InToken(a) \/ rtw_usb_read_port(a)
    \/ \E b \in Bufs, ok \in BOOLEAN : rtw_usb_read_port_complete(b, ok)
    \/ phl_pend_rxbuf_usb \/ rtw_free_dataurb
    \/ phl_rx_usb \/ phl_rx_process_usb \/ rtw_core_rx_process
    \/ \E f \in RecvFrames : rtw_phl_return_rxbuf(f)

\* Every step is one or the other.
LEMMA StepSplit ==
    ASSUME [Next]_vars
    PROVE  QuietStep \/ BufStep
BY Zenon DEF Next, QuietStep, BufStep

\* A quiet step leaves the buffers, the URBs and the packets where they are, and no
\* context begins or ends to hold one.
LEMMA QuietLemma ==
    ASSUME PcOK, QuietStep
    PROVE  /\ UNCHANGED <<bufs, usb, tok, done, frames, pkts>>
           /\ \A a \in Actors : (pc'[a] = "submit") <=> (pc[a] = "submit")
           /\ (pc'["comp"] = "post") <=> (pc["comp"] = "post")
           /\ (pc'["comp"] = "off") <=> (pc["comp"] = "off")
           /\ (pc'["comp"] = "token") <=> (pc["comp"] = "token")
<1> USE DEF bufs, usb, ctx, tasklet, event, pkts, env, vars, Goto
<1>1. ASSUME NEW a \in Actors, _phl_rx_start_usb(a)
      PROVE  /\ UNCHANGED <<bufs, usb, tok, done, frames, pkts>>
             /\ \A c \in Actors : (pc'[c] = "submit") <=> (pc[c] = "submit")
             /\ pc'["comp"] = pc["comp"]
  BY <1>1 DEF PcOK, _phl_rx_start_usb, Actors
<1>2. CASE _phl_rx_deferred_in_token
  BY <1>2 DEF PcOK, _phl_rx_deferred_in_token, Actors
<1>3. CASE rtw_phl_start_rx_process
  BY <1>3 DEF PcOK, rtw_phl_start_rx_process, Actors
<1>4. CASE _phl_rx_callback_usb \/ phl_event_indicator
  BY <1>4 DEF _phl_rx_callback_usb, phl_event_indicator
<1>5. CASE phl_trx_cfg_usb
  BY <1>5 DEF PcOK, phl_trx_cfg_usb, Actors
<1>6. CASE dev_set_drv_stopped
  BY <1>6 DEF PcOK, dev_set_drv_stopped, Actors
<1>7. CASE _phl_rx_stop_usb
  BY <1>7 DEF PcOK, _phl_rx_stop_usb, Actors
<1>8. CASE rtw_usb_read_port_cancel
  BY <1>8 DEF PcOK, rtw_usb_read_port_cancel, Actors
<1>9. CASE dev_set_surprise_removed \/ UNCHANGED vars
  BY <1>9 DEF dev_set_surprise_removed
<1> QED
  BY <1>1, <1>2, <1>3, <1>4, <1>5, <1>6, <1>7, <1>8, <1>9 DEF QuietStep

\* The buffers that contexts hold stay busy, and no two contexts hold the same.
LEMMA TokensStep ==
    ASSUME TypeOK, Tokens, OnePlace, [Next]_vars
    PROVE  Tokens'
<1>0. PcOK /\ BufsOK /\ CtxOK /\ PktsOK
  BY TypeParts
<1>a. idle \cap busy = {}
  BY <1>0 DEF OnePlace, IsIdle, IsBusy, IsPend, IsHeld, BufsOK
<1>b. NULL \notin Bufs
  BY UsbRxAssumption
<1> USE DEF bufs, usb, ctx, tasklet, event, pkts, env, vars, Goto
<1>1. ASSUME UNCHANGED <<busy, inflight, tok, done>>,
             \A a \in Actors : (pc'[a] = "submit") <=> (pc[a] = "submit"),
             (pc'["comp"] = "post") => (pc["comp"] = "post")
      PROVE  Tokens'
  BY <1>1 DEF Tokens
<1>2. CASE QuietStep
  BY <1>0, <1>1, <1>2, QuietLemma
<1>3. ASSUME NEW a \in Actors, InToken(a)
      PROVE  Tokens'
  <2>0. pc[a] = "token" /\ tok[a] = NULL /\ UNCHANGED <<inflight, done>>
    BY <1>3 DEF InToken, Tokens
  <2>1. CASE NoBuffer(a)
    <3>1. UNCHANGED <<busy, tok>> /\ pc' = [pc EXCEPT ![a] = Failed(a)]
      BY <2>1 DEF NoBuffer
    <3>2. Failed(a) \notin {"submit", "post"}
      BY DEF Failed, Actors
    <3> QED
      BY <1>0, <1>1, <2>0, <3>1, <3>2 DEF PcOK, Actors
  <2>2. ASSUME NEW b \in idle, busy' = busy \cup {b}, tok' = [tok EXCEPT ![a] = b],
               pc' = [pc EXCEPT ![a] = "submit"]
        PROVE  Tokens'
    <3>1. b \in Bufs /\ b \notin busy /\ b # NULL
      BY <1>0, <1>a, <1>b DEF BufsOK
    <3>2. /\ pc'[a] = "submit" /\ tok'[a] = b
          /\ \A c \in Actors : c # a => pc'[c] = pc[c] /\ tok'[c] = tok[c]
      BY <1>0, <2>2 DEF PcOK, CtxOK
    <3>3. \A c \in Actors : tok[c] # b
      BY <3>1 DEF Tokens
    <3>4. inflight' \subseteq busy'
      BY <2>0, <2>2 DEF Tokens
    <3>5. \A c \in Actors : /\ pc'[c] = "submit" => tok'[c] \in busy' \ inflight'
                            /\ pc'[c] # "submit" => tok'[c] = NULL
      BY <2>0, <2>2, <3>1, <3>2 DEF Tokens
    <3>6. \A c, d \in Actors : tok'[c] # NULL /\ tok'[c] = tok'[d] => c = d
      BY <3>2, <3>3 DEF Tokens
    <3>7. pc'["comp"] = "post" => pc["comp"] = "post"
      BY <2>0, <3>2 DEF Actors
    <3>8. pc["comp"] = "post" =>
             done'.buf \in busy' \ inflight' /\ \A c \in Actors : tok'[c] # done'.buf
      BY <2>0, <2>2, <3>1, <3>2 DEF Tokens
    <3> QED
      BY <3>4, <3>5, <3>6, <3>7, <3>8 DEF Tokens
  <2> QED
    BY <1>3, <2>1, <2>2 DEF InToken
<1>4. ASSUME NEW a \in Actors, rtw_usb_read_port(a)
      PROVE  Tokens'
  <2>0. /\ pc[a] = "submit" /\ tok[a] \in busy \ inflight /\ tok[a] # NULL
        /\ UNCHANGED done /\ tok' = [tok EXCEPT ![a] = NULL]
    BY <1>0, <1>4, <1>b DEF rtw_usb_read_port, Tokens, BufsOK
  <2>1. PICK l : l \notin {"submit", "post"} /\ pc' = [pc EXCEPT ![a] = l]
    <3>1. Failed(a) \notin {"submit", "post"}
      BY DEF Failed, Actors
    <3> QED
      BY <1>4, <3>1 DEF rtw_usb_read_port, Submitted, Refused
  <2>2. /\ pc'[a] # "submit" /\ tok'[a] = NULL
        /\ \A c \in Actors : c # a => pc'[c] = pc[c] /\ tok'[c] = tok[c]
        /\ pc'["comp"] = "post" => pc["comp"] = "post"
    BY <1>0, <2>0, <2>1 DEF PcOK, CtxOK, Actors
  <2>3. \A c \in Actors : c # a /\ pc[c] = "submit" => tok[c] # tok[a] /\ tok[c] \in busy \ inflight
    BY <2>0 DEF Tokens
  <2>4. \/ inflight' = inflight \cup {tok[a]} /\ busy' = busy
        \/ inflight' = inflight /\ busy' = busy \ {tok[a]}
    BY <1>4 DEF rtw_usb_read_port, Submitted, Refused
  <2>5. inflight' \subseteq busy'
    BY <2>0, <2>4 DEF Tokens
  <2>6. \A c \in Actors : /\ pc'[c] = "submit" => tok'[c] \in busy' \ inflight'
                          /\ pc'[c] # "submit" => tok'[c] = NULL
    BY <2>2, <2>3, <2>4 DEF Tokens
  <2>7. \A c, d \in Actors : tok'[c] # NULL /\ tok'[c] = tok'[d] => c = d
    BY <2>2 DEF Tokens
  <2>8. pc["comp"] = "post" =>
           done.buf \in busy' \ inflight' /\ \A c \in Actors : tok'[c] # done.buf
    BY <1>0, <1>b, <2>0, <2>2, <2>4 DEF Tokens, BufsOK
  <2> QED
    BY <2>0, <2>2, <2>5, <2>6, <2>7, <2>8 DEF Tokens
<1>5. ASSUME NEW b \in Bufs, NEW ok \in BOOLEAN, rtw_usb_read_port_complete(b, ok)
      PROVE  Tokens'
  <2>1. /\ b \in inflight /\ inflight' = inflight \ {b} /\ UNCHANGED <<busy, tok>>
        /\ done' = [buf |-> b, ok |-> ok] /\ pc["comp"] = "off"
        /\ pc' = [pc EXCEPT !["comp"] = "post"]
    BY <1>5 DEF rtw_usb_read_port_complete
  <2>2. \A c \in Actors : (pc'[c] = "submit") <=> (pc[c] = "submit")
    BY <1>0, <2>1 DEF PcOK
  <2>3. \A c \in Actors : tok[c] # b
    BY <1>0, <1>b, <2>1 DEF Tokens, BufsOK
  <2>4. done'.buf = b
    BY <2>1
  <2> QED
    BY <2>1, <2>2, <2>3, <2>4 DEF Tokens
<1>6. CASE phl_pend_rxbuf_usb
  <2>1. /\ pc["comp"] = "post" /\ busy' = busy \ {done.buf}
        /\ UNCHANGED <<inflight, tok, done>>
        /\ \E l \in {"token", "free"} : pc' = [pc EXCEPT !["comp"] = l]
    BY <1>6 DEF phl_pend_rxbuf_usb
  <2>2. /\ \A c \in Actors : (pc'[c] = "submit") <=> (pc[c] = "submit")
        /\ pc'["comp"] # "post"
    BY <1>0, <2>1 DEF PcOK, Actors
  <2> QED
    BY <2>1, <2>2 DEF Tokens
<1>7. CASE rtw_free_dataurb
  <2>1. /\ pc["comp"] = "free" /\ pc' = [pc EXCEPT !["comp"] = "off"]
        /\ UNCHANGED <<busy, inflight, tok>>
    BY <1>7 DEF rtw_free_dataurb
  <2>2. /\ \A c \in Actors : (pc'[c] = "submit") <=> (pc[c] = "submit")
        /\ pc'["comp"] # "post"
    BY <1>0, <2>1 DEF PcOK, Actors
  <2> QED
    BY <2>1, <2>2 DEF Tokens
<1>8. CASE phl_rx_usb \/ phl_rx_process_usb \/ rtw_core_rx_process
           \/ \E f \in RecvFrames : rtw_phl_return_rxbuf(f)
  <2>1. UNCHANGED <<busy, inflight, tok, done, pc>>
    BY <1>8 DEF phl_rx_usb, phl_rx_process_usb, rtw_core_rx_process, rtw_phl_return_rxbuf
  <2> QED
    BY <1>1, <2>1
<1> QED
  BY <1>2, <1>3, <1>4, <1>5, <1>6, <1>7, <1>8, StepSplit DEF BufStep

\* A step of the tasklets or of the core leaves the contexts and the tokens alone.
LEMMA TaskletLemma ==
    ASSUME \/ phl_rx_usb \/ phl_rx_process_usb \/ rtw_core_rx_process
           \/ _phl_rx_callback_usb \/ phl_event_indicator
           \/ \E f \in RecvFrames : rtw_phl_return_rxbuf(f)
    PROVE  UNCHANGED <<busy, inflight, urbs, pc, tok, done, timer, stopped, errs, gaveup>>
BY DEF phl_rx_usb, phl_rx_process_usb, rtw_core_rx_process, _phl_rx_callback_usb,
       phl_event_indicator, rtw_phl_return_rxbuf, bufs, usb, ctx, env

\* A failed transfer is counted, by the completion or by the start that finds it.
LEMMA RunStep ==
    ASSUME TypeOK, RunState, [Next]_vars
    PROVE  RunState'
<1>0. PcOK /\ errs \in Nat /\ stopped \in BOOLEAN /\ done \in [buf : Ptrs, ok : BOOLEAN]
  BY TypeParts, UsbRxAssumption DEF FlagsOK, CtxOK
<1> USE DEF bufs, usb, ctx, tasklet, event, pkts, env, vars, Goto
<1>1. ASSUME stopped' = stopped, done' = done, errs' = errs \/ errs' = errs + 1,
             pc'["comp"] = "post" => pc["comp"] = "post"
      PROVE  RunState'
  <2>1. errs >= 1 => errs' >= 1
    BY <1>0, <1>1
  <2> QED
    BY <1>1, <2>1 DEF RunState
<1>2. CASE \/ phl_rx_usb \/ phl_rx_process_usb \/ rtw_core_rx_process
           \/ _phl_rx_callback_usb \/ phl_event_indicator
           \/ \E f \in RecvFrames : rtw_phl_return_rxbuf(f)
  BY <1>1, <1>2, TaskletLemma
<1>3. ASSUME NEW a \in Actors, InToken(a)
      PROVE  RunState'
  <2>1. /\ UNCHANGED <<stopped, errs, done>>
        /\ \E l \in {"submit", Failed(a)} : pc' = [pc EXCEPT ![a] = l]
    BY <1>3 DEF InToken, NoBuffer
  <2>2. pc'["comp"] = "post" => pc["comp"] = "post"
    BY <1>0, <2>1 DEF PcOK, Actors, Failed
  <2> QED
    BY <1>1, <2>1, <2>2
<1>4. ASSUME NEW a \in Actors, rtw_usb_read_port(a)
      PROVE  RunState'
  <2>1. UNCHANGED <<stopped, done>>
    BY <1>4 DEF rtw_usb_read_port
  <2>2. /\ \E l \in {"sched", "check", Failed(a)} : pc' = [pc EXCEPT ![a] = l]
        /\ errs' = errs \/ errs' = errs + 1
    <3>1. CASE Submitted(a)
      BY <3>1, ZenonT(60) DEF Submitted
    <3>2. CASE Refused(a)
      BY <3>2 DEF Refused
    <3> QED
      BY <1>4, <3>1, <3>2 DEF rtw_usb_read_port
  <2>3. pc'["comp"] = "post" => pc["comp"] = "post"
    BY <1>0, <2>2 DEF PcOK, Actors, Failed
  <2> QED
    BY <1>1, <2>1, <2>2, <2>3
<1>5. ASSUME NEW a \in Actors, _phl_rx_start_usb(a)
      PROVE  RunState'
  <2>1. /\ UNCHANGED <<stopped, errs, done>>
        /\ \E l \in {"token", "off", "on"} : pc' = [pc EXCEPT ![a] = l]
    BY <1>5 DEF _phl_rx_start_usb
  <2>2. pc'["comp"] = "post" => pc["comp"] = "post"
    BY <1>0, <2>1 DEF PcOK, Actors
  <2> QED
    BY <1>1, <2>1, <2>2
<1>6. CASE _phl_rx_deferred_in_token \/ _phl_rx_stop_usb \/ rtw_usb_read_port_cancel
  <2>1. /\ UNCHANGED <<stopped, errs, done>>
        /\ \E a \in {"timer", "main"}, l \in {"check", "kill", "off"} :
              pc' = [pc EXCEPT ![a] = l]
    BY <1>6 DEF _phl_rx_deferred_in_token, _phl_rx_stop_usb, rtw_usb_read_port_cancel
  <2>2. pc'["comp"] = pc["comp"]
    BY <1>0, <2>1 DEF PcOK, Actors
  <2> QED
    BY <1>1, <2>1, <2>2
<1>7. ASSUME NEW b \in Bufs, NEW ok \in BOOLEAN, rtw_usb_read_port_complete(b, ok)
      PROVE  RunState'
  <2>1. done'.ok = ok
    BY <1>7 DEF rtw_usb_read_port_complete
  <2>2. ~stopped' /\ ~ok => errs' = errs + 1
    <3>1. ok \/ errs' = errs + 1 \/ (stopped /\ stopped' = stopped)
      BY <1>7, SMT DEF rtw_usb_read_port_complete
    <3>2. CASE stopped /\ stopped' = stopped
      <4>1. stopped' = stopped /\ stopped = TRUE
        BY <1>0, <3>2
      <4> QED
        BY <4>1
    <3> QED
      BY <3>1, <3>2
  <2>3. ~stopped' /\ ~done'.ok => errs' >= 1
    BY <1>0, <2>1, <2>2
  <2> QED
    BY <2>3 DEF RunState
<1>8. CASE phl_pend_rxbuf_usb \/ rtw_phl_start_rx_process \/ rtw_free_dataurb
  <2>1. \E l \in {"token", "free", "off"} : pc' = [pc EXCEPT !["comp"] = l]
    BY <1>8 DEF phl_pend_rxbuf_usb, rtw_phl_start_rx_process, rtw_free_dataurb
  <2>2. pc'["comp"] # "post"
    BY <1>0, <2>1 DEF PcOK, Actors
  <2> QED
    BY <2>2 DEF RunState
<1>9. CASE phl_trx_cfg_usb
  <2>1. pc' = [pc EXCEPT !["main"] = "check"] /\ done' = done /\ errs' = Failing
    BY <1>9 DEF phl_trx_cfg_usb
  <2>2. pc'["comp"] = pc["comp"]
    BY <1>0, <2>1 DEF PcOK, Actors
  <2> QED
    BY <2>1, <2>2 DEF RunState, Failing
<1>10. CASE dev_set_drv_stopped \/ dev_set_surprise_removed
  <2>1. stopped' = TRUE
    BY <1>10, Zenon DEF dev_set_drv_stopped, dev_set_surprise_removed
  <2> QED
    BY <2>1, Zenon DEF RunState
<1>11. CASE UNCHANGED vars
  BY <1>1, <1>11
<1> QED
  BY <1>2, <1>3, <1>4, <1>5, <1>6, <1>7, <1>8, <1>9, <1>10, <1>11 DEF Next

=============================================================================
