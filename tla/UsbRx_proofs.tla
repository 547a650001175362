---------------------------- MODULE UsbRx_proofs ----------------------------
(***************************************************************************)
(* Proofs for UsbRx, third part: the invariant holds, so that no URB, buffer *)
(* or packet is lost; the tokens that ask the device for data are all        *)
(* accounted for; and no pending buffer waits without a tasklet to serve it. *)
(***************************************************************************)
EXTENDS UsbRxPlaces_proofs

\* The modules are long: a busy proof manager must not make a step time out.
USE SMTT(10), ZenonT(20)

-----------------------------------------------------------------------------
(* The invariant holds. *)

\* The counters never go below their floor: packets are taken from rx_pkt_pool only
\* when they are there.
LEMMA FloorsKept ==
    ASSUME TypeOK, [Next]_vars
    PROVE  pool' \in Nat /\ ev' \in Int /\ ev' >= -1
<1>0. PcOK /\ BufsOK /\ PktsOK /\ pool \in Nat /\ ev \in Int /\ ev >= -1
  BY TypeParts, UsbRxAssumption
<1> USE DEF bufs, usb, ctx, tasklet, event, pkts, env, vars
<1>1. CASE QuietStep
  <2>1. UNCHANGED pool
    BY <1>0, <1>1, QuietLemma
  <2>2. ev' = ev \/ ev' = Len(ring) \/ ev' = -1
    BY <1>1 DEF QuietStep, _phl_rx_start_usb, _phl_rx_deferred_in_token,
           rtw_phl_start_rx_process, _phl_rx_callback_usb, phl_event_indicator,
           phl_trx_cfg_usb, dev_set_drv_stopped, dev_set_surprise_removed, _phl_rx_stop_usb,
           rtw_usb_read_port_cancel
  <2>3. Len(ring) \in Nat
    BY <1>0 DEF PktsOK
  <2> QED
    BY <1>0, <2>1, <2>2, <2>3
<1>2. CASE \E a \in Actors : InToken(a) \/ rtw_usb_read_port(a)
  BY <1>0, <1>2 DEF InToken, rtw_usb_read_port
<1>3. CASE \E b \in Bufs, ok \in BOOLEAN : rtw_usb_read_port_complete(b, ok)
  BY <1>0, <1>3 DEF rtw_usb_read_port_complete
<1>4. CASE phl_pend_rxbuf_usb \/ rtw_free_dataurb
  BY <1>0, <1>4 DEF phl_pend_rxbuf_usb, rtw_free_dataurb
<1>5. CASE phl_rx_usb
  <2>1. CASE UNCHANGED <<event, pkts>>
    BY <1>0, <2>1
  <2>2. ASSUME NEW b \in Bufs, NEW ps \in Seq(Ptrs), TakesPend(b, ps)
        PROVE  pool' \in Nat /\ ev' = ev
    <3>1. PICK k \in Nat : k = Len(ps)
      OBVIOUS
    <3>2. pool' = pool - k /\ k <= pool /\ ev' = ev
      BY <2>2, <3>1 DEF TakesPend
    <3> QED
      BY <1>0, <3>2
  <2> QED
    BY <1>0, <1>5, <2>1, <2>2, RxUsbLemma, ZenonT(60)
<1>6. CASE phl_rx_process_usb
  BY <1>0, <1>6 DEF phl_rx_process_usb, phl_recycle_rx_buf
<1>7. CASE rtw_core_rx_process
  BY <1>0, <1>7 DEF rtw_core_rx_process
<1>8. CASE \E f \in RecvFrames : rtw_phl_return_rxbuf(f)
  BY <1>0, <1>8 DEF rtw_phl_return_rxbuf, phl_recycle_rx_buf
<1> QED
  BY <1>1, <1>2, <1>3, <1>4, <1>5, <1>6, <1>7, <1>8, StepSplit DEF BufStep

\* The invariant holds at the start.
LEMMA RxInit ==
    ASSUME Init
    PROVE  RxInv
<1> USE UsbRxAssumption DEF Init
<1>1. TypeOK
  <2>1. PcOK
    BY DEF PcOK, Actors, Labels
  <2>2. BufsOK /\ CtxOK /\ PktsOK
    <3>1. BufsOK
      <4>1. 0 \in 0 .. MaxAgg
        OBVIOUS
      <4>2. pktcnt \in [Bufs -> 0 .. MaxAgg]
        BY <4>1
      <4> QED
        BY <4>2 DEF BufsOK
    <3>2. CtxOK
      BY DEF CtxOK, Ptrs
    <3>3. PktsOK
      <4>1. frames \in Seq(Ptrs) /\ ring \in Seq(Ptrs) /\ Len(frames) = 0 /\ Len(ring) = 0
        OBVIOUS
      <4>2. 0 <= MaxAgg /\ 0 <= RingRoom
        OBVIOUS
      <4>3. core \in [RecvFrames -> Ptrs \cup {"free"}]
        OBVIOUS
      <4> QED
        BY <4>1, <4>2, <4>3, Zenon DEF PktsOK
    <3> QED
      BY <3>1, <3>2, <3>3
  <2>3. FlagsOK
    <3>1. /\ timer \in BOOLEAN /\ stopped \in BOOLEAN
          /\ rx_sched \in BOOLEAN /\ rx \in BOOLEAN /\ full \in BOOLEAN
          /\ evt \in BOOLEAN /\ ev_sched \in BOOLEAN /\ gaveup \in BOOLEAN
      BY Zenon
    <3>2. errs \in 0 .. MaxErrs /\ starts \in 0 .. MaxStarts
      OBVIOUS
    <3> QED
      BY <3>1, <3>2 DEF FlagsOK
  <2>4. urbs \in 0 .. RTW_RECVURB_NR /\ pool \in 0 .. PoolSize /\ ev \in -1 .. RingRoom
    OBVIOUS
  <2> QED
    BY <2>1, <2>2, <2>3, <2>4, TypeParts
<1>2. Cardinality(Used) = 0 /\ \A b \in Bufs : Cardinality(Held(b)) = 0
  <2>1. Used = {} /\ \A b \in Bufs : Held(b) = {}
    BY DEF Used, Held
  <2> QED
    BY <2>1, FS_EmptySet, ZenonT(60)
<1>3. PktsKept /\ EvInRing
  BY <1>2 DEF PktsKept, EvInRing
<1>4. Tokens
  BY DEF Tokens, Actors
<1>5. UrbsBack
  <2>1. Cardinality(inflight) = 0
    BY FS_EmptySet, Zenon
  <2> QED
    BY <2>1 DEF UrbsBack, Actors
<1>6. OnePlace
  <2>1. \A b \in Bufs : IsIdle(b)
    BY CountEmpty DEF IsIdle
  <2> QED
    BY <2>1 DEF OnePlace
<1>7. RefsCounted
  <2>1. ASSUME NEW b \in Bufs
        PROVE  Refs(b) = pktcnt[b]
    <3>1. Count(frames, b) = 0 /\ Count(ring, b) = 0
      BY CountEmpty
    <3> QED
      BY <1>2, <3>1 DEF Refs
  <2> QED
    BY <2>1 DEF RefsCounted
<1> QED
  BY <1>1, <1>3, <1>4, <1>5, <1>6, <1>7 DEF RxInv

\* Every step keeps it.
LEMMA RxStep ==
    ASSUME RxInv, [Next]_vars
    PROVE  RxInv'
<1>0. TypeOK /\ PktsKept /\ EvInRing /\ Tokens /\ UrbsBack /\ OnePlace /\ RefsCounted
  BY DEF RxInv
<1>1. PcOK' /\ FlagsOK'
  BY <1>0, TypeParts, PcTypeKept, FlagsKept
<1>2. BufsOK' /\ CtxOK'
  BY <1>0, BufsKept
<1>3. PktsOK' /\ PktsKept' /\ EvInRing'
  BY <1>0, PktsStep
<1>4. Tokens'
  BY <1>0, TokensStep
<1>5. UrbsBack' /\ urbs' \in Nat
  BY <1>0, UrbsStep
<1>6. OnePlace' /\ RefsCounted'
  BY <1>0, PlacesStep
<1>7. pool' \in Nat /\ ev' \in Int /\ ev' >= -1
  BY <1>0, FloorsKept
<1>8. urbs' \in 0 .. RTW_RECVURB_NR
  <2>1. IsFiniteSet(inflight')
    BY <1>2, UsbRxAssumption, FS_Subset DEF BufsOK
  <2>2. PICK k \in Nat : k = Cardinality(inflight')
    BY <2>1, FS_CardinalityType
  <2>3. urbs' + k + (IF pc'["comp"] = "off" THEN 0 ELSE 1) = RTW_RECVURB_NR
    BY <1>5, <2>2 DEF UrbsBack
  <2> QED
    BY <1>5, <2>2, <2>3, UsbRxAssumption
<1>9. pool' \in 0 .. PoolSize /\ ev' \in -1 .. RingRoom
  <2>1. PICK nf \in Nat, nr \in Nat : nf = Len(frames') /\ nr = Len(ring') /\ nr <= RingRoom
    BY <1>3 DEF PktsOK
  <2>2. PICK nu \in Nat : nu = Cardinality(Used')
    <3>1. Used' \in SUBSET RecvFrames /\ NR_RECVFRAME \in Int /\ 1 \in Int
      BY UsbRxAssumption DEF Used
    <3>2. IsFiniteSet(RecvFrames)
      BY <3>1, FS_Interval DEF RecvFrames
    <3>3. IsFiniteSet(Used')
      BY <3>1, <3>2, FS_Subset
    <3> QED
      BY <3>3, FS_CardinalityType
  <2>3. pool' + nf + nr + nu = PoolSize /\ ev' <= nr
    BY <1>3, <2>1, <2>2 DEF PktsKept, EvInRing
  <2> QED
    BY <1>7, <2>1, <2>2, <2>3, UsbRxAssumption
<1>10. TypeOK'
  BY <1>1, <1>2, <1>3, <1>8, <1>9 DEF TypeOK, PcOK, BufsOK, CtxOK, PktsOK, FlagsOK, Labels
<1> QED
  BY <1>3, <1>4, <1>5, <1>6, <1>10 DEF RxInv

\* The invariant holds in every state.
LEMMA RxAlways == Spec => []RxInv
<1>1. Init => RxInv
  BY RxInit
<1>2. RxInv /\ [Next]_vars => RxInv'
  BY RxStep
<1> QED
  BY <1>1, <1>2, PTL DEF Spec

\* Every variable keeps its type: no counter of the receive path leaves its range,
\* for any number of buffers, URBs, packets and frames.
THEOREM TypeCorrect == Spec => []TypeOK
<1>1. RxInv => TypeOK
  BY DEF RxInv
<1> QED
  BY <1>1, RxAlways, PTL

\* Every URB is free, in flight or with the completion, on every path of
\* rtw_usb_read_port and of its completion.
THEOREM UrbsNeverLost == Spec => []UrbsBack
<1>1. RxInv => UrbsBack
  BY DEF RxInv
<1> QED
  BY <1>1, RxAlways, PTL

\* A receive buffer is in exactly one place, and pktcnt counts the packets that
\* refer to it: the device never writes into a buffer that a packet still uses.
THEOREM BuffersHeldOnce == Spec => []BufPlaces
<1>1. ASSUME RxInv
      PROVE  BufPlaces
  <2>0. BufsOK /\ PktsOK /\ OnePlace /\ RefsCounted
    BY <1>1, TypeParts DEF RxInv
  <2>1. ASSUME NEW b \in Bufs
        PROVE  /\ Count(frames, b) + Count(ring, b) + Cardinality(Held(b)) = pktcnt[b]
               /\ (IF b \in idle THEN 1 ELSE 0) + (IF b \in busy THEN 1 ELSE 0)
                     + Count(pend, b) + (IF pktcnt[b] > 0 THEN 1 ELSE 0) = 1
    <3>1. Refs(b) = pktcnt[b]
      BY <2>0 DEF RefsCounted
    <3>2. PICK k \in Nat : k = pktcnt[b]
      BY <2>0, RefsType
    <3>7. (IF b \in idle THEN 1 ELSE 0) + (IF b \in busy THEN 1 ELSE 0)
             + Count(pend, b) + (IF pktcnt[b] > 0 THEN 1 ELSE 0) = 1
      <4>1. CASE IsIdle(b)
        BY <4>1 DEF IsIdle
      <4>2. CASE IsBusy(b)
        BY <4>2 DEF IsBusy
      <4>3. CASE IsPend(b)
        BY <4>3 DEF IsPend
      <4>4. CASE IsHeld(b)
        BY <3>2, <4>4 DEF IsHeld
      <4> QED
        BY <2>0, <4>1, <4>2, <4>3, <4>4 DEF OnePlace
    <3> QED
      BY <3>1, <3>7 DEF Refs
  <2> QED
    BY <2>1 DEF BufPlaces, Held
<1> QED
  BY <1>1, RxAlways, PTL

-----------------------------------------------------------------------------
(* The tokens. *)

\* The token that the completion is about to send, as a number.
Sending == IF pc["comp"] = "token" THEN 1 ELSE 0

\* The driver is not marked stopped, and nobody is going to add a token.
NoneComing == ~stopped /\ ~timer /\ pc["timer"] = "off" /\ ~gaveup

\* TokensCounted once more.
LEMMA CountedIs ==
    TokensCounted <=>
        (pc["main"] = "on" /\ NoneComing =>
            Cardinality(busy) + errs + Sending >= in_token_num + Failing)
BY Zenon DEF TokensCounted, NoneComing, Sending, Failing

\* With in_token_num buffers busy the count is right: a failed transfer is counted.
LEMMA BusyEnough ==
    ASSUME NEW n \in Nat, NEW e \in Nat, NEW s \in {0, 1}, NEW d \in {0, 1}, NEW t \in Nat,
           n >= t, d = 1 => e >= 1
    PROVE  n + e + s >= t + d
OBVIOUS

\* rtw_usb_read_port: without a URB all tokens are in flight, and a refused
\* submission of the completion is counted.
LEMMA ReadPortCounted ==
    ASSUME RxInv, RunState, TokensCounted, NEW a \in Actors, rtw_usb_read_port(a),
           pc'["main"] = "on", NoneComing'
    PROVE  Cardinality(busy') + errs' + Sending' >= in_token_num + Failing'
<1>0. /\ PcOK /\ BufsOK /\ CtxOK /\ errs \in Nat /\ Tokens /\ UrbsBack /\ urbs \in Nat
      /\ done \in [buf : Ptrs, ok : BOOLEAN]
  BY TypeParts, UsbRxAssumption DEF RxInv, FlagsOK, CtxOK
<1>a. IsFiniteSet(busy) /\ IsFiniteSet(inflight)
  BY <1>0, UsbRxAssumption, FS_Subset DEF BufsOK
<1>b. PICK n \in Nat, k \in Nat : n = Cardinality(busy) /\ k = Cardinality(inflight)
  BY <1>a, FS_CardinalityType
<1>c. in_token_num \in Nat /\ RTW_RECVURB_NR \in Nat /\ RTW_RECVURB_NR > in_token_num
  BY UsbRxAssumption
<1> USE DEF Goto
<1>1. /\ pc[a] = "submit" /\ tok[a] \in busy \ inflight
      /\ UNCHANGED <<stopped, done, timer>>
  BY <1>0 DEF rtw_usb_read_port, Tokens
<1>2. PICK l \in {"sched", "check", Failed(a)} :
         (l = "sched" => a = "comp") /\ pc' = [pc EXCEPT ![a] = l]
  <2>1. Failed(a) = "sched" => a = "comp"
    BY DEF Failed, Actors
  <2> QED
    BY <2>1 DEF rtw_usb_read_port, Submitted, Refused
<1>3. a # "main" /\ pc["main"] = "on" /\ ~stopped
  <2>0. ~stopped
    BY <1>1 DEF NoneComing
  <2>1. a # "main"
    BY <1>0, <1>2 DEF PcOK, Actors, Failed
  <2>2. pc["main"] = "on"
    BY <1>0, <1>2, <2>1 DEF PcOK, Actors
  <2> QED
    BY <2>0, <2>1, <2>2
<1>4. ASSUME urbs = 0, busy' = busy \ {tok[a]}
      PROVE  \E m \in Nat : m = Cardinality(busy') /\ m >= in_token_num
  <2>1. k >= in_token_num
    <3>1. 0 + k + (IF pc["comp"] = "off" THEN 0 ELSE 1) = RTW_RECVURB_NR
      BY <1>0, <1>b, <1>4 DEF UrbsBack
    <3> QED
      BY <3>1, <1>c
  <2>2. inflight \in SUBSET busy' /\ IsFiniteSet(busy')
    BY <1>0, <1>1, <1>4, <1>a, FS_RemoveElement DEF Tokens
  <2>3. Cardinality(busy') \in Nat /\ k <= Cardinality(busy')
    BY <1>b, <2>2, FS_Subset, FS_CardinalityType
  <2> QED
    BY <1>c, <2>1, <2>3
<1>5. CASE a = "comp"
  <2>1. pc'["timer"] = pc["timer"] /\ pc'["comp"] = "sched"
    <3>1. Failed("comp") = "sched"
      BY DEF Failed
    <3>2. pc' = [pc EXCEPT !["comp"] = "sched"]
      BY <3>1, <1>5 DEF rtw_usb_read_port, Submitted, Refused
    <3> QED
      BY <1>0, <3>2 DEF PcOK, Actors
  <2>2. Sending = 0 /\ Failing = 0 /\ Sending' = 0 /\ Failing' = 0
    BY <1>1, <1>5, <2>1 DEF Sending, Failing
  <2>3. NoneComing
    <3>1. gaveup => gaveup'
      BY Zenon DEF rtw_usb_read_port, Submitted, Refused
    <3> QED
      BY <1>1, <2>1, <3>1 DEF NoneComing
  <2>4. n + errs >= in_token_num
    BY <1>0, <1>b, <1>c, <1>3, <2>2, <2>3, CountedIs
  <2>5. CASE busy' = busy /\ errs' = errs
    BY <1>0, <1>b, <1>c, <2>2, <2>4, <2>5
  <2>6. CASE urbs = 0 /\ busy' = busy \ {tok[a]} /\ errs' = errs
    BY <1>0, <1>c, <1>4, <2>2, <2>6
  <2>7. CASE busy' = busy \ {tok[a]} /\ errs' = errs + 1
    <3>1. Cardinality(busy') = n - 1
      BY <1>1, <1>a, <1>b, <2>7, FS_RemoveElement, ZenonT(60)
    <3> QED
      BY <1>0, <1>c, <2>2, <2>4, <2>7, <3>1
  <2> QED
    BY <1>3, <2>5, <2>6, <2>7 DEF rtw_usb_read_port, Submitted, Refused
<1>6. CASE a = "timer"
  <2>1. pc'["comp"] = pc["comp"] /\ pc'["timer"] = l
    BY <1>0, <1>2, <1>6 DEF PcOK, Actors
  <2>2. Refused(a) /\ urbs = 0 /\ busy' = busy \ {tok[a]} /\ errs' = errs
    <3>1. ~Submitted(a)
      <4>1. CASE Submitted(a)
        <5>1. pc' = [pc EXCEPT !["timer"] = "check"]
          BY <1>6, <4>1 DEF Submitted
        <5>2. pc'["timer"] = "check"
          BY <1>0, <5>1 DEF PcOK, Actors
        <5> QED
          BY <5>2 DEF NoneComing
      <4> QED
        BY <4>1
    <3>2. Refused(a)
      BY <3>1 DEF rtw_usb_read_port
    <3>3. ~gaveup'
      BY DEF NoneComing
    <3>4. (stopped \/ urbs = 0) /\ errs' = errs
      BY <1>6, <3>2, <3>3, ZenonT(60) DEF Refused
    <3> QED
      BY <1>3, <3>2, <3>4 DEF Refused
  <2>3. PICK m \in Nat : m = Cardinality(busy') /\ m >= in_token_num
    BY <1>4, <2>2
  <2>4. Sending' \in {0, 1} /\ Failing' \in {0, 1}
    BY DEF Sending, Failing
  <2>5. Failing' = 1 => errs >= 1
    BY <1>1, <1>3, <2>1 DEF Failing, RunState
  <2>6. m + errs + Sending' >= in_token_num + Failing'
    BY <1>0, <1>c, <2>3, <2>4, <2>5, BusyEnough
  <2> QED
    BY <2>2, <2>3, <2>6
<1> QED
  BY <1>3, <1>5, <1>6 DEF Actors

\* Every step keeps the count of the tokens.
LEMMA TokensCountedStep ==
    ASSUME RxInv, RunState, TokensCounted, [Next]_vars
    PROVE  TokensCounted'
<1>0. /\ PcOK /\ BufsOK /\ CtxOK /\ errs \in Nat /\ Tokens /\ OnePlace
      /\ done \in [buf : Ptrs, ok : BOOLEAN]
  BY TypeParts, UsbRxAssumption DEF RxInv, FlagsOK, CtxOK
<1>a. IsFiniteSet(busy)
  BY <1>0, UsbRxAssumption, FS_Subset DEF BufsOK
<1>b. PICK n \in Nat : n = Cardinality(busy)
  BY <1>a, FS_CardinalityType
<1>c. in_token_num \in Nat
  BY UsbRxAssumption
<1>d. Sending \in {0, 1} /\ Failing \in {0, 1} /\ (~stopped /\ Failing = 1 => errs >= 1)
  BY DEF Sending, Failing, RunState
<1> SUFFICES ASSUME pc'["main"] = "on", NoneComing'
             PROVE  Cardinality(busy') + errs' + Sending' >= in_token_num + Failing'
  BY Zenon DEF TokensCounted, NoneComing, Sending, Failing
<1>e. pc["main"] = "on" /\ NoneComing => n + errs + Sending >= in_token_num + Failing
  BY <1>b, CountedIs
<1> USE DEF bufs, usb, ctx, tasklet, event, pkts, env, vars, Goto
<1>1. ASSUME UNCHANGED <<busy, errs, done>>, pc'["comp"] = pc["comp"],
             pc["main"] = "on", NoneComing
      PROVE  Cardinality(busy') + errs' + Sending' >= in_token_num + Failing'
  BY <1>1, <1>b, <1>e DEF Sending, Failing
<1>2. CASE \/ phl_rx_usb \/ phl_rx_process_usb \/ rtw_core_rx_process
           \/ _phl_rx_callback_usb \/ phl_event_indicator
           \/ \E f \in RecvFrames : rtw_phl_return_rxbuf(f)
  BY <1>1, <1>2, TaskletLemma DEF NoneComing
<1>3. ASSUME NEW a \in Actors, InToken(a)
      PROVE  Cardinality(busy') + errs' + Sending' >= in_token_num + Failing'
  <2>0. pc[a] = "token" /\ UNCHANGED <<errs, stopped, done, gaveup>>
    BY <1>3 DEF InToken
  <2>1. ASSUME NoBuffer(a)
        PROVE  FALSE
    <3>1. timer' = (timer \/ a # "main") /\ pc' = [pc EXCEPT ![a] = Failed(a)]
      BY <2>1, Zenon DEF NoBuffer
    <3>2. a = "main"
      BY <3>1, Zenon DEF NoneComing
    <3>3. Failed(a) = "failed"
      BY <3>2 DEF Failed
    <3> QED
      BY <1>0, <3>1, <3>2, <3>3 DEF PcOK, Actors
  <2>2. ASSUME NEW b \in idle, busy' = busy \cup {b}, pc' = [pc EXCEPT ![a] = "submit"],
               timer' = timer
        PROVE  Cardinality(busy') + errs' + Sending' >= in_token_num + Failing'
    <3>1. a = "comp"
      BY <1>0, <2>2 DEF PcOK, Actors, NoneComing
    <3>2. /\ pc["main"] = "on" /\ pc'["timer"] = pc["timer"]
          /\ pc["comp"] = "token" /\ pc'["comp"] = "submit"
      BY <1>0, <2>0, <2>2, <3>1 DEF PcOK, Actors
    <3>3. NoneComing /\ Sending = 1 /\ Failing = 0 /\ Sending' = 0 /\ Failing' = 0
      BY <2>0, <2>2, <3>2 DEF NoneComing, Sending, Failing
    <3>4. b \notin busy
      BY <1>0 DEF OnePlace, IsIdle, IsBusy, IsPend, IsHeld, BufsOK
    <3>5. Cardinality(busy') = n + 1
      BY <1>a, <1>b, <2>2, <3>4, FS_AddElement, ZenonT(60)
    <3> QED
      BY <1>0, <1>c, <1>e, <2>0, <3>2, <3>3, <3>5
  <2> QED
    BY <1>3, <2>1, <2>2 DEF InToken
<1>4. ASSUME NEW a \in Actors, rtw_usb_read_port(a)
      PROVE  Cardinality(busy') + errs' + Sending' >= in_token_num + Failing'
  BY <1>4, ReadPortCounted
<1>5. ASSUME NEW a \in Actors, _phl_rx_start_usb(a)
      PROVE  Cardinality(busy') + errs' + Sending' >= in_token_num + Failing'
  <2>1. a # "comp" /\ pc[a] = "check" /\ UNCHANGED <<busy, errs, done, timer, stopped>>
    BY <1>5 DEF _phl_rx_start_usb
  <2>2. CASE pc' = [pc EXCEPT ![a] = "token"]
    BY <1>0, <2>1, <2>2 DEF PcOK, Actors, NoneComing
  <2>3. CASE Cardinality(busy) >= in_token_num
             /\ pc' = [pc EXCEPT ![a] = IF a = "timer" THEN "off" ELSE "on"]
    <3>1. pc'["comp"] = pc["comp"]
      BY <1>0, <2>1, <2>3 DEF PcOK, Actors
    <3>2. ~stopped
      BY <2>1 DEF NoneComing
    <3>3. Failing = 1 => errs >= 1
      BY <1>d, <3>2
    <3>4. n + errs + Sending >= in_token_num + Failing
      BY <1>0, <1>b, <1>c, <1>d, <2>3, <3>3, BusyEnough
    <3>5. Sending' = Sending /\ Failing' = Failing
      BY <2>1, <3>1 DEF Sending, Failing
    <3> QED
      BY <1>b, <2>1, <3>4, <3>5
  <2> QED
    BY <1>5, <2>2, <2>3 DEF _phl_rx_start_usb
<1>6. CASE _phl_rx_deferred_in_token
  <2>1. pc' = [pc EXCEPT !["timer"] = "check"]
    BY <1>6 DEF _phl_rx_deferred_in_token
  <2>2. pc'["timer"] = "check"
    BY <1>0, <2>1 DEF PcOK, Actors
  <2> QED
    BY <2>2 DEF NoneComing
<1>7. ASSUME NEW b \in Bufs, NEW ok \in BOOLEAN, rtw_usb_read_port_complete(b, ok)
      PROVE  Cardinality(busy') + errs' + Sending' >= in_token_num + Failing'
  <2>1. /\ pc["comp"] = "off" /\ pc' = [pc EXCEPT !["comp"] = "post"]
        /\ UNCHANGED <<busy, timer, gaveup>> /\ done' = [buf |-> b, ok |-> ok]
    BY <1>7 DEF rtw_usb_read_port_complete
  <2>2. /\ pc'["comp"] = "post" /\ pc'["main"] = pc["main"] /\ pc'["timer"] = pc["timer"]
        /\ pc["main"] = "on"
    BY <1>0, <2>1 DEF PcOK, Actors
  <2>a. ~stopped
    <3>1. ~stopped \/ stopped' = stopped
      BY <1>7, SMT DEF rtw_usb_read_port_complete
    <3> QED
      BY <3>1, Zenon DEF NoneComing
  <2>3. NoneComing /\ Sending = 0 /\ Failing = 0 /\ Sending' = 0
    BY <2>1, <2>2, <2>a DEF NoneComing, Sending, Failing
  <2>4. done'.ok = ok
    BY <2>1
  <2>5. CASE ok
    <3>1. errs' = errs
      BY <1>7, <2>5 DEF rtw_usb_read_port_complete
    <3>2. Failing' = 0
      BY <2>4, <2>5 DEF Failing
    <3> QED
      BY <1>0, <1>b, <1>c, <1>e, <2>1, <2>2, <2>3, <3>1, <3>2
  <2>6. CASE ~ok
    <3>1. errs' = errs + 1
      BY <1>7, <2>a, <2>6 DEF rtw_usb_read_port_complete
    <3>2. Failing' = 1
      BY <2>2, <2>4, <2>6 DEF Failing
    <3> QED
      BY <1>0, <1>b, <1>c, <1>e, <2>1, <2>2, <2>3, <3>1, <3>2
  <2> QED
    BY <2>5, <2>6
<1>8. CASE phl_pend_rxbuf_usb
  <2>1. /\ pc["comp"] = "post" /\ busy' = busy \ {done.buf} /\ done.buf \in busy
        /\ UNCHANGED <<errs, stopped, timer, gaveup>>
    BY <1>0, <1>8 DEF phl_pend_rxbuf_usb, Tokens
  <2>2. Cardinality(busy') = n - 1
    BY <1>a, <1>b, <2>1, FS_RemoveElement, ZenonT(60)
  <2>3. ASSUME NEW l \in {"token", "free"}, pc' = [pc EXCEPT !["comp"] = l]
        PROVE  /\ pc["main"] = "on" /\ NoneComing /\ pc'["comp"] = l
               /\ n + errs + 0 >= in_token_num + Failing
    <3>1. pc["main"] = "on" /\ pc'["timer"] = pc["timer"] /\ pc'["comp"] = l
      BY <1>0, <2>3 DEF PcOK, Actors
    <3>2. NoneComing /\ Sending = 0
      BY <2>1, <3>1 DEF NoneComing, Sending
    <3> QED
      BY <1>e, <3>1, <3>2
  <2>4. CASE done.ok /\ pc' = [pc EXCEPT !["comp"] = "token"]
    <3>1. Failing = 0 /\ Sending' = 1 /\ Failing' = 0
      BY <2>3, <2>4 DEF Failing, Sending
    <3> QED
      BY <1>0, <1>c, <2>1, <2>2, <2>3, <2>4, <3>1
  <2>5. CASE ~done.ok /\ pc' = [pc EXCEPT !["comp"] = "free"]
    <3>1. Failing = 1 /\ Sending' = 0 /\ Failing' = 0
      BY <2>1, <2>3, <2>5 DEF Failing, Sending
    <3> QED
      BY <1>0, <1>c, <2>1, <2>2, <2>3, <2>5, <3>1
  <2> QED
    BY <1>8, <2>4, <2>5 DEF phl_pend_rxbuf_usb
<1>9. CASE rtw_phl_start_rx_process \/ rtw_free_dataurb
  <2>1. /\ pc["comp"] \in {"sched", "free"} /\ UNCHANGED <<busy, errs, stopped, timer, gaveup>>
        /\ \E l \in {"free", "off"} : pc' = [pc EXCEPT !["comp"] = l]
    BY <1>9 DEF rtw_phl_start_rx_process, rtw_free_dataurb
  <2>2. /\ pc["main"] = "on" /\ pc'["timer"] = pc["timer"]
        /\ pc'["comp"] \notin {"post", "token"} /\ pc["comp"] \notin {"post", "token"}
    BY <1>0, <2>1 DEF PcOK, Actors
  <2>3. NoneComing /\ Sending = 0 /\ Failing = 0 /\ Sending' = 0 /\ Failing' = 0
    BY <2>1, <2>2 DEF NoneComing, Sending, Failing
  <2> QED
    BY <1>b, <1>e, <2>1, <2>2, <2>3
<1>10. CASE phl_trx_cfg_usb \/ dev_set_drv_stopped \/ _phl_rx_stop_usb
            \/ rtw_usb_read_port_cancel
  <2>1. \E l \in {"check", "stop", "kill", "off"} : pc' = [pc EXCEPT !["main"] = l]
    BY <1>10 DEF phl_trx_cfg_usb, dev_set_drv_stopped, _phl_rx_stop_usb,
           rtw_usb_read_port_cancel
  <2> QED
    BY <1>0, <2>1 DEF PcOK, Actors
<1>12. CASE dev_set_surprise_removed
  <2>1. stopped' = TRUE
    BY <1>12, Zenon DEF dev_set_surprise_removed
  <2> QED
    BY <2>1, Zenon DEF NoneComing
<1>11. CASE UNCHANGED vars
  BY <1>1, <1>11 DEF NoneComing
<1> QED
  BY <1>12, <1>2, <1>3, <1>4, <1>5, <1>6, <1>7, <1>8, <1>9, <1>10, <1>11 DEF Next

\* While the data path runs, and until the driver marks itself stopped (a fatal error
\* of a transfer or of a register access, a removed device), a request is missing at
\* the device only for a failed transfer or submission, or while the deferred timer is
\* going to add it, or after the timer's own submission failed; for any number of
\* tokens, buffers and URBs.
THEOREM TokensNeverLost == Spec => []TokensKept
<1> DEFINE Inv == RxInv /\ RunState /\ TokensCounted
<1>1. Init => Inv
  <2> SUFFICES ASSUME Init
               PROVE  Inv
    OBVIOUS
  <2>1. RxInv
    BY RxInit
  <2>2. pc["main"] = "off" /\ pc["comp"] = "off"
    BY DEF Init, Actors
  <2>3. RunState
    BY <2>2 DEF RunState
  <2>4. TokensCounted
    BY <2>2 DEF TokensCounted
  <2> QED
    BY <2>1, <2>3, <2>4
<1>2. Inv /\ [Next]_vars => Inv'
  <2> SUFFICES ASSUME Inv, [Next]_vars
               PROVE  Inv'
    OBVIOUS
  <2>1. TypeOK /\ Tokens
    BY DEF RxInv
  <2> QED
    BY <2>1, RxStep, RunStep, TokensCountedStep
<1>3. Inv => TokensKept
  <2> SUFFICES ASSUME RxInv, TokensCounted, pc["main"] = "on", NoneComing
               PROVE  Cardinality(busy) + errs + Sending >= in_token_num
    BY Zenon DEF TokensKept, NoneComing, Sending
  <2>1. Cardinality(busy) + errs + Sending >= in_token_num + Failing
    BY CountedIs
  <2>2. IsFiniteSet(busy)
    BY UsbRxAssumption, FS_Subset DEF RxInv, TypeOK
  <2>3. PICK n \in Nat : n = Cardinality(busy)
    BY <2>2, FS_CardinalityType
  <2>4. errs \in Nat /\ in_token_num \in Nat /\ Sending \in {0, 1} /\ Failing \in {0, 1}
    BY UsbRxAssumption DEF RxInv, TypeOK, Sending, Failing
  <2> QED
    BY <2>1, <2>3, <2>4
<1> QED
  BY <1>1, <1>2, <1>3, PTL DEF Spec

\* A pending transfer is left behind only by a run of the RX tasklet that found the
\* ring full.
THEOREM PendServed == Spec => []RxServesPend
<1> DEFINE Inv == PcOK /\ RxServesPend
<1> USE DEF bufs, usb, ctx, tasklet, event, pkts, env, vars, Goto
<1>1. Init => Inv
  BY DEF Init, PcOK, Actors, Labels, RxServesPend, Stranded
<1>2. ASSUME Inv, [Next]_vars
      PROVE  RxServesPend'
  <2>0. PcOK /\ RxServesPend
    BY <1>2
  <2>1. ASSUME UNCHANGED <<pend, rx_sched, rx, full>>,
               pc["comp"] \in {"token", "submit", "sched"} =>
                  pc'["comp"] \in {"token", "submit", "sched"}
        PROVE  RxServesPend'
    BY <2>0, <2>1 DEF RxServesPend, Stranded
  <2>2. CASE \E a \in Actors : InToken(a) \/ rtw_usb_read_port(a) \/ _phl_rx_start_usb(a)
    <3>1. PICK a \in Actors : InToken(a) \/ rtw_usb_read_port(a) \/ _phl_rx_start_usb(a)
      BY <2>2
    <3>2. UNCHANGED <<pend, rx_sched, rx, full>>
      BY <3>1 DEF InToken, rtw_usb_read_port, _phl_rx_start_usb
    <3>3. CASE a = "comp"
      <4>1. Failed("comp") = "sched"
        BY DEF Failed
      <4>2. pc' = [pc EXCEPT !["comp"] = "sched"] \/ pc' = [pc EXCEPT !["comp"] = "submit"]
        BY <3>1, <3>3, <4>1 DEF InToken, NoBuffer, rtw_usb_read_port, Submitted, Refused,
               _phl_rx_start_usb
      <4> QED
        BY <2>0, <2>1, <3>2, <4>2 DEF PcOK, Actors
    <3>4. CASE a # "comp"
      <4>1. \E l : pc' = [pc EXCEPT ![a] = l]
        BY <3>1 DEF InToken, NoBuffer, rtw_usb_read_port, Submitted, Refused,
               _phl_rx_start_usb
      <4>2. pc'["comp"] = pc["comp"]
        BY <2>0, <3>4, <4>1 DEF PcOK, Actors
      <4> QED
        BY <2>1, <3>2, <4>2
    <3> QED
      BY <3>3, <3>4
  <2>3. CASE \E b \in Bufs, ok \in BOOLEAN : rtw_usb_read_port_complete(b, ok)
    <3>1. pc["comp"] = "off" /\ UNCHANGED <<pend, rx_sched, rx, full>>
      BY <2>3 DEF rtw_usb_read_port_complete
    <3> QED
      BY <2>1, <3>1
  <2>4. CASE phl_pend_rxbuf_usb
    <3>1. CASE pc' = [pc EXCEPT !["comp"] = "token"]
      <4>1. pc'["comp"] = "token"
        BY <2>0, <3>1 DEF PcOK, Actors
      <4> QED
        BY <4>1 DEF RxServesPend, Stranded
    <3>2. CASE UNCHANGED pend
      <4>1. pc["comp"] = "post" /\ UNCHANGED <<rx_sched, rx, full>>
        BY <2>4 DEF phl_pend_rxbuf_usb
      <4> QED
        BY <2>1, <3>2, <4>1
    <3> QED
      BY <2>4, <3>1, <3>2 DEF phl_pend_rxbuf_usb
  <2>5. CASE rtw_phl_start_rx_process
    <3>1. rx_sched' = TRUE
      BY <2>5 DEF rtw_phl_start_rx_process
    <3> QED
      BY <3>1, Zenon DEF RxServesPend, Stranded
  <2>6. CASE rtw_free_dataurb
    <3>1. pc["comp"] = "free" /\ UNCHANGED <<pend, rx_sched, rx, full>>
      BY <2>6 DEF rtw_free_dataurb
    <3> QED
      BY <2>1, <3>1
  <2>7. CASE _phl_rx_callback_usb
    <3>1. rx' = ~full'
      BY <2>7, Zenon DEF _phl_rx_callback_usb
    <3> QED
      BY <3>1, Zenon DEF RxServesPend, Stranded
  <2>8. CASE phl_rx_usb
    <3>1. CASE pend = <<>> /\ UNCHANGED bufs
      BY <3>1 DEF RxServesPend, Stranded
    <3>2. CASE rx' = rx
      <4>1. rx
        BY <2>8 DEF phl_rx_usb
      <4> QED
        BY <3>2, <4>1, Zenon DEF RxServesPend, Stranded
    <3> QED
      BY <2>8, <3>1, <3>2, ZenonT(60) DEF phl_rx_usb
  <2>9. CASE \/ phl_rx_process_usb \/ phl_event_indicator \/ rtw_core_rx_process
             \/ \E f \in RecvFrames : rtw_phl_return_rxbuf(f)
    <3>1. UNCHANGED <<pend, rx_sched, rx, full, pc>>
      BY <2>9 DEF phl_rx_process_usb, phl_event_indicator, rtw_core_rx_process,
             rtw_phl_return_rxbuf
    <3> QED
      BY <2>1, <3>1
  <2>10. CASE \/ _phl_rx_deferred_in_token \/ phl_trx_cfg_usb \/ dev_set_drv_stopped
              \/ _phl_rx_stop_usb \/ rtw_usb_read_port_cancel
    <3>1. /\ UNCHANGED <<pend, rx_sched, rx, full>>
          /\ \E a \in {"timer", "main"}, l \in Labels : pc' = [pc EXCEPT ![a] = l]
      BY <2>10 DEF _phl_rx_deferred_in_token, phl_trx_cfg_usb, dev_set_drv_stopped,
             _phl_rx_stop_usb, rtw_usb_read_port_cancel, Labels
    <3>2. pc'["comp"] = pc["comp"]
      BY <2>0, <3>1 DEF PcOK, Actors
    <3> QED
      BY <2>1, <3>1, <3>2
  <2>11. CASE dev_set_surprise_removed \/ UNCHANGED vars
    BY <2>1, <2>11 DEF dev_set_surprise_removed
  <2> QED
    BY <1>2, <2>2, <2>3, <2>4, <2>5, <2>6, <2>7, <2>8, <2>9, <2>10, <2>11 DEF Next
<1>3. Inv /\ [Next]_vars => Inv'
  BY <1>2, PcTypeKept
<1>4. Inv => RxServesPend
  OBVIOUS
<1> QED
  BY <1>1, <1>3, <1>4, PTL DEF Spec

=============================================================================
