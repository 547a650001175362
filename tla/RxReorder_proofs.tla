------------------------- MODULE RxReorder_proofs -------------------------
(***************************************************************************)
(* Freeing a station's reordering: once phl_free_rx_reorder has cancelled   *)
(* the reorder timer, nothing arms it again but a session opened since the  *)
(* mark, for any number of TIDs, packets and sequence numbers.              *)
(***************************************************************************)
EXTENDS RxReorder, TLAPS

\* What a session must be for its mark to be kept: a record with that field.
Marked(r) == "removed" \in DOMAIN r

\* The strengthening: from FreeMark on every session is marked, until a new one is
\* opened; this keeps a tasklet that finds frames stored from arming the timer after
\* the cancel.
FreeInv ==
    /\ DOMAIN tid_rx = Tids
    /\ \A t \in Tids : tid_rx[t] # NULL => Marked(tid_rx[t])
    /\ freeing # "no" /\ ~reopened => \A t \in Tids : tid_rx[t] # NULL => tid_rx[t].removed
    /\ TimerOffUnlessReopened

-----------------------------------------------------------------------------
\* Releasing frames (phl_release_reorder_frame) leaves the mark of the session alone.
LEMMA ReleaseKeepsMark ==
    ASSUME NEW r, Marked(r), NEW ks, NEW h
    PROVE  /\ Marked(Release(r, ks, h).r)
           /\ Release(r, ks, h).r.removed = r.removed
<1> DEFINE nb == [i \in Slots |-> IF \E k \in ks : i = reorder_index(r, r.head + k)
                                  THEN NULL ELSE r.buf[i]]
           s == [r EXCEPT !.buf = nb, !.stored = @ - Cardinality(ks),
                          !.head = h % SEQ_MODULO]
<1>1. Release(r, ks, h).r = s
  BY DEF Release
<1>2. "removed" \in DOMAIN s /\ s.removed = r.removed
  <2> HIDE DEF nb
  <2> QED BY DEF Marked
<1> QED BY <1>1, <1>2 DEF Marked

\* The two ways to release (by timeout or run, and up to a new head) go through it.
LEMMA BothKeepMark ==
    ASSUME NEW r, Marked(r)
    PROVE  /\ Marked(phl_reorder_release(r).r)
           /\ phl_reorder_release(r).r.removed = r.removed
           /\ \A h : /\ Marked(phl_release_reorder_frames(r, h).r)
                     /\ phl_release_reorder_frames(r, h).r.removed = r.removed
<1>1. \A ks, h : Marked(Release(r, ks, h).r) /\ Release(r, ks, h).r.removed = r.removed
  BY ReleaseKeepsMark
<1>2. \E ks, h : phl_reorder_release(r) = Release(r, ks, h)
  BY DEF phl_reorder_release
<1>3. \A h : \E ks : phl_release_reorder_frames(r, h) = Release(r, ks, h)
  BY DEF phl_release_reorder_frames
<1> QED BY <1>1, <1>2, <1>3

\* A frame in the window (phl_manage_sta_reorder_buf) leaves the mark alone, and arms
\* the timer only for a session that is not marked.
LEMMA WindowKeepsMark ==
    ASSUME NEW r0, Marked(r0), NEW p, NEW t \in Tids, NEW n, DOMAIN tid_rx = Tids,
           manage_window(r0, p, t, n)
    PROVE  /\ DOMAIN tid_rx' = Tids
           /\ \A u \in Tids \ {t} : tid_rx'[u] = tid_rx[u]
           /\ Marked(tid_rx'[t]) /\ tid_rx'[t].removed = r0.removed
           /\ r0.removed /\ ~timer => ~timer'
<1> DEFINE r1 == [r0 EXCEPT !.started = TRUE]
           room == MakeRoom(r1, n)
           r == room.r
           i == reorder_index(r, n)
           r2 == [r EXCEPT !.buf[i] = p, !.stored = @ + 1]
           put == phl_reorder_release(r2)
<1>1. Marked(r1) /\ r1.removed = r0.removed
  BY DEF Marked
<1>2. Marked(r) /\ r.removed = r0.removed
  <2> HIDE DEF r1
  <2>1. CASE seq_less(n, r1.head + BufSize)
    BY <1>1, <2>1 DEF MakeRoom
  <2>2. CASE ~seq_less(n, r1.head + BufSize)
    <3>1. room = phl_release_reorder_frames(r1, n - BufSize + 1)
      BY <2>2 DEF MakeRoom
    <3> QED BY <1>1, <3>1, BothKeepMark
  <2> QED BY <2>1, <2>2
<1>3. Marked(r2) /\ r2.removed = r0.removed
  <2> HIDE DEF room, i
  <2> QED BY <1>2 DEF Marked
<1>4. Marked(put.r) /\ put.r.removed = r0.removed
  <2> HIDE DEF r2
  <2> QED BY <1>3, BothKeepMark
<1>5. \/ tid_rx' = [tid_rx EXCEPT ![t] = r] /\ timer' = timer
      \/ /\ tid_rx' = [tid_rx EXCEPT ![t] = [r EXCEPT !.head = (@ + 1) % SEQ_MODULO]]
         /\ timer' = timer
      \/ tid_rx' = [tid_rx EXCEPT ![t] = put.r] /\ timer' = ReleaseTimer(put.r)
  BY DEF manage_window
<1> HIDE DEF r, put
<1>6. CASE tid_rx' = [tid_rx EXCEPT ![t] = r] /\ timer' = timer
  BY <1>2, <1>6
<1>7. CASE /\ tid_rx' = [tid_rx EXCEPT ![t] = [r EXCEPT !.head = (@ + 1) % SEQ_MODULO]]
           /\ timer' = timer
  <2> DEFINE r3 == [r EXCEPT !.head = (@ + 1) % SEQ_MODULO]
  <2>1. Marked(r3) /\ r3.removed = r0.removed
    BY <1>2 DEF Marked
  <2>2. tid_rx' = [tid_rx EXCEPT ![t] = r3]
    BY <1>7
  <2> HIDE DEF r3
  <2> QED BY <1>7, <2>1, <2>2
<1>8. CASE tid_rx' = [tid_rx EXCEPT ![t] = put.r] /\ timer' = ReleaseTimer(put.r)
  <2>1. r0.removed /\ ~timer => ~timer'
    BY <1>4, <1>8, Zenon DEF ReleaseTimer
  <2> QED BY <1>4, <1>8, <2>1
<1> QED BY <1>5, <1>6, <1>7, <1>8

-----------------------------------------------------------------------------
\* A step of the tasklet for one frame keeps the strengthening.
LEMMA ReorderKeeps ==
    ASSUME FreeInv, NEW p, NEW t \in Tids, NEW n, phl_rx_reorder(p, t, n)
    PROVE  FreeInv'
<1>1. freeing' = freeing /\ visit' = visit /\ reopened' = reopened
  BY DEF phl_rx_reorder
<1>2. CASE tid_rx' = tid_rx /\ timer' = timer
  BY <1>1, <1>2, Zenon DEF FreeInv, TimerOffUnlessReopened, NoTimerAfterCancel
<1>3. CASE tid_rx[t] # NULL /\ manage_window(tid_rx[t], p, t, n)
  <2>1. /\ DOMAIN tid_rx' = Tids
        /\ \A u \in Tids \ {t} : tid_rx'[u] = tid_rx[u]
        /\ Marked(tid_rx'[t]) /\ tid_rx'[t].removed = tid_rx[t].removed
        /\ tid_rx[t].removed /\ ~timer => ~timer'
    BY <1>3, WindowKeepsMark DEF FreeInv
  <2>2. freeing \in {"cancelled", "freed"} /\ ~reopened => tid_rx[t].removed
    BY <1>3 DEF FreeInv
  <2>3. TimerOffUnlessReopened'
    BY <1>1, <2>1, <2>2, Zenon DEF FreeInv, TimerOffUnlessReopened, NoTimerAfterCancel
  <2> QED BY <1>1, <1>3, <2>1, <2>3 DEF FreeInv
<1>4. \/ tid_rx' = tid_rx /\ timer' = timer
      \/ tid_rx[t] # NULL /\ manage_window(tid_rx[t], p, t, n)
  BY DEF phl_rx_reorder, manage_not_started, manage_old
<1> QED BY <1>2, <1>3, <1>4

\* So does a turn of the timer's callback, which runs only before the cancel or with a
\* session opened since the mark.
LEMMA ExpiredKeeps ==
    ASSUME FreeInv, phl_sta_rx_reorder_timer_expired
    PROVE  FreeInv'
<1>1. /\ freeing' = freeing /\ reopened' = reopened
      /\ freeing \notin {"cancelled", "freed"} \/ reopened
  BY Zenon DEF phl_sta_rx_reorder_timer_expired, FreeInv, TimerOffUnlessReopened,
               NoTimerAfterCancel
<1>2. CASE tid_rx' = tid_rx
  BY <1>1, <1>2 DEF FreeInv, TimerOffUnlessReopened, NoTimerAfterCancel
<1>3. CASE /\ tid_rx[visit] # NULL
           /\ tid_rx' = [tid_rx EXCEPT ![visit] = phl_reorder_release(tid_rx[visit]).r]
  <2>1. CASE visit \in Tids
    <3>1. /\ Marked(phl_reorder_release(tid_rx[visit]).r)
          /\ phl_reorder_release(tid_rx[visit]).r.removed = tid_rx[visit].removed
      BY <1>3, <2>1, BothKeepMark DEF FreeInv
    <3> QED BY <1>1, <1>3, <2>1, <3>1 DEF FreeInv, TimerOffUnlessReopened, NoTimerAfterCancel
  <2>2. CASE visit \notin Tids
    <3>1. DOMAIN tid_rx' = Tids /\ \A t \in Tids : tid_rx'[t] = tid_rx[t]
      BY <1>3, <2>2 DEF FreeInv
    <3> QED BY <1>1, <3>1 DEF FreeInv, TimerOffUnlessReopened, NoTimerAfterCancel
  <2> QED BY <2>1, <2>2
<1>4. \/ tid_rx' = tid_rx
      \/ /\ tid_rx[visit] # NULL
         /\ tid_rx' = [tid_rx EXCEPT ![visit] = phl_reorder_release(tid_rx[visit]).r]
  BY DEF phl_sta_rx_reorder_timer_expired
<1> QED BY <1>2, <1>3, <1>4

\* Opening, closing and moving the window of a session, and the three steps of
\* phl_free_rx_reorder, keep it.
LEMMA SessionsKeep ==
    ASSUME FreeInv,
           \/ \E t \in Tids, n \in FirstN - BufSize .. MaxN : rtw_phl_rx_bar(t, n)
           \/ \E t \in Tids, n \in FirstN - BufSize .. MaxN :
                 rtw_phl_start_rx_ba_session(t, n)
           \/ \E t \in Tids : rtw_phl_stop_rx_ba_session(t)
           \/ FreeMark \/ FreeCancel \/ FreeFree
    PROVE  FreeInv'
<1>1. ASSUME NEW t \in Tids, NEW n, rtw_phl_rx_bar(t, n) PROVE FreeInv'
  <2> DEFINE r == phl_release_reorder_frames(tid_rx[t], n).r
  <2>1. /\ tid_rx[t] # NULL /\ tid_rx' = [tid_rx EXCEPT ![t] = r]
        /\ freeing' = freeing /\ timer' = timer /\ visit' = visit /\ reopened' = reopened
    BY <1>1 DEF rtw_phl_rx_bar
  <2>2. Marked(r) /\ r.removed = tid_rx[t].removed
    BY <2>1, BothKeepMark DEF FreeInv
  <2>3. TimerOffUnlessReopened'
    BY <2>1, Zenon DEF FreeInv, TimerOffUnlessReopened, NoTimerAfterCancel
  <2> HIDE DEF r
  <2> QED BY <2>1, <2>2, <2>3 DEF FreeInv
<1>2. ASSUME NEW t \in Tids, NEW n, rtw_phl_start_rx_ba_session(t, n) PROVE FreeInv'
  <2>1. Marked(phl_tid_ampdu_rx_alloc(n))
    BY DEF Marked, phl_tid_ampdu_rx_alloc
  <2>2. /\ tid_rx' = [tid_rx EXCEPT ![t] = phl_tid_ampdu_rx_alloc(n)]
        /\ UNCHANGED <<freeing, timer, visit>>
        /\ reopened' = (reopened \/ freeing # "no")
    BY <1>2 DEF rtw_phl_start_rx_ba_session
  <2> QED BY <2>1, <2>2 DEF FreeInv, TimerOffUnlessReopened, NoTimerAfterCancel
<1>3. ASSUME NEW t \in Tids, rtw_phl_stop_rx_ba_session(t) PROVE FreeInv'
  BY <1>3 DEF FreeInv, TimerOffUnlessReopened, NoTimerAfterCancel, rtw_phl_stop_rx_ba_session
<1>4. CASE FreeMark
  <2>1. ASSUME NEW t \in Tids, tid_rx[t] # NULL
        PROVE  Marked(tid_rx'[t]) /\ tid_rx'[t].removed
    <3>1. tid_rx'[t] = [tid_rx[t] EXCEPT !.removed = TRUE] /\ Marked(tid_rx[t])
      BY <1>4, <2>1 DEF FreeMark, FreeInv
    <3> QED BY <3>1 DEF Marked
  <2>2. \A t \in Tids : tid_rx'[t] # NULL => tid_rx[t] # NULL
    BY <1>4 DEF FreeMark
  <2>3. DOMAIN tid_rx' = Tids /\ freeing' = "marked"
    BY <1>4 DEF FreeMark
  <2> QED BY <2>1, <2>2, <2>3 DEF FreeInv, TimerOffUnlessReopened, NoTimerAfterCancel
<1>5. CASE FreeCancel
  BY <1>5 DEF FreeCancel, FreeInv, TimerOffUnlessReopened, NoTimerAfterCancel
<1>6. CASE FreeFree
  <2>1. /\ tid_rx' = [t \in Tids |-> NULL] /\ timer' = timer /\ visit' = visit
        /\ freeing = "cancelled" /\ reopened' = reopened
    BY <1>6 DEF FreeFree
  <2>2. TimerOffUnlessReopened'
    BY <2>1, Zenon DEF FreeInv, TimerOffUnlessReopened, NoTimerAfterCancel
  <2> QED BY <2>1, <2>2 DEF FreeInv
<1> QED BY <1>1, <1>2, <1>3, <1>4, <1>5, <1>6

-----------------------------------------------------------------------------
\* Once phl_free_rx_reorder has cancelled the reorder timer (del_timer_sync) it stays
\* off and its callback does not run again, unless a session is opened after the mark:
\* no tasklet, BlockAckReq or session of any TID that the mark has reached re-arms it,
\* so that rtw_phl_start_rx_ba_session is the only way around the mark.
THEOREM TimerStaysOff == Spec => []TimerOffUnlessReopened
<1>1. Init => FreeInv
  BY DEF Init, FreeInv, TimerOffUnlessReopened, NoTimerAfterCancel
<1>2. FreeInv /\ [Next]_vars => FreeInv'
  <2> SUFFICES ASSUME FreeInv, [Next]_vars PROVE FreeInv'
    OBVIOUS
  <2>1. ASSUME tid_rx' = tid_rx, timer' = timer, visit' = visit, freeing' = freeing, reopened' = reopened
        PROVE  FreeInv'
    BY <2>1, Zenon DEF FreeInv, TimerOffUnlessReopened, NoTimerAfterCancel
  <2>2. CASE \E p \in Pkts, t \in Tids, n \in FirstN - BufSize .. MaxN :
                phl_rx_reorder(p, t, n)
    BY <2>2, ReorderKeeps
  <2>3. CASE \E a \in Actors : phl_handle_rx_frame_list(a)
    BY <2>1, <2>3 DEF phl_handle_rx_frame_list
  <2>4. CASE rtw_phl_return_rxbuf
    BY <2>1, <2>4 DEF rtw_phl_return_rxbuf
  <2>5. CASE Age
    BY <2>1, <2>5 DEF Age
  <2>6. CASE TimerFire
    BY <2>6, Zenon DEF TimerFire, FreeInv, TimerOffUnlessReopened, NoTimerAfterCancel
  <2>7. CASE phl_sta_rx_reorder_timer_expired
    BY <2>7, ExpiredKeeps
  <2>8. CASE \/ \E t \in Tids, n \in FirstN - BufSize .. MaxN : rtw_phl_rx_bar(t, n)
             \/ \E t \in Tids, n \in FirstN - BufSize .. MaxN :
                   rtw_phl_start_rx_ba_session(t, n)
             \/ \E t \in Tids : rtw_phl_stop_rx_ba_session(t)
             \/ FreeMark \/ FreeCancel \/ FreeFree
    BY <2>8, SessionsKeep
  <2>9. CASE UNCHANGED vars
    BY <2>1, <2>9 DEF vars
  <2> QED BY <2>2, <2>3, <2>4, <2>5, <2>6, <2>7, <2>8, <2>9, Zenon DEF Next
<1>3. FreeInv => TimerOffUnlessReopened
  BY DEF FreeInv
<1> QED BY <1>1, <1>2, <1>3, PTL DEF Spec
=============================================================================
