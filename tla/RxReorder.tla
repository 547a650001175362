----------------------------- MODULE RxReorder -----------------------------
(***************************************************************************)
(* Reordering of received A-MPDU frames for one station: the per-TID       *)
(* reordering buffer (phl/phl_rx.c), the block-ack sessions that create    *)
(* and free it (phl/phl_rx_agg.c), the one reorder timer the TIDs of the   *)
(* station share, and the ring through which frames reach the core.        *)
(*                                                                         *)
(* Four contexts run concurrently: the RX tasklet ("rx"), the timer        *)
(* callback ("timer"), the core handling a BlockAckReq ("bar") and the     *)
(* core thread that opens sessions and frees the station.  Everything      *)
(* under tid_rx_lock is one step.  The lists of released frames are moved  *)
(* to the ring packet by packet: after the unlock by "rx" and "timer",     *)
(* with the lock still held by "bar".                                      *)
(*                                                                         *)
(* A frame carries an absolute number n; the code sees n % SEQ_MODULO.     *)
(* The clock is the set "due" of the stored packets whose reorder_time is  *)
(* HT_RX_REORDER_BUF_TIMEOUT_MS in the past.                               *)
(***************************************************************************)
EXTENDS Integers, Sequences, FiniteSets, SequencesExt, FiniteSetsExt

CONSTANTS
    NULL,        \* no packet, no session
    NTids,       \* ARRAY_SIZE(sta->tid_rx)
    SEQ_MODULO,  \* size of the sequence number space
    BufSize,     \* buf_size of a session
    Pkts,        \* packets of the phl_rx pool
    RingRoom,    \* packets the phl_rx ring holds (MAX_PHL_RING_ENTRY_NUM - 1)
    FirstN,      \* number of the first frame the peer sends
    MaxN,        \* bound: the last number the peer sends
    MaxSkip,     \* bound: how far the peer jumps ahead of its last frame
    MaxStarts,   \* bound: sessions opened
    MaxBars      \* bound: BlockAckReq frames handled

ASSUME ReorderAssumption ==
    /\ NTids \in Nat \ {0}
    /\ IsFiniteSet(Pkts) /\ NULL \notin Pkts
    /\ RingRoom \in Nat \ {0}
    /\ BufSize \in Nat \ {0, 1}
    /\ SEQ_MODULO % BufSize = 0 /\ 2 * BufSize < SEQ_MODULO
    /\ MaxSkip + BufSize - 1 <= SEQ_MODULO \div 2
    /\ FirstN >= BufSize

Tids == 0 .. NTids - 1
Slots == 0 .. BufSize - 1
Actors == {"rx", "timer", "bar"}

VARIABLES
    tid_rx,   \* sta->tid_rx: the session of a TID, or NULL
    mpdu,     \* what a packet carries: [tid, n], or NULL when it is idle
    pool,     \* idle packets of rx_pkt_pool
    due,      \* stored packets whose reorder_time has timed out
    timer,    \* sta->reorder_timer is pending
    visit,    \* TID the timer callback handles next; NTids: not running
    frames,   \* the local list of released frames of each context
    ring,     \* phl_rx_ring
    freeing,  \* progress of phl_free_rx_reorder
    starts, bars,
    top,      \* history: highest number the peer has used on a TID
    last,     \* history: number released last by the session of a TID
    reopened  \* history: a session was opened after FreeMark

vars == <<tid_rx, mpdu, pool, due, timer, visit, frames, ring, freeing,
          starts, bars, top, last, reopened>>

Session == [ssn : 0 .. SEQ_MODULO - 1, head : 0 .. SEQ_MODULO - 1,
            started : BOOLEAN, removed : BOOLEAN,
            buf : [Slots -> Pkts \cup {NULL}], stored : 0 .. BufSize]

-----------------------------------------------------------------------------
(* Sequence numbers. *)

seq_less(a, b) == (a - b) % SEQ_MODULO > SEQ_MODULO \div 2

reorder_index(r, sq) == ((sq - r.ssn) % SEQ_MODULO) % BufSize

At(r, k) == r.buf[reorder_index(r, r.head + k)]

Ready(r) == {k \in Slots : At(r, k) # NULL}

(* Mutant: the new head is not masked to the sequence number space.         *)
Release_NoMask(r, ks, head) ==
    [r |-> [r EXCEPT !.buf = [i \in Slots |->
                IF \E k \in ks : i = reorder_index(r, r.head + k)
                THEN NULL ELSE @[i]],
                     !.stored = @ - Cardinality(ks),
                     !.head = head],
     out |-> [i \in 1 .. Cardinality(ks) |->
                At(r, SetToSortSeq(ks, LAMBDA a, b : a < b)[i])]]

(* phl_release_reorder_frame for the slots at the given distances from the  *)
(* head; the head moves to the given number.                                *)
Release(r, ks, head) ==
    [r |-> [r EXCEPT !.buf = [i \in Slots |->
                IF \E k \in ks : i = reorder_index(r, r.head + k)
                THEN NULL ELSE @[i]],
                     !.stored = @ - Cardinality(ks),
                     !.head = head % SEQ_MODULO],
     out |-> [i \in 1 .. Cardinality(ks) |->
                At(r, SetToSortSeq(ks, LAMBDA a, b : a < b)[i])]]

(* Mutant: a frame behind a gap is never given up for.                      *)
phl_reorder_release_NoTimeout(r) ==
    LET ks == {k \in Slots : 0 .. k \subseteq Ready(r)}
    IN  Release(r, ks, r.head + Cardinality(ks))

(* phl_reorder_release: with the head missing, a ready frame behind a gap   *)
(* goes only when it is due, and the ones that follow it directly go with   *)
(* it; otherwise the run that starts at the head goes.                      *)
phl_reorder_release(r) ==
    LET gap == At(r, 0) = NULL /\ r.stored > 0
        held == {k \in Ready(r) : k - 1 \notin Ready(r) /\ At(r, k) \notin due}
        ks == IF gap THEN {k \in Ready(r) : \A h \in held : k < h}
              ELSE {k \in Slots : 0 .. k \subseteq Ready(r)}
    IN  Release(r, ks, IF ks = {} THEN r.head ELSE r.head + Max(ks) + 1)

(* Mutant: the timer is re-armed for a removed session too.                 *)
ReleaseTimer_Removed(r) == r.stored > 0

(* Its last part: re-arm the timer while something is stored, else cancel.  *)
ReleaseTimer(r) == IF r.stored = 0 THEN FALSE ELSE timer \/ ~r.removed

(* Mutant: off by one, the last frame before the new head stays.            *)
phl_release_reorder_frames_Short(r, head) ==
    LET d == (head - r.head) % SEQ_MODULO
    IN  Release(r, IF seq_less(r.head, head) THEN {k \in Ready(r) : k < d - 1}
                   ELSE {}, head)

phl_release_reorder_frames(r, head) ==
    LET d == (head - r.head) % SEQ_MODULO
    IN  Release(r, IF seq_less(r.head, head) THEN {k \in Ready(r) : k < d} ELSE {},
                head)

-----------------------------------------------------------------------------
Init ==
    /\ tid_rx = [t \in Tids |-> NULL]
    /\ mpdu = [p \in Pkts |-> NULL]
    /\ pool = Pkts
    /\ due = {}
    /\ timer = FALSE
    /\ visit = NTids
    /\ frames = [a \in Actors |-> <<>>]
    /\ ring = <<>>
    /\ freeing = "no"
    /\ starts = 0
    /\ bars = 0
    /\ top = [t \in Tids |-> FirstN - 1]
    /\ last = [t \in Tids |-> FirstN - 1]
    /\ reopened = FALSE

TidLockFree == frames["bar"] = <<>>

(* phl_recycle_rx_buf: the packets of ps go back to the pool. *)
recycle(ps) ==
    /\ pool' = pool \cup ps
    /\ mpdu' = [p \in Pkts |-> IF p \in ps THEN NULL ELSE mpdu[p]]
    /\ due' = due \ ps

Released(t, out) ==
    last' = IF out = <<>> THEN last ELSE [last EXCEPT ![t] = mpdu'[Last(out)].n]

-----------------------------------------------------------------------------
(* RX tasklet: phl_rx_reorder for one frame.                                *)

Take(p, t, n) ==
    /\ pool' = pool \ {p}
    /\ mpdu' = [mpdu EXCEPT ![p] = [tid |-> t, n |-> n]]
    /\ UNCHANGED due

(* The frame is handed on behind what was released: "dont_reorder".         *)
DontReorder(p, t, n, out) ==
    /\ Take(p, t, n)
    /\ frames' = [frames EXCEPT !["rx"] = Append(out, p)]

Drop(out) ==
    /\ frames' = [frames EXCEPT !["rx"] = out]
    /\ UNCHANGED <<pool, mpdu, due>>

(* phl_manage_sta_reorder_buf.                                              *)
manage_not_started(r, p, t, n) ==
    /\ ~r.started /\ seq_less(n, r.head)
    /\ DontReorder(p, t, n, <<>>)
    /\ UNCHANGED <<tid_rx, timer, last>>

(* Mutant: an out of date frame is handed on.                               *)
manage_old_Passes(r, t, n) ==
    /\ r.started /\ seq_less(n, r.head)
    /\ \E p \in pool : DontReorder(p, t, n, <<>>)
    /\ UNCHANGED <<tid_rx, timer, last>>

manage_old(r, t, n) ==
    /\ r.started /\ seq_less(n, r.head)
    /\ Drop(<<>>)
    /\ UNCHANGED <<tid_rx, timer, last>>

MakeRoom(r, n) ==
    IF seq_less(n, r.head + BufSize) THEN [r |-> r, out |-> <<>>]
    ELSE phl_release_reorder_frames(r, n - BufSize + 1)

manage_window(r0, p, t, n) ==
    LET room == MakeRoom([r0 EXCEPT !.started = TRUE], n)
        r == room.r
        i == reorder_index(r, n)
        put == phl_reorder_release([r EXCEPT !.buf[i] = p, !.stored = @ + 1])
    IN  /\ ~seq_less(n, r0.head)
        /\ \/ /\ r.buf[i] # NULL
              /\ Drop(room.out)
              /\ tid_rx' = [tid_rx EXCEPT ![t] = r]
              /\ Released(t, room.out)
              /\ UNCHANGED timer
           \/ /\ r.buf[i] = NULL
              /\ n % SEQ_MODULO = r.head /\ r.stored = 0
              /\ DontReorder(p, t, n, room.out)
              /\ tid_rx' = [tid_rx EXCEPT ![t] =
                    [r EXCEPT !.head = (@ + 1) % SEQ_MODULO]]
              /\ Released(t, Append(room.out, p))
              /\ UNCHANGED timer
           \/ /\ r.buf[i] = NULL
              /\ ~(n % SEQ_MODULO = r.head /\ r.stored = 0)
              /\ Take(p, t, n)
              /\ frames' = [frames EXCEPT !["rx"] = room.out \o put.out]
              /\ tid_rx' = [tid_rx EXCEPT ![t] = put.r]
              /\ Released(t, room.out \o put.out)
              /\ timer' = ReleaseTimer(put.r)

(* The peer keeps its frames in flight within BufSize of its highest number *)
(* and jumps at most MaxSkip ahead; a frame may be lost or come twice.      *)
phl_rx_reorder(p, t, n) ==
    LET r == tid_rx[t]
    IN  /\ frames["rx"] = <<>> /\ TidLockFree /\ p \in pool
        /\ top[t] - BufSize < n /\ n <= top[t] + MaxSkip /\ n <= MaxN
        /\ \/ /\ r = NULL
              /\ DontReorder(p, t, n, <<>>)
              /\ UNCHANGED <<tid_rx, timer, last>>
           \/ r # NULL /\ manage_not_started(r, p, t, n)
           \/ r # NULL /\ manage_old(r, t, n)
           \/ r # NULL /\ manage_window(r, p, t, n)
        /\ top' = [top EXCEPT ![t] = Max({@, n})]
        /\ UNCHANGED <<visit, ring, freeing, starts, bars, reopened>>

(* One turn of phl_handle_rx_frame_list: _phl_add_rx_pkt, or back to the    *)
(* pool when the ring has no room.                                          *)
phl_handle_rx_frame_list(a) ==
    /\ frames[a] # <<>>
    /\ frames' = [frames EXCEPT ![a] = Tail(@)]
    /\ \/ /\ Len(ring) < RingRoom
          /\ ring' = Append(ring, Head(frames[a]))
          /\ UNCHANGED <<pool, mpdu, due>>
       \/ /\ Len(ring) >= RingRoom
          /\ recycle({Head(frames[a])})
          /\ UNCHANGED ring
    /\ UNCHANGED <<tid_rx, timer, visit, freeing, starts, bars, top, last, reopened>>

(* The core takes a packet from the ring and returns it.                    *)
rtw_phl_return_rxbuf ==
    /\ ring # <<>> /\ TidLockFree
    /\ ring' = Tail(ring)
    /\ recycle({Head(ring)})
    /\ UNCHANGED <<tid_rx, timer, visit, frames, freeing, starts, bars, top, last,
                   reopened>>

-----------------------------------------------------------------------------
(* Time and the reorder timer.                                              *)

Stored == {p \in Pkts : \E t \in Tids : tid_rx[t] # NULL /\ p \in Range(tid_rx[t].buf)}

Age ==
    /\ due # Stored
    /\ due' = Stored
    /\ UNCHANGED <<tid_rx, mpdu, pool, timer, visit, frames, ring, freeing,
                   starts, bars, top, last, reopened>>

(* Storing a frame sets the timer anew, so when it expires every stored     *)
(* frame has been there for the whole timeout.                              *)
TimerFire ==
    /\ timer /\ visit = NTids
    /\ timer' = FALSE
    /\ visit' = 0
    /\ due' = Stored
    /\ UNCHANGED <<tid_rx, mpdu, pool, frames, ring, freeing, starts, bars,
                   top, last, reopened>>

(* One turn of the loop of phl_sta_rx_reorder_timer_expired.                *)
phl_sta_rx_reorder_timer_expired ==
    /\ visit # NTids /\ frames["timer"] = <<>> /\ TidLockFree
    /\ visit' = visit + 1
    /\ \/ /\ tid_rx[visit] = NULL
          /\ UNCHANGED <<tid_rx, timer, frames, due, last>>
       \/ /\ tid_rx[visit] # NULL
          /\ LET rel == phl_reorder_release(tid_rx[visit])
             IN  /\ tid_rx' = [tid_rx EXCEPT ![visit] = rel.r]
                 /\ frames' = [frames EXCEPT !["timer"] = rel.out]
                 /\ timer' = ReleaseTimer(rel.r)
                 /\ due' = due \ Range(rel.out)
                 /\ last' = IF rel.out = <<>> THEN last
                            ELSE [last EXCEPT ![visit] = mpdu[Last(rel.out)].n]
    /\ UNCHANGED <<mpdu, pool, ring, freeing, starts, bars, top, reopened>>

-----------------------------------------------------------------------------
(* BlockAckReq.                                                             *)

rtw_phl_rx_bar(t, n) ==
    LET rel == phl_release_reorder_frames(tid_rx[t], n)
    IN  /\ bars < MaxBars /\ TidLockFree
        /\ top[t] - BufSize < n /\ n <= top[t] + 1
        /\ tid_rx[t] # NULL /\ ~seq_less(n, tid_rx[t].head)
        /\ tid_rx' = [tid_rx EXCEPT ![t] = rel.r]
        /\ frames' = [frames EXCEPT !["bar"] = rel.out]
        /\ due' = due \ Range(rel.out)
        /\ last' = IF rel.out = <<>> THEN last
                   ELSE [last EXCEPT ![t] = mpdu[Last(rel.out)].n]
        /\ bars' = bars + 1
        /\ UNCHANGED <<mpdu, pool, timer, visit, ring, freeing, starts, top, reopened>>

-----------------------------------------------------------------------------
(* Sessions and the station.                                                *)

BufPkts(r) == IF r = NULL THEN {} ELSE Range(r.buf) \ {NULL}

phl_tid_ampdu_rx_alloc(n) ==
    [ssn |-> n % SEQ_MODULO, head |-> n % SEQ_MODULO, started |-> FALSE,
     removed |-> FALSE, buf |-> [i \in Slots |-> NULL], stored |-> 0]

(* Nothing here, nor in rtw_phl_stop_rx_ba_session, asks whether the        *)
(* station is being freed: the ADDBA response runs in a thread of its own.  *)
rtw_phl_start_rx_ba_session(t, n) ==
    /\ starts < MaxStarts /\ TidLockFree
    /\ top[t] - BufSize < n /\ n <= top[t] + 1
    /\ recycle(BufPkts(tid_rx[t]))
    /\ tid_rx' = [tid_rx EXCEPT ![t] = phl_tid_ampdu_rx_alloc(n)]
    /\ last' = [last EXCEPT ![t] = n - 1]
    /\ starts' = starts + 1
    /\ reopened' = (reopened \/ freeing # "no")
    /\ UNCHANGED <<timer, visit, frames, ring, freeing, bars, top>>

(* Mutant: the frames of the closed session are not recycled.               *)
rtw_phl_stop_rx_ba_session_Leak(t) ==
    /\ TidLockFree /\ tid_rx[t] # NULL
    /\ tid_rx' = [tid_rx EXCEPT ![t] = NULL]
    /\ UNCHANGED <<mpdu, pool, due, timer, visit, frames, ring, freeing, starts,
                   bars, top, last, reopened>>

rtw_phl_stop_rx_ba_session(t) ==
    /\ TidLockFree /\ tid_rx[t] # NULL
    /\ recycle(BufPkts(tid_rx[t]))
    /\ tid_rx' = [tid_rx EXCEPT ![t] = NULL]
    /\ UNCHANGED <<timer, visit, frames, ring, freeing, starts, bars, top, last,
                   reopened>>

(* phl_free_rx_reorder: mark, cancel the timer, free.                       *)
FreeMark ==
    /\ freeing = "no" /\ TidLockFree
    /\ freeing' = "marked"
    /\ tid_rx' = [t \in Tids |-> IF tid_rx[t] = NULL THEN NULL
                                 ELSE [tid_rx[t] EXCEPT !.removed = TRUE]]
    /\ UNCHANGED <<mpdu, pool, due, timer, visit, frames, ring, starts, bars,
                   top, last, reopened>>

(* del_timer_sync: waits for a running callback.                            *)
FreeCancel ==
    /\ freeing = "marked" /\ visit = NTids /\ frames["timer"] = <<>>
    /\ freeing' = "cancelled"
    /\ timer' = FALSE
    /\ UNCHANGED <<tid_rx, mpdu, pool, due, visit, frames, ring, starts, bars,
                   top, last, reopened>>

FreeFree ==
    /\ freeing = "cancelled" /\ TidLockFree
    /\ freeing' = "freed"
    /\ recycle(UNION {BufPkts(tid_rx[t]) : t \in Tids})
    /\ tid_rx' = [t \in Tids |-> NULL]
    /\ UNCHANGED <<timer, visit, frames, ring, starts, bars, top, last, reopened>>

-----------------------------------------------------------------------------
Next ==
    \/ \E p \in Pkts, t \in Tids, n \in FirstN - BufSize .. MaxN :
          phl_rx_reorder(p, t, n)
    \/ \E a \in Actors : phl_handle_rx_frame_list(a)
    \/ rtw_phl_return_rxbuf
    \/ Age
    \/ TimerFire
    \/ phl_sta_rx_reorder_timer_expired
    \/ \E t \in Tids, n \in FirstN - BufSize .. MaxN : rtw_phl_rx_bar(t, n)
    \/ \E t \in Tids, n \in FirstN - BufSize .. MaxN :
          rtw_phl_start_rx_ba_session(t, n)
    \/ \E t \in Tids : rtw_phl_stop_rx_ba_session(t)
    \/ FreeMark \/ FreeCancel \/ FreeFree

Spec == Init /\ [][Next]_vars

(* An expired timer runs its callback, a running callback, tasklet or       *)
(* thread is scheduled until it is done.                                    *)
FairSpec ==
    /\ Spec
    /\ WF_vars(TimerFire)
    /\ WF_vars(phl_sta_rx_reorder_timer_expired)
    /\ \A a \in Actors : WF_vars(phl_handle_rx_frame_list(a))
    /\ WF_vars(FreeCancel) /\ WF_vars(FreeFree)

-----------------------------------------------------------------------------
(* Every variable keeps its type. *)
TypeOK ==
    /\ tid_rx \in [Tids -> Session \cup {NULL}]
    /\ mpdu \in [Pkts -> [tid : Tids, n : FirstN - BufSize .. MaxN] \cup {NULL}]
    /\ pool \subseteq Pkts
    /\ due \subseteq Pkts
    /\ timer \in BOOLEAN
    /\ visit \in 0 .. NTids
    /\ frames \in [Actors -> Seq(Pkts)]
    /\ ring \in Seq(Pkts)
    /\ freeing \in {"no", "marked", "cancelled", "freed"}
    /\ starts \in 0 .. MaxStarts
    /\ bars \in 0 .. MaxBars
    /\ top \in [Tids -> FirstN - 1 .. MaxN]
    /\ last \in [Tids -> FirstN - BufSize - 1 .. MaxN]
    /\ reopened \in BOOLEAN

(* A packet of the pool is in exactly one place: idle, in a slot of one     *)
(* reordering buffer, on the list of one context, or in the ring.  A drop   *)
(* or a session's end that recycles a packet twice, or loses it, breaks it. *)
PktPlaces ==
    \A p \in Pkts :
        LET slots == {s \in Tids \X Slots :
                        tid_rx[s[1]] # NULL /\ tid_rx[s[1]].buf[s[2]] = p}
            lists == {l \in Actors \X (1 .. Cardinality(Pkts)) :
                        l[2] \in DOMAIN frames[l[1]] /\ frames[l[1]][l[2]] = p}
            rings == {i \in DOMAIN ring : ring[i] = p}
        IN  Cardinality(slots) + Cardinality(lists) + Cardinality(rings)
                = IF p \in pool THEN 0 ELSE 1

(* Across the wrap of the sequence numbers the buffer of a session holds    *)
(* only frames of the window that starts at the head, each in the slot of   *)
(* its number, and stored_mpdu_num counts them: the loops of                *)
(* phl_reorder_release end because of it.                                   *)
Window ==
    \A t \in Tids : tid_rx[t] # NULL =>
        LET r == tid_rx[t]
        IN  /\ r.stored = Cardinality({i \in Slots : r.buf[i] # NULL})
            /\ \E h \in top[t] - BufSize + 1 .. top[t] + 1 :
                  /\ h % SEQ_MODULO = r.head
                  /\ \A i \in Slots : r.buf[i] # NULL =>
                        LET f == mpdu[r.buf[i]]
                        IN  /\ f.tid = t
                            /\ f.n \in h .. h + BufSize - 1
                            /\ i = reorder_index(r, f.n)

(* What a session releases, by arrival, timeout or BlockAckReq, comes in    *)
(* the order of the numbers, and never behind a frame released before.      *)
InOrder ==
    [][\A a \in Actors, t \in Tids :
         LET new == IF Len(frames'[a]) > Len(frames[a])
                    THEN SubSeq(frames'[a], Len(frames[a]) + 1, Len(frames'[a]))
                    ELSE <<>>
             ns == [i \in DOMAIN new |-> mpdu'[new[i]].n]
         IN  (new # <<>> /\ mpdu'[new[1]].tid = t /\ tid_rx[t] # NULL
                  /\ tid_rx'[t].started)
             => /\ last[t] < ns[1]
                /\ \A i \in 1 .. Len(ns) - 1 : ns[i] < ns[i + 1]]_vars

(* Once phl_free_rx_reorder has cancelled the timer it stays off and its    *)
(* callback does not run: the station can be freed.  This is what its       *)
(* comment claims for the marks it sets.                                    *)
NoTimerAfterCancel ==
    freeing \in {"cancelled", "freed"} => ~timer /\ visit = NTids

(* The marks do keep every session they were set on from arming the timer   *)
(* again, whatever the tasklet, a BlockAckReq or the closing of a session   *)
(* does between the mark and the free: after the cancel the timer is        *)
(* pending, or its callback running, only if a session was opened after     *)
(* the mark.                                                                *)
TimerOffUnlessReopened == NoTimerAfterCancel \/ reopened

(* Whenever a live session holds frames back, the reorder timer is pending  *)
(* or its callback is still going to visit that session.                    *)
StoredHasTimer ==
    \A t \in Tids : (tid_rx[t] # NULL /\ ~tid_rx[t].removed /\ tid_rx[t].stored > 0)
        => timer \/ visit <= t

(* As long as the timer watches every session that holds frames, no frame   *)
(* is held back for ever.                                                   *)
HeldIsReleased ==
    []StoredHasTimer => \A p \in Pkts : (p \in Stored) ~> (p \notin Stored)
=============================================================================
