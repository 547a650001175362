------------------------- MODULE UsbRxPlaces_proofs -------------------------
(***************************************************************************)
(* Proofs for UsbRx, second part: what each step does to the URBs, the       *)
(* buffers and the packets, and that none is lost or in two hands.           *)
(***************************************************************************)
EXTENDS UsbRxType_proofs, FiniteSetTheorems

\* The modules are long: a busy proof manager must not make a step time out.
USE SMTT(10), ZenonT(20)

-----------------------------------------------------------------------------
(* Counting in lists. *)

\* A count is a number, and at most the length of the list.
LEMMA CountType ==
    ASSUME NEW S, NEW s \in Seq(S), NEW p
    PROVE  /\ IsFiniteSet({i \in DOMAIN s : s[i] = p})
           /\ Count(s, p) \in Nat
           /\ Count(s, p) <= Len(s)
<1>1. PICK n \in Nat : n = Len(s)
  OBVIOUS
<1>2. IsFiniteSet(1 .. n) /\ Cardinality(1 .. n) = n
  <2>1. /\ IsFiniteSet(1 .. n)
        /\ Cardinality(1 .. n) = IF 1 > n THEN 0 ELSE n - 1 + 1
    BY FS_Interval
  <2> QED
    BY <2>1
<1>3. {i \in DOMAIN s : s[i] = p} \in SUBSET (1 .. n)
  BY <1>1
<1>4. /\ IsFiniteSet({i \in DOMAIN s : s[i] = p})
      /\ Cardinality({i \in DOMAIN s : s[i] = p}) <= n
  BY <1>2, <1>3, FS_Subset
<1> QED
  BY <1>1, <1>4, FS_CardinalityType DEF Count

\* Nothing is in the empty list.
LEMMA CountEmpty ==
    ASSUME NEW p
    PROVE  Count(<<>>, p) = 0
<1>1. {i \in DOMAIN <<>> : (<<>>)[i] = p} = {}
  OBVIOUS
<1> QED
  BY <1>1, FS_EmptySet DEF Count

\* What is not in a list is counted zero times, and only that.
LEMMA CountZero ==
    ASSUME NEW S, NEW s \in Seq(S), NEW p
    PROVE  (Count(s, p) = 0) <=> (\A i \in 1 .. Len(s) : s[i] # p)
<1>1. IsFiniteSet({i \in DOMAIN s : s[i] = p})
  BY CountType, ZenonT(60)
<1>2. (Count(s, p) = 0) <=> ({i \in DOMAIN s : s[i] = p} = {})
  BY <1>1, FS_EmptySet, ZenonT(60) DEF Count
<1>3. ({i \in DOMAIN s : s[i] = p} = {}) <=> (\A i \in 1 .. Len(s) : s[i] # p)
  <2>1. DOMAIN s = 1 .. Len(s)
    OBVIOUS
  <2> QED
    BY <2>1
<1> QED
  BY <1>2, <1>3

\* Append adds one occurrence of its element.
LEMMA CountAppend ==
    ASSUME NEW S, NEW s \in Seq(S), NEW x \in S, NEW p
    PROVE  Count(Append(s, x), p) = Count(s, p) + (IF x = p THEN 1 ELSE 0)
<1> DEFINE D == {i \in DOMAIN s : s[i] = p}
           E == {i \in DOMAIN Append(s, x) : Append(s, x)[i] = p}
<1>1. PICK n \in Nat : n = Len(s)
  OBVIOUS
<1>2. /\ DOMAIN s = 1 .. n /\ DOMAIN Append(s, x) = 1 .. (n + 1)
      /\ \A i \in 1 .. n : Append(s, x)[i] = s[i]
      /\ Append(s, x)[n + 1] = x
  BY <1>1
<1>3. IsFiniteSet(D) /\ Cardinality(D) \in Nat /\ n + 1 \notin D
  <2>1. IsFiniteSet(D) /\ Cardinality(D) \in Nat
    BY CountType, ZenonT(60) DEF Count
  <2> QED
    BY <2>1, <1>2
<1>4. CASE x = p
  <2>1. E = D \cup {n + 1}
    BY <1>2, <1>4
  <2>2. Cardinality(D \cup {n + 1}) = Cardinality(D) + 1
    BY <1>3, FS_AddElement, ZenonT(60)
  <2> QED
    BY <2>1, <2>2, <1>4, ZenonT(60) DEF Count
<1>5. CASE x # p
  <2>1. E = D
    BY <1>2, <1>5
  <2>2. Cardinality(D) = Cardinality(D) + 0
    BY <1>3
  <2> QED
    BY <2>1, <2>2, <1>5, ZenonT(60) DEF Count
<1> QED
  BY <1>4, <1>5

\* Taking the head removes one occurrence of it.
LEMMA CountTail ==
    ASSUME NEW S, NEW s \in Seq(S), s # <<>>, NEW p
    PROVE  Count(s, p) = Count(Tail(s), p) + (IF Head(s) = p THEN 1 ELSE 0)
<1> DEFINE D == {i \in DOMAIN s : s[i] = p}
           E == {i \in DOMAIN Tail(s) : Tail(s)[i] = p}
           f == [i \in E |-> i + 1]
<1>1. PICK n \in Nat : n + 1 = Len(s)
  <2>1. Len(s) \in Nat \ {0}
    OBVIOUS
  <2>2. \A k \in Nat \ {0} : \E n \in Nat : n + 1 = k
    <3> TAKE k \in Nat \ {0}
    <3> WITNESS k - 1 \in Nat
    <3> QED
      OBVIOUS
  <2> QED
    BY <2>1, <2>2
<1>2. /\ DOMAIN s = 1 .. (n + 1) /\ DOMAIN Tail(s) = 1 .. n
      /\ \A i \in 1 .. n : Tail(s)[i] = s[i + 1]
      /\ Head(s) = s[1] /\ Tail(s) \in Seq(S)
  BY <1>1
<1>3. IsFiniteSet(D) /\ IsFiniteSet(E) /\ Cardinality(D) \in Nat /\ Cardinality(E) \in Nat
  <2>1. IsFiniteSet(D) /\ Cardinality(D) \in Nat
    BY CountType, ZenonT(60) DEF Count
  <2>2. IsFiniteSet(E) /\ Cardinality(E) \in Nat
    BY <1>2, CountType, ZenonT(60) DEF Count
  <2> QED
    BY <2>1, <2>2, ZenonT(60)
<1>4. f \in Bijection(E, D \ {1})
  <2>1. \A i \in E : i \in 1 .. n /\ f[i] = i + 1 /\ f[i] \in D \ {1}
    BY <1>2
  <2>2. f \in [E -> D \ {1}]
    BY <2>1
  <2>3. \A i, j \in E : f[i] = f[j] => i = j
    BY <2>1
  <2>4. \A j \in D \ {1} : \E i \in E : f[i] = j
    <3> SUFFICES ASSUME NEW j \in D \ {1}
                 PROVE  \E i \in E : f[i] = j
      OBVIOUS
    <3>1. j \in 2 .. (n + 1) /\ s[j] = p
      BY <1>2
    <3>2. j - 1 \in 1 .. n /\ (j - 1) + 1 = j
      BY <3>1
    <3>3. j - 1 \in E
      BY <3>1, <3>2, <1>2
    <3> QED
      BY <3>2, <3>3, <2>1
  <2> QED
    BY <2>2, <2>3, <2>4 DEF Bijection, Injection, Surjection, IsInjective
<1>5. Cardinality(D \ {1}) = Cardinality(E)
  BY <1>3, <1>4, FS_Bijection, ZenonT(60) DEF ExistsBijection
<1>6. Cardinality(D \ {1}) = IF 1 \in D THEN Cardinality(D) - 1 ELSE Cardinality(D)
  BY <1>3, FS_RemoveElement, ZenonT(60)
<1>7. (1 \in D) <=> (Head(s) = p)
  BY <1>2
<1> QED
  <2>1. PICK d \in Nat, e \in Nat : d = Count(s, p) /\ e = Count(Tail(s), p)
    BY <1>3, ZenonT(60) DEF Count
  <2>2. e = IF Head(s) = p THEN d - 1 ELSE d
    BY <2>1, <1>5, <1>6, <1>7, ZenonT(60) DEF Count
  <2> QED
    BY <2>1, <2>2

-----------------------------------------------------------------------------
(* What the operations on the core's frames and on a buffer's count do. *)

\* The core has finitely many frames.
LEMMA CoreType ==
    ASSUME NEW p
    PROVE  /\ IsFiniteSet(Used) /\ Cardinality(Used) \in Nat
           /\ IsFiniteSet(Held(p)) /\ Cardinality(Held(p)) \in Nat
<1>1. NR_RECVFRAME \in Int /\ 1 \in Int
  BY UsbRxAssumption
<1>2. IsFiniteSet(RecvFrames)
  BY <1>1, FS_Interval DEF RecvFrames
<1>3. Used \in SUBSET RecvFrames /\ Held(p) \in SUBSET RecvFrames
  BY DEF Used, Held
<1>4. IsFiniteSet(Used) /\ IsFiniteSet(Held(p))
  BY <1>2, <1>3, FS_Subset
<1> QED
  BY <1>4, FS_CardinalityType

\* A free frame that takes a packet of x is one more in use, and one more of x.
LEMMA CoreTake ==
    ASSUME core \in [RecvFrames -> Ptrs \cup {"free"}],
           NEW f \in RecvFrames, core[f] = "free",
           NEW x \in Ptrs, core' = [core EXCEPT ![f] = x]
    PROVE  /\ core' \in [RecvFrames -> Ptrs \cup {"free"}]
           /\ Cardinality(Used') = Cardinality(Used) + 1
           /\ \A b \in Bufs : Cardinality(Held(b)') =
                                 Cardinality(Held(b)) + (IF x = b THEN 1 ELSE 0)
<1>1. x # "free"
  BY UsbRxAssumption DEF Ptrs
<1>2. Cardinality(Used') = Cardinality(Used) + 1
  <2>1. Used' = Used \cup {f} /\ f \notin Used
    BY <1>1 DEF Used
  <2> QED
    BY <2>1, CoreType, FS_AddElement, ZenonT(60)
<1>3. ASSUME NEW b \in Bufs
      PROVE  Cardinality(Held(b)') = Cardinality(Held(b)) + (IF x = b THEN 1 ELSE 0)
  <2>1. b # "free"
    BY UsbRxAssumption
  <2>2. CASE x = b
    <3>1. Held(b)' = Held(b) \cup {f} /\ f \notin Held(b)
      BY <2>1, <2>2 DEF Held
    <3>2. IsFiniteSet(Held(b))
      BY CoreType
    <3>3. Cardinality(Held(b) \cup {f}) = Cardinality(Held(b)) + 1
      BY <3>1, <3>2, FS_AddElement, ZenonT(60)
    <3> QED
      BY <3>1, <3>3, <2>2
  <2>3. CASE x # b
    <3>1. Held(b)' = Held(b)
      BY <2>1, <2>3 DEF Held
    <3>2. Cardinality(Held(b)) \in Nat
      BY CoreType
    <3> QED
      BY <3>1, <3>2, <2>3
  <2> QED
    BY <2>2, <2>3
<1> QED
  BY <1>2, <1>3

\* A frame that is given back is one less in use, and one less of what it held.
LEMMA CoreGive ==
    ASSUME core \in [RecvFrames -> Ptrs \cup {"free"}],
           NEW f \in RecvFrames, core[f] # "free", core' = [core EXCEPT ![f] = "free"]
    PROVE  /\ core[f] \in Ptrs
           /\ core' \in [RecvFrames -> Ptrs \cup {"free"}]
           /\ Cardinality(Used) = Cardinality(Used') + 1
           /\ \A b \in Bufs : Cardinality(Held(b)) =
                                 Cardinality(Held(b)') + (IF core[f] = b THEN 1 ELSE 0)
<1>2. Cardinality(Used) = Cardinality(Used') + 1
  <2>1. Used' = Used \ {f} /\ f \in Used
    BY DEF Used
  <2>2. Cardinality(Used \ {f}) = Cardinality(Used) - 1 /\ Cardinality(Used) \in Nat
    BY <2>1, CoreType, FS_RemoveElement
  <2> QED
    BY <2>1, <2>2
<1>3. ASSUME NEW b \in Bufs
      PROVE  Cardinality(Held(b)) = Cardinality(Held(b)') + (IF core[f] = b THEN 1 ELSE 0)
  <2>1. b # "free"
    BY UsbRxAssumption
  <2>2. CASE core[f] = b
    <3>1. Held(b)' = Held(b) \ {f} /\ f \in Held(b)
      BY <2>1, <2>2 DEF Held
    <3>2. IsFiniteSet(Held(b)) /\ Cardinality(Held(b)) \in Nat
      BY CoreType
    <3>3. Cardinality(Held(b) \ {f}) = Cardinality(Held(b)) - 1
      BY <3>1, <3>2, FS_RemoveElement, ZenonT(60)
    <3> QED
      BY <3>1, <3>2, <3>3, <2>2
  <2>3. CASE core[f] # b
    <3>1. Held(b)' = Held(b)
      BY <2>1, <2>3 DEF Held
    <3>2. Cardinality(Held(b)) \in Nat
      BY CoreType
    <3> QED
      BY <3>1, <3>2, <2>3
  <2> QED
    BY <2>2, <2>3
<1> QED
  BY <1>2, <1>3

\* phl_release_rxbuf_usb drops one packet of b, or none when there is none, and
\* makes b idle when no packet is left.
LEMMA ReleaseLemma ==
    ASSUME pktcnt \in [Bufs -> 0 .. MaxAgg], idle \subseteq Bufs,
           NEW b \in Bufs, phl_release_rxbuf_usb(b)
    PROVE  /\ pktcnt' \in [Bufs -> 0 .. MaxAgg] /\ idle' \subseteq Bufs
           /\ \A c \in Bufs : c # b => pktcnt'[c] = pktcnt[c] /\ (c \in idle' <=> c \in idle)
           /\ pktcnt[b] = 0 => pktcnt'[b] = 0 /\ b \in idle'
           /\ pktcnt[b] > 0 => pktcnt'[b] = pktcnt[b] - 1
           /\ pktcnt[b] = 1 => b \in idle'
           /\ pktcnt[b] > 1 => (b \in idle' <=> b \in idle)
<1>1. MaxAgg \in Nat
  BY UsbRxAssumption
<1>2. PICK k \in 0 .. MaxAgg : k = pktcnt[b]
  OBVIOUS
<1>3. PICK n \in 0 .. MaxAgg : n = IF k > 0 THEN k - 1 ELSE 0
  BY <1>1
<1>4. /\ pktcnt' = [pktcnt EXCEPT ![b] = n]
      /\ idle' = IF n = 0 THEN idle \cup {b} ELSE idle
  BY <1>2, <1>3 DEF phl_release_rxbuf_usb
<1> QED
  BY <1>1, <1>2, <1>3, <1>4

-----------------------------------------------------------------------------
(* What one step of each handler does to buffers and packets. *)

\* phl_rx_usb turns the first pending buffer b into packets that refer to b or to
\* no buffer.
TakesPend(b, ps) ==
    /\ pend # <<>> /\ b = Head(pend) /\ pend' = Tail(pend)
    /\ frames = <<>> /\ frames' = ps /\ Len(ps) <= MaxAgg
    /\ Len(ps) <= pool /\ pool' = pool - Len(ps)
    /\ \A c \in Bufs : c # b => Count(ps, c) = 0
    /\ \/ Count(ps, b) = 0 /\ phl_release_rxbuf_usb(b)
       \/ Count(ps, b) > 0 /\ pktcnt' = [pktcnt EXCEPT ![b] = Count(ps, b)] /\ idle' = idle
    /\ UNCHANGED <<busy, usb, ctx, timer, rx_sched, rx, full, event, ring, core, env>>

\* phl_rx_usb ends the tasklet's run, or it takes a pending buffer.
LEMMA RxUsbLemma ==
    ASSUME BufsOK, PktsOK, phl_rx_usb
    PROVE  \/ /\ pend = <<>> /\ rx' = FALSE
              /\ UNCHANGED <<bufs, usb, ctx, timer, rx_sched, full, frames, event, pkts, env>>
           \/ \E b \in Bufs, ps \in Seq(Ptrs) : TakesPend(b, ps)
<1>1. CASE pend = <<>>
  BY <1>1 DEF phl_rx_usb, pkts
<1>2. CASE pend # <<>>
  <2>0. PICK n \in 0 .. MaxAgg : \E ps \in [1 .. n -> {NULL, Head(pend)}] :
           n <= pool /\ phl_get_single_rx(Head(pend), ps)
    BY <1>2, ZenonT(60) DEF phl_rx_usb
  <2>1. PICK ps \in [1 .. n -> {NULL, Head(pend)}] :
           n <= pool /\ phl_get_single_rx(Head(pend), ps)
    BY <2>0
  <2>2. Head(pend) \in Bufs
    BY <1>2 DEF BufsOK
  <2>3. n \in Nat /\ MaxAgg \in Nat
    BY UsbRxAssumption
  <2>4. ps \in Seq(Ptrs) /\ Len(ps) = n
    <3>1. ps \in [1 .. n -> Ptrs]
      BY <2>2 DEF Ptrs
    <3> QED
      BY <2>3, <3>1
  <2>5. ASSUME NEW c \in Bufs, c # Head(pend)
        PROVE  Count(ps, c) = 0
    <3>1. \A i \in 1 .. Len(ps) : ps[i] # c
      BY <2>4, <2>5, UsbRxAssumption
    <3> QED
      BY <3>1, <2>4, CountZero
  <2>6. TakesPend(Head(pend), ps)
    <3>1. /\ frames = <<>> /\ frames' = ps /\ pend' = Tail(pend)
          /\ pool' = pool - Len(ps)
          /\ UNCHANGED <<busy, usb, ctx, timer, rx_sched, rx, full, event, ring, core, env>>
      BY <1>2, <2>1, ZenonT(60) DEF phl_rx_usb, phl_get_single_rx
    <3>2. Len(ps) <= MaxAgg /\ Len(ps) <= pool
      BY <2>1, <2>4
    <3>3. \/ Count(ps, Head(pend)) = 0 /\ phl_release_rxbuf_usb(Head(pend))
          \/ /\ Count(ps, Head(pend)) > 0 /\ idle' = idle
             /\ pktcnt' = [pktcnt EXCEPT ![Head(pend)] = Count(ps, Head(pend))]
      BY <2>1 DEF phl_get_single_rx
    <3> QED
      BY <1>2, <2>5, <3>1, <3>2, <3>3 DEF TakesPend
  <2> QED
    BY <2>2, <2>4, <2>6
<1> QED
  BY <1>1, <1>2, ZenonT(60)

\* The lists of buffers and what the contexts hold keep their types.
LEMMA BufsKept ==
    ASSUME TypeOK, Tokens, [Next]_vars
    PROVE  BufsOK' /\ CtxOK'
<1>0. PcOK /\ BufsOK /\ CtxOK /\ PktsOK
  BY TypeParts
<1> USE DEF bufs, usb, ctx, tasklet, event, pkts, env
<1>1. CASE QuietStep
  BY <1>0, <1>1, QuietLemma DEF BufsOK, CtxOK
<1>2. ASSUME NEW a \in Actors, InToken(a)
      PROVE  BufsOK' /\ CtxOK'
  BY <1>0, <1>2 DEF BufsOK, CtxOK, InToken, NoBuffer, Ptrs
<1>3. ASSUME NEW a \in Actors, rtw_usb_read_port(a)
      PROVE  BufsOK' /\ CtxOK'
  <2>1. tok[a] \in Bufs
    BY <1>0, <1>3 DEF Tokens, BufsOK, rtw_usb_read_port
  <2>2. CtxOK' /\ UNCHANGED pend
    BY <1>0, <1>3 DEF CtxOK, rtw_usb_read_port, Ptrs
  <2>3. CASE Submitted(a)
    BY <1>0, <2>1, <2>2, <2>3 DEF BufsOK, Submitted
  <2>4. CASE Refused(a)
    <3>1. phl_release_rxbuf_usb(tok[a]) /\ busy' = busy \ {tok[a]} /\ UNCHANGED inflight
      BY <2>4 DEF Refused
    <3>2. pktcnt' \in [Bufs -> 0 .. MaxAgg] /\ idle' \subseteq Bufs
      BY <1>0, <2>1, <3>1, ReleaseLemma DEF BufsOK
    <3> QED
      BY <1>0, <2>2, <3>1, <3>2 DEF BufsOK
  <2> QED
    BY <1>3, <2>3, <2>4 DEF rtw_usb_read_port
<1>4. ASSUME NEW b \in Bufs, NEW ok \in BOOLEAN, rtw_usb_read_port_complete(b, ok)
      PROVE  BufsOK' /\ CtxOK'
  <2>1. /\ UNCHANGED <<idle, busy, pend, pktcnt, tok>>
        /\ inflight' = inflight \ {b} /\ done' = [buf |-> b, ok |-> ok]
    BY <1>4 DEF rtw_usb_read_port_complete
  <2> QED
    BY <1>0, <2>1 DEF BufsOK, CtxOK, Ptrs
<1>5. CASE phl_pend_rxbuf_usb
  <2>1. done.buf \in Bufs
    BY <1>0, <1>5 DEF Tokens, BufsOK, phl_pend_rxbuf_usb
  <2>2. UNCHANGED <<inflight, tok, done>> /\ busy' = busy \ {done.buf}
    BY <1>5 DEF phl_pend_rxbuf_usb
  <2>3. CASE pend' = Append(pend, done.buf) /\ UNCHANGED <<pktcnt, idle>>
    BY <1>0, <2>1, <2>2, <2>3 DEF BufsOK, CtxOK
  <2>4. CASE UNCHANGED pend /\ phl_release_rxbuf_usb(done.buf)
    <3>1. pktcnt' \in [Bufs -> 0 .. MaxAgg] /\ idle' \subseteq Bufs
      BY <1>0, <2>1, <2>4, ReleaseLemma DEF BufsOK
    <3> QED
      BY <1>0, <2>2, <2>4, <3>1 DEF BufsOK, CtxOK
  <2> QED
    BY <1>5, <2>3, <2>4 DEF phl_pend_rxbuf_usb
<1>6. CASE rtw_free_dataurb
  <2>1. /\ UNCHANGED <<idle, busy, pend, pktcnt, tok, inflight>>
        /\ done' = [buf |-> NULL, ok |-> FALSE]
    BY <1>6 DEF rtw_free_dataurb
  <2> QED
    BY <1>0, <2>1 DEF BufsOK, CtxOK, Ptrs
<1>7. CASE phl_rx_usb
  <2>1. CASE UNCHANGED <<bufs, usb, ctx>>
    BY <1>0, <2>1 DEF BufsOK, CtxOK
  <2>2. ASSUME NEW b \in Bufs, NEW ps \in Seq(Ptrs), TakesPend(b, ps)
        PROVE  BufsOK' /\ CtxOK'
    <3>1. UNCHANGED <<busy, inflight, tok, done>> /\ pend' \in Seq(Bufs)
      BY <1>0, <2>2 DEF TakesPend, BufsOK
    <3>2. pktcnt' \in [Bufs -> 0 .. MaxAgg] /\ idle' \subseteq Bufs
      <4>1. CASE phl_release_rxbuf_usb(b)
        BY <1>0, <4>1, ReleaseLemma DEF BufsOK
      <4>2. CASE pktcnt' = [pktcnt EXCEPT ![b] = Count(ps, b)] /\ idle' = idle
        <5>1. Count(ps, b) \in Nat /\ Count(ps, b) <= Len(ps) /\ Len(ps) <= MaxAgg
          BY <2>2, CountType, ZenonT(60) DEF TakesPend
        <5>2. MaxAgg \in Nat /\ Len(ps) \in Nat
          BY UsbRxAssumption
        <5>3. Count(ps, b) \in 0 .. MaxAgg
          BY <5>1, <5>2
        <5> QED
          BY <1>0, <4>2, <5>3 DEF BufsOK
      <4> QED
        BY <2>2, <4>1, <4>2 DEF TakesPend
    <3> QED
      BY <1>0, <3>1, <3>2 DEF BufsOK, CtxOK
  <2> QED
    BY <1>0, <1>7, <2>1, <2>2, RxUsbLemma, ZenonT(60)
<1>8. ASSUME NEW p \in Ptrs, phl_recycle_rx_buf(p), UNCHANGED <<busy, pend, usb, ctx>>
      PROVE  BufsOK' /\ CtxOK'
  <2>1. CASE UNCHANGED <<pktcnt, idle>>
    BY <1>0, <1>8, <2>1 DEF BufsOK, CtxOK
  <2>2. CASE p \in Bufs /\ phl_release_rxbuf_usb(p)
    <3>1. pktcnt' \in [Bufs -> 0 .. MaxAgg] /\ idle' \subseteq Bufs
      BY <1>0, <2>2, ReleaseLemma DEF BufsOK
    <3> QED
      BY <1>0, <1>8, <3>1 DEF BufsOK, CtxOK
  <2> QED
    BY <1>8, <2>1, <2>2 DEF phl_recycle_rx_buf, Ptrs
<1>9. CASE phl_rx_process_usb
  <2>1. Head(frames) \in Ptrs
    BY <1>0, <1>9 DEF PktsOK, phl_rx_process_usb
  <2>2. UNCHANGED <<busy, pend, usb, ctx>>
    BY <1>9 DEF phl_rx_process_usb
  <2>3. CASE UNCHANGED <<idle, pktcnt>>
    BY <1>0, <2>2, <2>3 DEF BufsOK, CtxOK
  <2> QED
    BY <1>8, <1>9, <2>1, <2>2, <2>3 DEF phl_rx_process_usb
<1>10. CASE rtw_core_rx_process
  BY <1>0, <1>10 DEF rtw_core_rx_process, BufsOK, CtxOK
<1>11. ASSUME NEW f \in RecvFrames, rtw_phl_return_rxbuf(f)
       PROVE  BufsOK' /\ CtxOK'
  <2>1. core[f] \in Ptrs /\ phl_recycle_rx_buf(core[f])
    BY <1>0, <1>11, CoreGive DEF PktsOK, rtw_phl_return_rxbuf
  <2>2. UNCHANGED <<busy, pend, usb, ctx>>
    BY <1>11 DEF rtw_phl_return_rxbuf
  <2> QED
    BY <1>8, <2>1, <2>2
<1> QED
  BY <1>1, <1>2, <1>3, <1>4, <1>5, <1>6, <1>7, <1>9, <1>10, <1>11, StepSplit DEF BufStep

\* Every packet stays in one place, and the ring holds what the core is going to
\* take: the event tasklet is the only one that takes out of it.
LEMMA PktsStep ==
    ASSUME TypeOK, PktsKept, EvInRing, [Next]_vars
    PROVE  PktsOK' /\ PktsKept' /\ EvInRing'
<1>0. PcOK /\ BufsOK /\ CtxOK /\ PktsOK
  BY TypeParts
<1>a. PICK nf \in Nat, nr \in Nat, nu \in Nat :
         nf = Len(frames) /\ nr = Len(ring) /\ nu = Cardinality(Used)
  <2>1. Len(frames) \in Nat /\ Len(ring) \in Nat
    BY <1>0 DEF PktsOK
  <2>2. Cardinality(Used) \in Nat
    BY CoreType
  <2> QED
    BY <2>1, <2>2
<1>b. /\ pool \in Nat /\ ev \in Int /\ ev <= nr /\ pool + nf + nr + nu = PoolSize
      /\ nf <= MaxAgg /\ nr <= RingRoom
      /\ PoolSize \in Nat /\ MaxAgg \in Nat \ {0} /\ RingRoom \in Nat \ {0}
  BY <1>0, <1>a, UsbRxAssumption DEF TypeOK, PktsKept, EvInRing, PktsOK
<1> USE DEF bufs, usb, ctx, tasklet, event, pkts, env, vars
<1>1. ASSUME UNCHANGED <<frames, ring, core, pool>>, ev' <= Len(ring)
      PROVE  PktsOK' /\ PktsKept' /\ EvInRing'
  BY <1>0, <1>1 DEF PktsOK, PktsKept, EvInRing, Used
<1>2. CASE QuietStep
  <2>1. UNCHANGED <<frames, ring, core, pool>>
    BY <1>0, <1>2, QuietLemma
  <2>2. ev' = ev \/ ev' = Len(ring) \/ ev' = -1
    BY <1>2 DEF QuietStep, _phl_rx_start_usb, _phl_rx_deferred_in_token,
           rtw_phl_start_rx_process, _phl_rx_callback_usb, phl_event_indicator,
           phl_trx_cfg_usb, dev_set_drv_stopped, dev_set_surprise_removed, _phl_rx_stop_usb,
           rtw_usb_read_port_cancel
  <2>3. ev' <= Len(ring)
    BY <2>2, <1>a, <1>b
  <2> QED
    BY <1>1, <2>1, <2>3
<1>3. CASE \E a \in Actors : InToken(a) \/ rtw_usb_read_port(a)
  BY <1>1, <1>3, <1>a, <1>b DEF InToken, rtw_usb_read_port
<1>4. CASE \E b \in Bufs, ok \in BOOLEAN : rtw_usb_read_port_complete(b, ok)
  BY <1>1, <1>4, <1>a, <1>b DEF rtw_usb_read_port_complete
<1>5. CASE phl_pend_rxbuf_usb \/ rtw_free_dataurb
  BY <1>1, <1>5, <1>a, <1>b DEF phl_pend_rxbuf_usb, rtw_free_dataurb
<1>6. CASE phl_rx_usb
  <2>1. CASE UNCHANGED <<frames, event, pkts>>
    BY <2>1, <1>1, <1>a, <1>b
  <2>2. ASSUME NEW b \in Bufs, NEW ps \in Seq(Ptrs), TakesPend(b, ps)
        PROVE  PktsOK' /\ PktsKept' /\ EvInRing'
    <3>1. /\ UNCHANGED <<ring, core, ev>> /\ frames = <<>> /\ frames' = ps
          /\ pool' = pool - Len(ps) /\ Len(ps) <= MaxAgg
      BY <2>2 DEF TakesPend
    <3>2. PktsOK' /\ EvInRing'
      BY <1>0, <3>1 DEF PktsOK, EvInRing
    <3>3. PICK k \in Nat : k = Len(ps)
      OBVIOUS
    <3>4. pool' = pool - k /\ nf = 0 /\ Len(frames') = k
      BY <3>1, <3>3, <1>a
    <3>5. (pool - k) + k + nr + nu = PoolSize
      BY <3>3, <3>4, <1>b
    <3>6. Used' = Used
      BY <3>1 DEF Used
    <3>7. PktsKept'
      BY <3>1, <3>4, <3>5, <3>6, <1>a DEF PktsKept
    <3> QED
      BY <3>2, <3>7
  <2> QED
    BY <1>0, <1>6, <2>1, <2>2, RxUsbLemma, ZenonT(60)
<1>7. CASE phl_rx_process_usb
  <2>1. /\ frames # <<>> /\ frames' = Tail(frames) /\ UNCHANGED <<core, ev>>
        /\ \/ Len(ring) < RingRoom /\ ring' = Append(ring, Head(frames)) /\ pool' = pool
           \/ ring' = ring /\ pool' = pool + 1
    BY <1>7 DEF phl_rx_process_usb, phl_recycle_rx_buf
  <2>2. /\ Head(frames) \in Ptrs /\ Tail(frames) \in Seq(Ptrs)
        /\ Len(Tail(frames)) = nf - 1 /\ nf >= 1
    BY <1>0, <1>a, <2>1 DEF PktsOK
  <2>3. Used' = Used
    BY <2>1 DEF Used
  <2>4. CASE Len(ring) < RingRoom /\ ring' = Append(ring, Head(frames)) /\ pool' = pool
    <3>1. ring' \in Seq(Ptrs) /\ Len(ring') = nr + 1
      BY <1>0, <1>a, <2>2, <2>4 DEF PktsOK
    <3>2. PktsOK' /\ EvInRing'
      BY <1>0, <1>a, <1>b, <2>1, <2>2, <2>4, <3>1 DEF PktsOK, EvInRing
    <3>3. pool + (nf - 1) + (nr + 1) + nu = PoolSize
      BY <1>b
    <3> QED
      BY <1>a, <2>1, <2>2, <2>3, <2>4, <3>1, <3>2, <3>3 DEF PktsKept
  <2>5. CASE ring' = ring /\ pool' = pool + 1
    <3>1. PktsOK' /\ EvInRing'
      BY <1>0, <1>a, <1>b, <2>1, <2>2, <2>5 DEF PktsOK, EvInRing
    <3>2. (pool + 1) + (nf - 1) + nr + nu = PoolSize
      BY <1>b
    <3> QED
      BY <1>a, <2>1, <2>2, <2>3, <2>5, <3>1, <3>2 DEF PktsKept
  <2> QED
    BY <2>1, <2>4, <2>5
<1>8. CASE rtw_core_rx_process
  <2>1. CASE ev' = -1 /\ UNCHANGED <<core, ring>>
    BY <1>1, <1>8, <2>1, <1>a, <1>b DEF rtw_core_rx_process
  <2>2. ASSUME NEW f \in RecvFrames, core[f] = "free", ev > 0,
               core' = [core EXCEPT ![f] = Head(ring)], ring' = Tail(ring), ev' = ev - 1
        PROVE  PktsOK' /\ PktsKept' /\ EvInRing'
    <3>1. nr >= 1 /\ ring # <<>>
      BY <2>2, <1>a, <1>b
    <3>2. Head(ring) \in Ptrs /\ ring' \in Seq(Ptrs) /\ Len(ring') = nr - 1
      BY <1>0, <1>a, <2>2, <3>1 DEF PktsOK
    <3>3. /\ core' \in [RecvFrames -> Ptrs \cup {"free"}]
          /\ Cardinality(Used') = nu + 1
      BY <1>0, <1>a, <2>2, <3>2, CoreTake, ZenonT(60) DEF PktsOK
    <3>4. UNCHANGED <<frames, pool>>
      BY <1>8 DEF rtw_core_rx_process
    <3>5. PktsOK' /\ EvInRing'
      BY <1>0, <1>a, <1>b, <2>2, <3>2, <3>3, <3>4 DEF PktsOK, EvInRing
    <3>6. pool + nf + (nr - 1) + (nu + 1) = PoolSize
      BY <1>b
    <3> QED
      BY <1>a, <3>2, <3>3, <3>4, <3>5, <3>6 DEF PktsKept
  <2> QED
    BY <1>8, <2>1, <2>2 DEF rtw_core_rx_process
<1>9. ASSUME NEW f \in RecvFrames, rtw_phl_return_rxbuf(f)
      PROVE  PktsOK' /\ PktsKept' /\ EvInRing'
  <2>1. /\ core[f] # "free" /\ core' = [core EXCEPT ![f] = "free"]
        /\ pool' = pool + 1 /\ UNCHANGED <<frames, ring, ev>>
    BY <1>9 DEF rtw_phl_return_rxbuf, phl_recycle_rx_buf
  <2>2. /\ core' \in [RecvFrames -> Ptrs \cup {"free"}]
        /\ Cardinality(Used) = Cardinality(Used') + 1
    BY <1>0, <2>1, CoreGive, ZenonT(60) DEF PktsOK
  <2>3. PktsOK' /\ EvInRing'
    BY <1>0, <1>a, <1>b, <2>1, <2>2 DEF PktsOK, EvInRing
  <2>4. PICK k \in Nat : k = Cardinality(Used')
    <3>1. Used' \in SUBSET RecvFrames /\ IsFiniteSet(RecvFrames)
      <4>1. NR_RECVFRAME \in Int /\ 1 \in Int
        BY UsbRxAssumption
      <4> QED
        BY <4>1, FS_Interval DEF Used, RecvFrames
    <3> QED
      BY <3>1, FS_Subset, FS_CardinalityType
  <2>5. (pool + 1) + nf + nr + k = PoolSize
    BY <1>a, <1>b, <2>2, <2>4
  <2> QED
    BY <1>a, <2>1, <2>3, <2>4, <2>5 DEF PktsKept
<1> QED
  BY <1>2, <1>3, <1>4, <1>5, <1>6, <1>7, <1>8, <1>9, StepSplit DEF BufStep

\* A URB is free, in flight or with the completion.
LEMMA UrbsStep ==
    ASSUME TypeOK, Tokens, UrbsBack, [Next]_vars
    PROVE  UrbsBack' /\ urbs' \in Nat
<1>0. PcOK /\ BufsOK /\ CtxOK /\ PktsOK /\ urbs \in Nat /\ RTW_RECVURB_NR \in Nat
  BY TypeParts, UsbRxAssumption
<1>a. IsFiniteSet(inflight)
  BY <1>0, UsbRxAssumption, FS_Subset DEF BufsOK
<1>b. PICK k \in Nat : k = Cardinality(inflight)
  BY <1>a, FS_CardinalityType
<1>c. urbs + k + (IF pc["comp"] = "off" THEN 0 ELSE 1) = RTW_RECVURB_NR
  BY <1>b DEF UrbsBack
<1> USE DEF bufs, usb, ctx, tasklet, event, pkts, env, vars, Goto
<1>1. ASSUME UNCHANGED <<inflight, urbs>>, (pc'["comp"] = "off") <=> (pc["comp"] = "off")
      PROVE  UrbsBack' /\ urbs' \in Nat
  BY <1>0, <1>1 DEF UrbsBack
<1>2. CASE QuietStep
  BY <1>0, <1>1, <1>2, QuietLemma
<1>3. ASSUME NEW a \in Actors, InToken(a)
      PROVE  UrbsBack' /\ urbs' \in Nat
  <2>1. UNCHANGED <<inflight, urbs>> /\ pc[a] = "token"
        /\ \E l \in {"submit", Failed(a)} : pc' = [pc EXCEPT ![a] = l]
    BY <1>3 DEF InToken, NoBuffer
  <2>2. (pc'["comp"] = "off") <=> (pc["comp"] = "off")
    BY <1>0, <2>1 DEF PcOK, Actors, Failed
  <2> QED
    BY <1>1, <2>1, <2>2
<1>4. ASSUME NEW a \in Actors, rtw_usb_read_port(a)
      PROVE  UrbsBack' /\ urbs' \in Nat
  <2>1. pc[a] = "submit" /\ tok[a] \notin inflight
    BY <1>4 DEF rtw_usb_read_port, Tokens
  <2>2. CASE Submitted(a)
    <3>1. /\ urbs > 0 /\ urbs' = urbs - 1 /\ inflight' = inflight \cup {tok[a]}
          /\ (pc'["comp"] = "off") <=> (pc["comp"] = "off")
      BY <1>0, <2>1, <2>2 DEF Submitted, PcOK, Actors
    <3>2. Cardinality(inflight') = k + 1
      BY <1>a, <1>b, <2>1, <3>1, FS_AddElement, ZenonT(60)
    <3> QED
      BY <1>0, <1>b, <1>c, <3>1, <3>2 DEF UrbsBack
  <2>3. CASE Refused(a)
    <3>1. /\ UNCHANGED <<inflight, urbs>>
          /\ (pc'["comp"] = "off") <=> (pc["comp"] = "off")
      BY <1>0, <2>1, <2>3 DEF Refused, Failed, PcOK, Actors
    <3> QED
      BY <1>1, <3>1
  <2> QED
    BY <1>4, <2>2, <2>3 DEF rtw_usb_read_port
<1>5. ASSUME NEW b \in Bufs, NEW ok \in BOOLEAN, rtw_usb_read_port_complete(b, ok)
      PROVE  UrbsBack' /\ urbs' \in Nat
  <2>1. /\ b \in inflight /\ inflight' = inflight \ {b} /\ UNCHANGED urbs
        /\ pc["comp"] = "off" /\ pc' = [pc EXCEPT !["comp"] = "post"]
    BY <1>5 DEF rtw_usb_read_port_complete
  <2>2. pc'["comp"] = "post"
    BY <1>0, <2>1 DEF PcOK, Actors
  <2>3. Cardinality(inflight') = k - 1
    BY <1>a, <1>b, <2>1, FS_RemoveElement
  <2> QED
    BY <1>0, <1>b, <1>c, <2>1, <2>2, <2>3 DEF UrbsBack
<1>6. CASE phl_pend_rxbuf_usb
  <2>1. /\ UNCHANGED <<inflight, urbs>> /\ pc["comp"] = "post"
        /\ \E l \in {"token", "free"} : pc' = [pc EXCEPT !["comp"] = l]
    BY <1>6 DEF phl_pend_rxbuf_usb
  <2>2. pc'["comp"] # "off"
    BY <1>0, <2>1 DEF PcOK, Actors
  <2> QED
    BY <1>1, <2>1, <2>2
<1>7. CASE rtw_free_dataurb
  <2>1. /\ pc["comp"] = "free" /\ pc' = [pc EXCEPT !["comp"] = "off"]
        /\ UNCHANGED inflight /\ urbs' = urbs + 1
    BY <1>7 DEF rtw_free_dataurb
  <2>2. pc'["comp"] = "off"
    BY <1>0, <2>1 DEF PcOK, Actors
  <2> QED
    BY <1>0, <1>b, <1>c, <2>1, <2>2 DEF UrbsBack
<1>8. CASE phl_rx_usb \/ phl_rx_process_usb \/ rtw_core_rx_process
           \/ \E f \in RecvFrames : rtw_phl_return_rxbuf(f)
  <2>1. UNCHANGED <<inflight, urbs, pc>>
    BY <1>8 DEF phl_rx_usb, phl_rx_process_usb, rtw_core_rx_process, rtw_phl_return_rxbuf
  <2> QED
    BY <1>1, <2>1
<1> QED
  BY <1>2, <1>3, <1>4, <1>5, <1>6, <1>7, <1>8, StepSplit DEF BufStep

-----------------------------------------------------------------------------
(* The places of the buffers. *)

\* The counts of a buffer are numbers.
LEMMA RefsType ==
    ASSUME BufsOK, PktsOK, NEW b \in Bufs
    PROVE  /\ Count(frames, b) \in Nat /\ Count(ring, b) \in Nat
           /\ Cardinality(Held(b)) \in Nat /\ Refs(b) \in Nat
           /\ Count(pend, b) \in Nat /\ pktcnt[b] \in Nat
<1>1. Count(frames, b) \in Nat /\ Count(ring, b) \in Nat /\ Count(pend, b) \in Nat
  BY CountType, ZenonT(60) DEF BufsOK, PktsOK
<1>2. Cardinality(Held(b)) \in Nat
  BY CoreType
<1>3. pktcnt[b] \in Nat
  BY UsbRxAssumption DEF BufsOK
<1> QED
  BY <1>1, <1>2, <1>3 DEF Refs

\* A buffer without packets that is released is idle.
LEMMA ReleaseIdle ==
    ASSUME BufsOK, NEW b \in Bufs, pktcnt[b] = 0, phl_release_rxbuf_usb(b)
    PROVE  pktcnt' = pktcnt /\ idle' = idle \cup {b}
BY DEF BufsOK, phl_release_rxbuf_usb

\* A step that moves no buffer and no packet keeps the places.
LEMMA PlacesSame ==
    ASSUME OnePlace, RefsCounted, UNCHANGED <<bufs, frames, ring, core>>
    PROVE  OnePlace' /\ RefsCounted'
BY DEF OnePlace, RefsCounted, IsIdle, IsBusy, IsPend, IsHeld, Refs, Held, bufs

\* A busy buffer that is given back is idle.
LEMMA BusyToIdle ==
    ASSUME BufsOK, OnePlace, RefsCounted, UNCHANGED <<pend, frames, ring, core>>,
           NEW b \in busy, busy' = busy \ {b}, phl_release_rxbuf_usb(b)
    PROVE  OnePlace' /\ RefsCounted'
<1>1. b \in Bufs /\ IsBusy(b)
  BY DEF BufsOK, OnePlace, IsIdle, IsBusy, IsPend, IsHeld
<1>2. pktcnt' = pktcnt /\ idle' = idle \cup {b}
  BY <1>1, ReleaseIdle DEF IsBusy
<1>3. RefsCounted'
  BY <1>2 DEF RefsCounted, Refs, Held
<1>4. ASSUME NEW c \in Bufs
      PROVE  IsIdle(c)' \/ IsBusy(c)' \/ IsPend(c)' \/ IsHeld(c)'
  BY <1>1, <1>2 DEF OnePlace, IsIdle, IsBusy, IsPend, IsHeld
<1> QED
  BY <1>3, <1>4 DEF OnePlace

\* A packet that is recycled drops its reference; the last one makes its buffer idle.
LEMMA RecycleKeeps ==
    ASSUME BufsOK, PktsOK, PktsOK', BufsOK', OnePlace, RefsCounted, UNCHANGED <<busy, pend>>,
           NEW p \in Ptrs, phl_recycle_rx_buf(p),
           \A b \in Bufs : Refs(b) = Refs(b)' + (IF p = b THEN 1 ELSE 0)
    PROVE  OnePlace' /\ RefsCounted'
<1>0. \A b \in Bufs : Refs(b) \in Nat /\ pktcnt[b] \in Nat /\ Refs(b) = pktcnt[b]
  BY RefsType DEF RefsCounted
<1>1. ASSUME NEW b \in Bufs
      PROVE  Refs(b)' \in Nat
  <2>1. Count(frames', b) \in Nat /\ Count(ring', b) \in Nat
    BY CountType, ZenonT(60) DEF PktsOK
  <2>2. IsFiniteSet(Held(b)')
    <3>1. Held(b)' \in SUBSET RecvFrames /\ NR_RECVFRAME \in Int /\ 1 \in Int
      BY UsbRxAssumption DEF Held
    <3>2. IsFiniteSet(RecvFrames)
      BY <3>1, FS_Interval DEF RecvFrames
    <3> QED
      BY <3>1, <3>2, FS_Subset
  <2>3. Cardinality(Held(b)') \in Nat
    BY <2>2, FS_CardinalityType
  <2> QED
    BY <2>1, <2>3 DEF Refs
<1>2. CASE p = NULL
  <2>1. pktcnt' = pktcnt /\ idle' = idle
    BY <1>2 DEF phl_recycle_rx_buf
  <2>2. ASSUME NEW b \in Bufs
        PROVE  Refs(b)' = pktcnt'[b]
    <3>1. p # b
      BY <1>2, UsbRxAssumption
    <3>2. PICK r \in Nat : r = Refs(b)'
      BY <1>1
    <3>3. Refs(b) = r + 0
      BY <3>1, <3>2
    <3> QED
      BY <1>0, <2>1, <3>2, <3>3
  <2>3. OnePlace'
    BY <2>1 DEF OnePlace, IsIdle, IsBusy, IsPend, IsHeld
  <2> QED
    BY <2>2, <2>3 DEF RefsCounted
<1>3. CASE p # NULL
  <2>1. p \in Bufs /\ phl_release_rxbuf_usb(p)
    BY <1>3 DEF phl_recycle_rx_buf, Ptrs
  <2>2. PICK r \in Nat : r = Refs(p)'
    BY <1>1, <2>1
  <2>3. pktcnt[p] = r + 1
    BY <1>0, <2>1, <2>2
  <2>4. IsHeld(p)
    BY <2>1, <2>3 DEF OnePlace, IsIdle, IsBusy, IsPend, IsHeld
  <2>5. /\ \A c \in Bufs : c # p => pktcnt'[c] = pktcnt[c] /\ (c \in idle' <=> c \in idle)
        /\ pktcnt'[p] = r
        /\ r = 0 => p \in idle'
        /\ r > 0 => (p \in idle' <=> p \in idle)
    <3>1. /\ \A c \in Bufs : c # p => pktcnt'[c] = pktcnt[c] /\ (c \in idle' <=> c \in idle)
          /\ pktcnt[p] > 0 => pktcnt'[p] = pktcnt[p] - 1
          /\ pktcnt[p] = 1 => p \in idle'
          /\ pktcnt[p] > 1 => (p \in idle' <=> p \in idle)
      BY <2>1, ReleaseLemma DEF BufsOK
    <3> QED
      BY <2>2, <2>3, <3>1
  <2>6. RefsCounted'
    <3>1. ASSUME NEW b \in Bufs
          PROVE  Refs(b)' = pktcnt'[b]
      <4>1. CASE b = p
        BY <4>1, <2>2, <2>5
      <4>2. CASE b # p
        <5>1. PICK q \in Nat : q = Refs(b)'
          BY <1>1
        <5>2. Refs(b) = q + 0
          BY <4>2, <5>1
        <5> QED
          BY <1>0, <2>5, <4>2, <5>1, <5>2
      <4> QED
        BY <4>1, <4>2
    <3> QED
      BY <3>1 DEF RefsCounted
  <2>7. OnePlace'
    <3>1. ASSUME NEW b \in Bufs
          PROVE  IsIdle(b)' \/ IsBusy(b)' \/ IsPend(b)' \/ IsHeld(b)'
      <4>1. CASE b = p
        <5>1. /\ p \notin busy' /\ Count(pend', p) = 0 /\ pktcnt'[p] = r
              /\ p \notin idle
          BY <2>4, <2>5 DEF IsHeld
        <5>2. CASE r = 0
          BY <2>5, <4>1, <5>1, <5>2 DEF IsIdle
        <5>3. CASE r > 0
          BY <2>5, <4>1, <5>1, <5>3 DEF IsHeld
        <5> QED
          BY <2>2, <5>2, <5>3
      <4>2. CASE b # p
        BY <4>2, <2>5 DEF OnePlace, IsIdle, IsBusy, IsPend, IsHeld
      <4> QED
        BY <4>1, <4>2
    <3> QED
      BY <3>1 DEF OnePlace
  <2> QED
    BY <2>6, <2>7
<1> QED
  BY <1>2, <1>3

\* phl_rx_usb: a pending buffer is held by the packets made of it, or idle again.
LEMMA TakesPendKeeps ==
    ASSUME BufsOK, PktsOK, OnePlace, RefsCounted,
           NEW b \in Bufs, NEW ps \in Seq(Ptrs), TakesPend(b, ps)
    PROVE  OnePlace' /\ RefsCounted'
<1>1. /\ pend # <<>> /\ b = Head(pend) /\ pend' = Tail(pend)
      /\ frames = <<>> /\ frames' = ps /\ UNCHANGED <<busy, ring, core>>
      /\ \A c \in Bufs : c # b => Count(ps, c) = 0
  BY DEF TakesPend
<1>2. ASSUME NEW c \in Bufs
      PROVE  /\ Count(pend', c) \in Nat
             /\ Count(pend, c) = Count(pend', c) + (IF b = c THEN 1 ELSE 0)
  <2>1. pend \in Seq(Bufs) /\ Tail(pend) \in Seq(Bufs)
    BY <1>1 DEF BufsOK
  <2> QED
    BY <1>1, <2>1, CountTail, CountType, ZenonT(60)
<1>3. IsPend(b) /\ Count(pend', b) = 0
  <2>1. PICK n \in Nat : n = Count(pend', b)
    BY <1>2
  <2>2. Count(pend, b) = n + 1
    BY <1>2, <2>1
  <2> QED
    BY <2>1, <2>2 DEF OnePlace, IsIdle, IsBusy, IsPend, IsHeld
<1>4. ASSUME NEW c \in Bufs, c # b
      PROVE  Count(pend', c) = Count(pend, c)
  BY <1>2, <1>4
<1>5. ASSUME NEW c \in Bufs
      PROVE  /\ Refs(c) = 0 + Count(ring, c) + Cardinality(Held(c))
             /\ Refs(c)' = Count(ps, c) + Count(ring, c) + Cardinality(Held(c))
             /\ Count(ring, c) \in Nat /\ Cardinality(Held(c)) \in Nat
             /\ Refs(c) = pktcnt[c]
  BY <1>1, RefsType, CountEmpty, ZenonT(60) DEF Refs, Held, RefsCounted
<1>6. Count(ps, b) \in Nat
  BY CountType, ZenonT(60)
<1>7. pktcnt[b] = 0
  BY <1>3 DEF IsPend
<1>8. Refs(b)' = Count(ps, b)
  <2>1. \A x, y, z \in Nat : 0 + x + y = 0 => z + x + y = z
    OBVIOUS
  <2> QED
    BY <1>5, <1>6, <1>7, <2>1
<1>9. ASSUME NEW c \in Bufs, c # b
      PROVE  Refs(c)' = pktcnt[c]
  BY <1>1, <1>5, <1>9
<1>10. /\ \A c \in Bufs : c # b => pktcnt'[c] = pktcnt[c] /\ (c \in idle' <=> c \in idle)
       /\ pktcnt'[b] = Count(ps, b)
       /\ Count(ps, b) = 0 => b \in idle'
       /\ Count(ps, b) > 0 => (b \in idle' <=> b \in idle)
  <2>1. CASE Count(ps, b) = 0 /\ phl_release_rxbuf_usb(b)
    <3>1. pktcnt' = pktcnt /\ idle' = idle \cup {b}
      BY <1>7, <2>1, ReleaseIdle
    <3> QED
      BY <1>7, <2>1, <3>1
  <2>2. CASE Count(ps, b) > 0 /\ pktcnt' = [pktcnt EXCEPT ![b] = Count(ps, b)] /\ idle' = idle
    BY <1>6, <2>2 DEF BufsOK
  <2> QED
    BY <2>1, <2>2 DEF TakesPend
<1>11. RefsCounted'
  BY <1>8, <1>9, <1>10 DEF RefsCounted
<1>12. ASSUME NEW c \in Bufs
       PROVE  IsIdle(c)' \/ IsBusy(c)' \/ IsPend(c)' \/ IsHeld(c)'
  <2>1. CASE c = b
    <3>1. b \notin busy' /\ b \notin idle
      BY <1>1, <1>3 DEF IsPend
    <3>2. PICK n \in Nat : n = Count(ps, b)
      BY <1>6
    <3>3. CASE n = 0
      BY <1>3, <1>10, <2>1, <3>1, <3>2, <3>3 DEF IsIdle
    <3>4. CASE n > 0
      BY <1>3, <1>10, <2>1, <3>1, <3>2, <3>4 DEF IsHeld
    <3> QED
      BY <3>3, <3>4
  <2>2. CASE c # b
    BY <1>1, <1>4, <1>10, <2>2 DEF OnePlace, IsIdle, IsBusy, IsPend, IsHeld
  <2> QED
    BY <2>1, <2>2
<1> QED
  BY <1>11, <1>12 DEF OnePlace

\* A packet that goes from one list to the next keeps its reference.
LEMMA MoveKeeps ==
    ASSUME OnePlace, RefsCounted, UNCHANGED bufs, \A b \in Bufs : Refs(b)' = Refs(b)
    PROVE  OnePlace' /\ RefsCounted'
BY DEF OnePlace, RefsCounted, IsIdle, IsBusy, IsPend, IsHeld, bufs

\* Every step keeps each buffer in one place and its packets counted.
LEMMA PlacesStep ==
    ASSUME TypeOK, PktsKept, EvInRing, Tokens, OnePlace, RefsCounted, [Next]_vars
    PROVE  OnePlace' /\ RefsCounted'
<1>0. PcOK /\ BufsOK /\ CtxOK /\ PktsOK
  BY TypeParts
<1>a. PktsOK' /\ BufsOK'
  BY PktsStep, BufsKept
<1> USE DEF usb, ctx, tasklet, event, pkts, env, vars
<1>1. CASE QuietStep
  BY <1>0, <1>1, QuietLemma, PlacesSame
<1>2. ASSUME NEW a \in Actors, InToken(a)
      PROVE  OnePlace' /\ RefsCounted'
  <2>1. UNCHANGED <<pend, pktcnt, frames, ring, core>>
    BY <1>2 DEF InToken
  <2>2. CASE UNCHANGED <<idle, busy>>
    BY <2>1, <2>2, PlacesSame DEF bufs
  <2>3. ASSUME NEW b \in idle, idle' = idle \ {b}, busy' = busy \cup {b}
        PROVE  OnePlace' /\ RefsCounted'
    <3>1. RefsCounted'
      BY <2>1 DEF RefsCounted, Refs, Held
    <3>2. IsIdle(b) /\ b \in Bufs
      BY <1>0 DEF BufsOK, OnePlace, IsIdle, IsBusy, IsPend, IsHeld
    <3>3. ASSUME NEW c \in Bufs
          PROVE  IsIdle(c)' \/ IsBusy(c)' \/ IsPend(c)' \/ IsHeld(c)'
      BY <2>1, <2>3, <3>2 DEF OnePlace, IsIdle, IsBusy, IsPend, IsHeld
    <3> QED
      BY <3>1, <3>3 DEF OnePlace
  <2> QED
    BY <1>2, <2>2, <2>3 DEF InToken, NoBuffer
<1>3. ASSUME NEW a \in Actors, rtw_usb_read_port(a)
      PROVE  OnePlace' /\ RefsCounted'
  <2>1. UNCHANGED <<pend, frames, ring, core>> /\ tok[a] \in busy
    BY <1>3 DEF rtw_usb_read_port, Tokens
  <2>2. CASE Submitted(a)
    BY <2>1, <2>2, PlacesSame DEF Submitted, bufs
  <2>3. CASE Refused(a)
    BY <1>0, <2>1, <2>3, BusyToIdle DEF Refused
  <2> QED
    BY <1>3, <2>2, <2>3 DEF rtw_usb_read_port
<1>4. CASE \E b \in Bufs, ok \in BOOLEAN : rtw_usb_read_port_complete(b, ok)
  BY <1>4, PlacesSame DEF rtw_usb_read_port_complete
<1>5. CASE phl_pend_rxbuf_usb
  <2>1. UNCHANGED <<frames, ring, core>> /\ done.buf \in busy /\ busy' = busy \ {done.buf}
    BY <1>5 DEF phl_pend_rxbuf_usb, Tokens
  <2>2. CASE UNCHANGED pend /\ phl_release_rxbuf_usb(done.buf)
    BY <1>0, <2>1, <2>2, BusyToIdle
  <2>3. CASE pend' = Append(pend, done.buf) /\ UNCHANGED <<pktcnt, idle>>
    <3>1. RefsCounted'
      BY <2>1, <2>3 DEF RefsCounted, Refs, Held
    <3>2. done.buf \in Bufs /\ IsBusy(done.buf)
      BY <1>0, <2>1 DEF BufsOK, OnePlace, IsIdle, IsBusy, IsPend, IsHeld
    <3>3. ASSUME NEW c \in Bufs
          PROVE  /\ Count(pend', c) = Count(pend, c) + (IF done.buf = c THEN 1 ELSE 0)
                 /\ Count(pend, c) \in Nat
      <4>1. pend \in Seq(Bufs)
        BY <1>0 DEF BufsOK
      <4>2. Count(Append(pend, done.buf), c) = Count(pend, c) + (IF done.buf = c THEN 1 ELSE 0)
        BY <3>2, <4>1, CountAppend
      <4>3. Count(pend, c) \in Nat
        BY <4>1, CountType, ZenonT(60)
      <4> QED
        BY <2>3, <4>2, <4>3
    <3>4. IsPend(done.buf)'
      <4>1. Count(pend, done.buf) = 0
        BY <3>2 DEF IsBusy
      <4>2. Count(pend', done.buf) = 1
        BY <3>2, <3>3, <4>1
      <4>3. /\ UNCHANGED <<pktcnt, idle>> /\ done.buf \notin idle /\ pktcnt[done.buf] = 0
            /\ done.buf \notin busy'
        BY <2>1, <2>3, <3>2 DEF IsBusy
      <4>4. PICK d : d = done.buf
        OBVIOUS
      <4>5. d \notin idle' /\ d \notin busy' /\ Count(pend', d) = 1 /\ pktcnt'[d] = 0
        BY <4>2, <4>3, <4>4
      <4>6. UNCHANGED done
        BY <1>5 DEF phl_pend_rxbuf_usb
      <4> QED
        BY <4>4, <4>5, <4>6 DEF IsPend
    <3>5. ASSUME NEW c \in Bufs, c # done.buf
          PROVE  IsIdle(c)' \/ IsBusy(c)' \/ IsPend(c)' \/ IsHeld(c)'
      <4>1. Count(pend', c) = Count(pend, c)
        BY <3>3, <3>5
      <4> QED
        BY <2>1, <2>3, <3>5, <4>1 DEF OnePlace, IsIdle, IsBusy, IsPend, IsHeld
    <3>6. UNCHANGED done
      BY <1>5 DEF phl_pend_rxbuf_usb
    <3> QED
      BY <3>1, <3>4, <3>5, <3>6 DEF OnePlace, IsPend
  <2> QED
    BY <1>5, <2>2, <2>3 DEF phl_pend_rxbuf_usb
<1>6. CASE rtw_free_dataurb
  BY <1>6, PlacesSame DEF rtw_free_dataurb
<1>7. CASE phl_rx_usb
  <2>1. CASE UNCHANGED <<bufs, frames, pkts>>
    BY <2>1, PlacesSame
  <2>2. CASE \E b \in Bufs, ps \in Seq(Ptrs) : TakesPend(b, ps)
    BY <1>0, <2>2, TakesPendKeeps
  <2> QED
    BY <1>0, <1>7, <2>1, <2>2, RxUsbLemma, ZenonT(60)
<1>8. CASE phl_rx_process_usb
  <2>1. /\ frames # <<>> /\ frames' = Tail(frames) /\ Head(frames) \in Ptrs
        /\ UNCHANGED <<busy, pend, core>>
    BY <1>0, <1>8 DEF PktsOK, phl_rx_process_usb
  <2>2. ASSUME NEW b \in Bufs
        PROVE  /\ Count(frames, b) = Count(frames', b) + (IF Head(frames) = b THEN 1 ELSE 0)
               /\ Count(frames', b) \in Nat /\ Count(ring, b) \in Nat
               /\ Cardinality(Held(b)) \in Nat /\ Held(b)' = Held(b)
    <3>1. frames \in Seq(Ptrs) /\ Tail(frames) \in Seq(Ptrs)
      BY <1>0, <2>1 DEF PktsOK
    <3>2. Count(ring, b) \in Nat /\ Cardinality(Held(b)) \in Nat
      BY <1>0, RefsType
    <3>3. Held(b)' = Held(b)
      BY <2>1 DEF Held
    <3> QED
      BY <2>1, <3>1, <3>2, <3>3, CountTail, CountType, ZenonT(60)
  <2>3. CASE ring' = Append(ring, Head(frames)) /\ UNCHANGED <<idle, pktcnt>>
    <3>1. ASSUME NEW b \in Bufs
          PROVE  Refs(b)' = Refs(b)
      <4>1. Count(ring', b) = Count(ring, b) + (IF Head(frames) = b THEN 1 ELSE 0)
        BY <1>0, <2>1, <2>3, CountAppend DEF PktsOK
      <4>2. PICK e \in Nat : e = IF Head(frames) = b THEN 1 ELSE 0
        OBVIOUS
      <4>3. PICK x \in Nat, y \in Nat, z \in Nat :
               x = Count(frames', b) /\ y = Count(ring, b) /\ z = Cardinality(Held(b))
        BY <2>2
      <4>4. /\ Refs(b)' = Count(frames', b) + Count(ring', b) + Cardinality(Held(b))
            /\ Refs(b) = Count(frames, b) + Count(ring, b) + Cardinality(Held(b))
        BY <2>2 DEF Refs
      <4>5. Count(ring', b) = y + e /\ Count(frames, b) = x + e
        BY <2>2, <4>1, <4>2, <4>3
      <4>6. x + (y + e) + z = (x + e) + y + z
        OBVIOUS
      <4> QED
        BY <4>3, <4>4, <4>5, <4>6
    <3>2. UNCHANGED bufs
      BY <2>1, <2>3 DEF bufs
    <3> QED
      BY <3>1, <3>2, MoveKeeps
  <2>4. CASE ring' = ring /\ phl_recycle_rx_buf(Head(frames))
    <3>1. ASSUME NEW b \in Bufs
          PROVE  Refs(b) = Refs(b)' + (IF Head(frames) = b THEN 1 ELSE 0)
      <4>2. PICK e \in Nat : e = IF Head(frames) = b THEN 1 ELSE 0
        OBVIOUS
      <4>3. PICK x \in Nat, y \in Nat, z \in Nat :
               x = Count(frames', b) /\ y = Count(ring, b) /\ z = Cardinality(Held(b))
        BY <2>2
      <4>4. /\ Refs(b)' = Count(frames', b) + Count(ring, b) + Cardinality(Held(b))
            /\ Refs(b) = Count(frames, b) + Count(ring, b) + Cardinality(Held(b))
        BY <2>2, <2>4 DEF Refs
      <4>5. Count(frames, b) = x + e
        BY <2>2, <4>2, <4>3
      <4>6. (x + e) + y + z = (x + y + z) + e
        OBVIOUS
      <4> QED
        BY <4>2, <4>3, <4>4, <4>5, <4>6
    <3> QED
      BY <1>0, <1>a, <2>1, <2>4, <3>1, RecycleKeeps
  <2> QED
    BY <1>8, <2>3, <2>4 DEF phl_rx_process_usb
<1>9. CASE rtw_core_rx_process
  <2>1. UNCHANGED <<bufs, frames>>
    BY <1>9 DEF rtw_core_rx_process
  <2>2. CASE UNCHANGED <<core, ring>>
    BY <2>1, <2>2, PlacesSame
  <2>3. ASSUME NEW f \in RecvFrames, core[f] = "free", ev > 0,
               core' = [core EXCEPT ![f] = Head(ring)], ring' = Tail(ring)
        PROVE  OnePlace' /\ RefsCounted'
    <3>1. ring # <<>>
      BY <2>3 DEF EvInRing, TypeOK
    <3>2. Head(ring) \in Ptrs /\ ring \in Seq(Ptrs) /\ Tail(ring) \in Seq(Ptrs)
      BY <1>0, <3>1 DEF PktsOK
    <3>3. ASSUME NEW b \in Bufs
          PROVE  Refs(b)' = Refs(b)
      <4>1. /\ Count(ring, b) = Count(ring', b) + (IF Head(ring) = b THEN 1 ELSE 0)
            /\ Count(ring', b) \in Nat
        BY <2>3, <3>1, <3>2, CountTail, CountType, ZenonT(60)
      <4>2. Cardinality(Held(b)') = Cardinality(Held(b)) + (IF Head(ring) = b THEN 1 ELSE 0)
        BY <1>0, <2>3, <3>2, CoreTake, ZenonT(60) DEF PktsOK
      <4>4. PICK e \in Nat : e = IF Head(ring) = b THEN 1 ELSE 0
        OBVIOUS
      <4>5. /\ Refs(b)' = Count(frames, b) + Count(ring', b) + Cardinality(Held(b)')
            /\ Refs(b) = Count(frames, b) + Count(ring, b) + Cardinality(Held(b))
        BY <2>1 DEF Refs
      <4>6. Count(frames, b) \in Nat /\ Cardinality(Held(b)) \in Nat
        BY <1>0, RefsType
      <4>7. PICK x \in Nat, y \in Nat, z \in Nat :
               x = Count(frames, b) /\ y = Count(ring', b) /\ z = Cardinality(Held(b))
        BY <4>1, <4>6
      <4>8. Count(ring, b) = y + e /\ Cardinality(Held(b)') = z + e
        BY <4>1, <4>2, <4>4, <4>7
      <4>9. x + y + (z + e) = x + (y + e) + z
        OBVIOUS
      <4> QED
        BY <4>5, <4>7, <4>8, <4>9
    <3> QED
      BY <2>1, <3>3, MoveKeeps
  <2> QED
    BY <1>9, <2>2, <2>3 DEF rtw_core_rx_process
<1>10. ASSUME NEW f \in RecvFrames, rtw_phl_return_rxbuf(f)
       PROVE  OnePlace' /\ RefsCounted'
  <2>1. /\ core[f] # "free" /\ core' = [core EXCEPT ![f] = "free"]
        /\ phl_recycle_rx_buf(core[f]) /\ UNCHANGED <<busy, pend, frames, ring>>
    BY <1>10 DEF rtw_phl_return_rxbuf
  <2>2. /\ core[f] \in Ptrs
        /\ \A b \in Bufs : Cardinality(Held(b)) =
                              Cardinality(Held(b)') + (IF core[f] = b THEN 1 ELSE 0)
    BY <1>0, <2>1, CoreGive, ZenonT(60) DEF PktsOK
  <2>3. ASSUME NEW b \in Bufs
        PROVE  Refs(b) = Refs(b)' + (IF core[f] = b THEN 1 ELSE 0)
    <3>1. Count(frames, b) \in Nat /\ Count(ring, b) \in Nat
      BY <1>0, RefsType
    <3>2. Cardinality(Held(b)') \in Nat
      <4>1. Held(b)' \in SUBSET RecvFrames /\ NR_RECVFRAME \in Int /\ 1 \in Int
        BY UsbRxAssumption DEF Held
      <4>2. IsFiniteSet(RecvFrames)
        BY <4>1, FS_Interval DEF RecvFrames
      <4>3. IsFiniteSet(Held(b)')
        BY <4>1, <4>2, FS_Subset
      <4> QED
        BY <4>3, FS_CardinalityType
    <3>4. PICK e \in Nat : e = IF core[f] = b THEN 1 ELSE 0
      OBVIOUS
    <3>5. /\ Refs(b)' = Count(frames, b) + Count(ring, b) + Cardinality(Held(b)')
          /\ Refs(b) = Count(frames, b) + Count(ring, b) + Cardinality(Held(b))
      BY <2>1 DEF Refs
    <3>6. PICK x \in Nat, y \in Nat, z \in Nat :
             x = Count(frames, b) /\ y = Count(ring, b) /\ z = Cardinality(Held(b)')
      BY <3>1, <3>2
    <3>7. Cardinality(Held(b)) = z + e
      BY <2>2, <3>4, <3>6
    <3>8. x + y + (z + e) = (x + y + z) + e
      OBVIOUS
    <3> QED
      BY <3>4, <3>5, <3>6, <3>7, <3>8
  <2> QED
    BY <1>0, <1>a, <2>1, <2>2, <2>3, RecycleKeeps
<1> QED
  BY <1>1, <1>2, <1>3, <1>4, <1>5, <1>6, <1>7, <1>8, <1>9, <1>10, StepSplit DEF BufStep

=============================================================================
