-------------------------- MODULE CmdToken_proofs --------------------------
(*****************************************************************************)
(* Theorems about CmdToken, for any number of requestors, any pool size, any *)
(* number of calls, with or without a stop, and whether or not the unlocked  *)
(* status words tear (SMP).                                                  *)
(*****************************************************************************)
EXTENDS CmdTokenType_proofs

\* Every step keeps control state, locals and the token count in agreement.
LEMMA PcStep == IInv /\ ~oops /\ [Next]_vars => PcInv' /\ TokenCount'
<1> SUFFICES ASSUME IInv, ~oops, [Next]_vars PROVE PcInv' /\ TokenCount'
  OBVIOUS
<1>0. /\ token_req_idle_q \in Seq(Slots) /\ token_req_wait_q \in Seq(Slots)
      /\ req \in [Slots -> Clients \cup {NULL}]
      /\ cur_cmd_req \in Slots \cup {NULL} /\ ex \in Slots \cup {NULL}
      /\ cpc \in [Clients -> CallPcs] /\ hdl \in [Clients -> Slots \cup {NULL}]
      /\ told \in [Clients -> {"none", "added", "held", "over"}]
      /\ PcInv /\ TokenCount /\ Places
  BY DEF IInv, SlotPlaces, TypeOK, ReqOK, TokOK, BkOK, CallOK
<1> USE <1>0
<1> USE NullAssumption DEF PcInv, TokenCount, reqVars, opVars, tokVars, engVars, bkVars,
                           boundVars, callVars, msgVars
<1>1. ASSUME NEW c \in Clients, AddCheck(c)
      PROVE  PcInv' /\ TokenCount'
  BY <1>1 DEF AddCheck, CallAllowed
<1>2. ASSUME NEW c \in Clients, CancelCheck(c)
      PROVE  PcInv' /\ TokenCount'
  BY <1>2 DEF CancelCheck, CallAllowed
<1>3. ASSUME NEW c \in Clients, AddFull(c)
      PROVE  PcInv' /\ TokenCount'
  BY <1>3 DEF AddFull
<1>4. ASSUME NEW c \in Clients, AddPop(c)
      PROVE  PcInv' /\ TokenCount'
  <2>1. pq_front(token_req_idle_q) \in Slots
    BY <1>4, QueueTypes DEF AddPop
  <2> QED
    BY <1>4, <2>1 DEF AddPop
<1>5. ASSUME NEW c \in Clients, AddPush(c)
      PROVE  PcInv' /\ TokenCount'
  BY <1>5 DEF AddPush
<1>6. ASSUME NEW c \in Clients, AddLoad(c)
      PROVE  PcInv' /\ TokenCount'
  BY <1>6 DEF AddLoad
<1>7. ASSUME NEW c \in Clients, AddEnq(c)
      PROVE  PcInv' /\ TokenCount'
  BY <1>7 DEF AddEnq
<1>8. ASSUME NEW c \in Clients, AddOp(c)
      PROVE  PcInv' /\ TokenCount'
  BY <1>8, Zenon DEF AddOp, CallOp
<1>9. ASSUME NEW c \in Clients, AddOpPush(c)
      PROVE  PcInv' /\ TokenCount'
  BY <1>9 DEF AddOpPush, CallOpPush
<1>10. ASSUME NEW c \in Clients, CancelSet(c)
      PROVE  PcInv' /\ TokenCount'
  BY <1>10 DEF CancelSet
<1>11. ASSUME NEW c \in Clients, CancelOp(c)
      PROVE  PcInv' /\ TokenCount'
  BY <1>11, Zenon DEF CancelOp, CallOp
<1>12. ASSUME NEW c \in Clients, CancelOpPush(c)
      PROVE  PcInv' /\ TokenCount'
  BY <1>12 DEF CancelOpPush, CallOpPush
<1>13. ASSUME NEW c \in Clients, SendEnd(c)
      PROVE  PcInv' /\ TokenCount'
  BY <1>13 DEF SendEnd
<1>14. ASSUME ShallStopCheck
      PROVE  PcInv' /\ TokenCount'
  BY <1>14 DEF ShallStopCheck, MainStep
<1>15. ASSUME ShallStopSet
      PROVE  PcInv' /\ TokenCount'
  BY <1>15 DEF ShallStopSet, MainStep
<1>16. ASSUME StopLoad
      PROVE  PcInv' /\ TokenCount'
  BY <1>16 DEF StopLoad, MainStep
<1>17. ASSUME StopClear
      PROVE  PcInv' /\ TokenCount'
  BY <1>17 DEF StopClear, MainStep
<1>18. ASSUME StopCancelAll
      PROVE  PcInv' /\ TokenCount'
  BY <1>18 DEF StopCancelAll, MainStep
<1>19. ASSUME StopThread
      PROVE  PcInv' /\ TokenCount'
  BY <1>19 DEF StopThread, MainStep
<1>20. ASSUME StopPost
      PROVE  PcInv' /\ TokenCount'
  BY <1>20 DEF StopPost, MainStep
<1>21. ASSUME BkWake
      PROVE  PcInv' /\ TokenCount'
  BY <1>21 DEF BkWake
<1>22. ASSUME BkPopOp
      PROVE  PcInv' /\ TokenCount'
  BY <1>22 DEF BkPopOp
<1>23. ASSUME BkCancelWaiting
      PROVE  PcInv' /\ TokenCount'
  <2>1. /\ UNCHANGED <<ex, cur_cmd_req, token_cnt, cpc, hdl, req>> /\ bkpc' = "rel"
        /\ bkpc = "handle"
    BY <1>23 DEF BkCancelWaiting, Abort
  <2>2. \A c \in Clients : told'[c] # "none" => told[c] # "none" \/ hdl[c] \in Slots
    <3>1. CASE UNCHANGED told
      BY <3>1
    <3>2. CASE Abort(info[1])
      BY <1>23, <3>2 DEF BkCancelWaiting, Abort
    <3> QED
      BY <1>23, <3>1, <3>2 DEF BkCancelWaiting
  <2> QED
    BY <2>1, <2>2
<1>24. ASSUME BkHandle
      PROVE  PcInv' /\ TokenCount'
  BY <1>24 DEF BkHandle
<1>25. ASSUME BkDeregister
      PROVE  PcInv' /\ TokenCount'
  BY <1>25 DEF BkDeregister, AfterDereg
<1>26. ASSUME BkRecycle
      PROVE  PcInv' /\ TokenCount'
  BY <1>26 DEF BkRecycle
<1>27. ASSUME BkGiveBack
      PROVE  PcInv' /\ TokenCount'
  BY <1>27 DEF BkGiveBack, AfterDereg
<1>28. ASSUME BkProcessRefused
      PROVE  PcInv' /\ TokenCount'
  BY <1>28 DEF BkProcessRefused
<1>29. ASSUME BkProcessIdle
      PROVE  PcInv' /\ TokenCount'
  BY <1>29 DEF BkProcessIdle
<1>30. ASSUME BkProcessNext
      PROVE  PcInv' /\ TokenCount'
  <2>1. pq_front(token_req_wait_q) \in Slots
    BY <1>30, QueueTypes DEF BkProcessNext
  <2> QED
    BY <1>30, <2>1 DEF BkProcessNext
<1>31. ASSUME BkRegister
      PROVE  PcInv' /\ TokenCount'
  <2>1. ex \in Slots /\ cur_cmd_req = NULL
    BY <1>31 DEF BkRegister, Places
  <2>2. /\ bkpc' = "acq" /\ ex' = NULL /\ cur_cmd_req' = ex /\ token_cnt' = token_cnt + 1
        /\ UNCHANGED <<cpc, hdl, told, req>>
    BY <1>31 DEF BkRegister
  <2>3. PcInv'
    BY <2>1, <2>2
  <2>4. TokenCount'
    BY <2>1, <2>2 DEF TokenCount
  <2> QED
    BY <2>3, <2>4
<1>32. ASSUME BkAcquired
      PROVE  PcInv' /\ TokenCount'
  BY <1>32 DEF BkAcquired
<1>33. ASSUME BkRelease
      PROVE  PcInv' /\ TokenCount'
  BY <1>33 DEF BkRelease
<1>34. ASSUME BkMsgNone
      PROVE  PcInv' /\ TokenCount'
  BY <1>34 DEF BkMsgNone
<1>35. ASSUME BkMsgAbort
      PROVE  PcInv' /\ TokenCount'
  BY <1>35 DEF BkMsgAbort
<1>36. ASSUME BkMsgEnd
      PROVE  PcInv' /\ TokenCount'
  BY <1>36 DEF BkMsgEnd
<1>37. ASSUME BkFree
      PROVE  PcInv' /\ TokenCount'
  BY <1>37 DEF BkFree
<1>38. ASSUME BkClearMsg
      PROVE  PcInv' /\ TokenCount'
  BY <1>38 DEF BkClearMsg
<1>39. ASSUME BkClearReq
      PROVE  PcInv' /\ TokenCount'
  <2>1. pq_front(token_req_wait_q) \in Slots
    BY <1>39, QueueTypes DEF BkClearReq
  <2> QED
    BY <1>39, <2>1 DEF BkClearReq, Abort
<1>40. ASSUME BkExit
      PROVE  PcInv' /\ TokenCount'
  BY <1>40 DEF BkExit
<1>41. CASE UNCHANGED vars
  BY <1>41 DEF vars
<1>42. CASE Bk
  BY <1>42, <1>21, <1>22, <1>23, <1>24, <1>25, <1>26, <1>27, <1>28, <1>29, <1>30,
     <1>31, <1>32, <1>33, <1>34, <1>35, <1>36, <1>37, <1>38, <1>39, <1>40, Zenon
     DEF Bk, BkStep
<1>43. CASE Main
  BY <1>43, <1>14, <1>15, <1>16, <1>17, <1>18, <1>19, <1>20 DEF Main
<1>44. ASSUME NEW c \in Clients, Requestor(c)
       PROVE  PcInv' /\ TokenCount'
  BY <1>44, <1>1, <1>2, <1>3, <1>4, <1>5, <1>6, <1>7, <1>8, <1>9, <1>10, <1>11, <1>12,
     <1>13, Zenon DEF Requestor, InCall
<1> QED
  BY <1>41, <1>42, <1>43, <1>44 DEF Next, Halted

\* Places depends on the two queues, on who is adding, and on what the
\* background thread has in hand.
LEMMA PlacesKept ==
    ASSUME Places,
           UNCHANGED <<token_req_idle_q, token_req_wait_q, ex, cur_cmd_req>>,
           bkpc' = "dereg3" <=> bkpc = "dereg3",
           \A c \in Clients : /\ hdl'[c] = hdl[c]
                              /\ cpc'[c] = "addPush" <=> cpc[c] = "addPush"
    PROVE  Places'
<1>1. \A s \in Slots : Current(s)' <=> Current(s)
  BY DEF Current
<1>2. \A c \in Clients, s \in Slots : Adding(c, s)' <=> Adding(c, s)
  BY DEF Adding
<1> QED
  BY <1>1, <1>2 DEF Places

\* A slot that was nowhere and is queued is linked in that queue once (pq_push).
LEMMA PlacesPush ==
    \A q \in Seq(Slots), x \in Slots :
        NoDup(q) /\ ~Linked(q, x) =>
            /\ \A y : Linked(pq_push(q, x), y) <=> (Linked(q, y) \/ y = x)
            /\ NoDup(pq_push(q, x))
  BY PushLemma

\* Every step leaves every slot in exactly one place.
LEMMA PlacesStep == IInv /\ ~oops /\ [Next]_vars => SlotPlaces'
<1> SUFFICES ASSUME IInv, ~oops, [Next]_vars PROVE SlotPlaces'
  OBVIOUS
<1>0. /\ token_req_idle_q \in Seq(Slots) /\ token_req_wait_q \in Seq(Slots)
      /\ cur_cmd_req \in Slots \cup {NULL} /\ ex \in Slots \cup {NULL}
      /\ cpc \in [Clients -> CallPcs] /\ hdl \in [Clients -> Slots \cup {NULL}]
      /\ PcInv /\ TokenCount /\ Places
  BY DEF IInv, SlotPlaces, TypeOK, ReqOK, TokOK, BkOK, CallOK
<1> USE <1>0
<1> USE NullAssumption DEF PcInv, reqVars, opVars, tokVars, engVars, bkVars, boundVars,
                           callVars, msgVars
<1>1. ASSUME NEW c \in Clients, AddCheck(c)
      PROVE  Places'
  BY <1>1, PlacesKept DEF AddCheck, CallAllowed
<1>2. ASSUME NEW c \in Clients, CancelCheck(c)
      PROVE  Places'
  BY <1>2, PlacesKept DEF CancelCheck, CallAllowed
<1>3. ASSUME NEW c \in Clients, AddFull(c)
      PROVE  Places'
  BY <1>3, PlacesKept DEF AddFull
<1>4. ASSUME NEW c \in Clients, AddPop(c)
      PROVE  Places'
  <2> DEFINE x == pq_front(token_req_idle_q)
  <2>1. /\ x \in Slots
        /\ \A y : Linked(token_req_idle_q, y) <=> (Linked(token_req_idle_q', y) \/ y = x)
        /\ NoDup(token_req_idle_q') /\ ~Linked(token_req_idle_q', x)
    BY <1>4, PopLemma, Zenon DEF AddPop, Places
  <2>2. \A d \in Clients, s \in Slots :
           Adding(d, s)' <=> (Adding(d, s) \/ (d = c /\ s = x))
    BY <1>4, <2>1 DEF AddPop, Adding
  <2>3. \A s \in Slots : ~Adding(c, s)
    BY <1>4 DEF AddPop, Adding
  <2>4. \A s \in Slots : Current(s)' <=> Current(s)
    BY <1>4 DEF AddPop, Current
  <2>5. UNCHANGED <<token_req_wait_q, ex, cur_cmd_req>>
    BY <1>4 DEF AddPop
  <2>6. /\ Linked(token_req_idle_q, x) /\ ~Linked(token_req_wait_q, x)
        /\ ex # x /\ ~Current(x) /\ \A d \in Clients : ~Adding(d, x)
    BY <2>1 DEF Places
  <2>7. ASSUME NEW s \in Slots, s # x
        PROVE  /\ Linked(token_req_idle_q', s) <=> Linked(token_req_idle_q, s)
               /\ \A d \in Clients : Adding(d, s)' <=> Adding(d, s)
    BY <2>1, <2>2, <2>7
  <2>8. \A s \in Slots : s = x => \A d \in Clients : Adding(d, s)' <=> d = c
    BY <2>2, <2>6
  <2> QED
    BY <2>1, <2>4, <2>5, <2>6, <2>7, <2>8 DEF Places
<1>5. ASSUME NEW c \in Clients, AddPush(c)
      PROVE  Places'
  <2> DEFINE x == hdl[c]
  <2>1. x \in Slots /\ Adding(c, x)
    BY <1>5 DEF AddPush, Adding
  <2>2. ~Linked(token_req_idle_q, x) /\ ~Linked(token_req_wait_q, x)
    BY <2>1 DEF Places
  <2>3. /\ \A y : Linked(token_req_wait_q', y) <=> (Linked(token_req_wait_q, y) \/ y = x)
        /\ NoDup(token_req_wait_q')
    <3>1. token_req_wait_q' = pq_push(token_req_wait_q, x)
      BY <1>5 DEF AddPush
    <3> QED
      BY <2>1, <2>2, <3>1, PlacesPush DEF Places
  <2>4. \A d \in Clients, s \in Slots :
           Adding(d, s)' <=> (Adding(d, s) /\ s # x)
    BY <1>5, <2>1 DEF AddPush, Adding, Places
  <2>5. \A s \in Slots : Current(s)' <=> Current(s)
    BY <1>5 DEF AddPush, Current
  <2>6. UNCHANGED <<token_req_idle_q, ex, cur_cmd_req>>
    BY <1>5 DEF AddPush
  <2> QED
    BY <2>1, <2>2, <2>3, <2>4, <2>5, <2>6 DEF Places
<1>6. ASSUME NEW c \in Clients, AddLoad(c)
      PROVE  Places'
  BY <1>6, PlacesKept DEF AddLoad
<1>7. ASSUME NEW c \in Clients, AddEnq(c)
      PROVE  Places'
  BY <1>7, PlacesKept DEF AddEnq
<1>8. ASSUME NEW c \in Clients, AddOp(c)
      PROVE  Places'
  BY <1>8, PlacesKept DEF AddOp, CallOp
<1>9. ASSUME NEW c \in Clients, AddOpPush(c)
      PROVE  Places'
  BY <1>9, PlacesKept DEF AddOpPush, CallOpPush
<1>10. ASSUME NEW c \in Clients, CancelSet(c)
      PROVE  Places'
  BY <1>10, PlacesKept DEF CancelSet
<1>11. ASSUME NEW c \in Clients, CancelOp(c)
      PROVE  Places'
  BY <1>11, PlacesKept DEF CancelOp, CallOp
<1>12. ASSUME NEW c \in Clients, CancelOpPush(c)
      PROVE  Places'
  BY <1>12, PlacesKept DEF CancelOpPush, CallOpPush
<1>13. ASSUME NEW c \in Clients, SendEnd(c)
      PROVE  Places'
  BY <1>13, PlacesKept DEF SendEnd
<1>14. ASSUME ShallStopCheck
      PROVE  Places'
  BY <1>14, PlacesKept DEF ShallStopCheck, MainStep
<1>15. ASSUME ShallStopSet
      PROVE  Places'
  BY <1>15, PlacesKept DEF ShallStopSet, MainStep
<1>16. ASSUME StopLoad
      PROVE  Places'
  BY <1>16, PlacesKept DEF StopLoad, MainStep
<1>17. ASSUME StopClear
      PROVE  Places'
  BY <1>17, PlacesKept DEF StopClear, MainStep
<1>18. ASSUME StopCancelAll
      PROVE  Places'
  BY <1>18, PlacesKept DEF StopCancelAll, MainStep
<1>19. ASSUME StopThread
      PROVE  Places'
  BY <1>19, PlacesKept DEF StopThread, MainStep
<1>20. ASSUME StopPost
      PROVE  Places'
  BY <1>20, PlacesKept DEF StopPost, MainStep
<1>21. ASSUME BkWake
      PROVE  Places'
  BY <1>21, PlacesKept DEF BkWake
<1>22. ASSUME BkPopOp
      PROVE  Places'
  BY <1>22, PlacesKept DEF BkPopOp
<1>23. ASSUME BkCancelWaiting
      PROVE  SlotPlaces'
  <2> DEFINE x == info[1]
  <2>1. \A s \in Slots : Current(s)' <=> Current(s)
    BY <1>23 DEF BkCancelWaiting, Current
  <2>2. \A d \in Clients, s \in Slots : Adding(d, s)' <=> Adding(d, s)
    BY <1>23 DEF BkCancelWaiting, Adding
  <2>3. UNCHANGED <<ex, cur_cmd_req>>
    BY <1>23 DEF BkCancelWaiting
  <2>4. CASE Linked(token_req_wait_q, x)
    <3>1. x \in Slots /\ ~Linked(token_req_idle_q, x)
      <4>1. x \in Slots
        BY <2>4 DEF Linked
      <4> QED
        BY <2>4, <4>1 DEF Places
    <3>2. /\ token_req_wait_q' = pq_del_node(token_req_wait_q, x)
          /\ token_req_idle_q' = pq_push(token_req_idle_q, x)
      BY <1>23, <2>4 DEF BkCancelWaiting, Abort
    <3>3. /\ \A y : Linked(token_req_wait_q', y) <=> (Linked(token_req_wait_q, y) /\ y # x)
          /\ NoDup(token_req_wait_q')
      BY <2>4, <3>2, DelLemma DEF Places
    <3>4. /\ \A y : Linked(token_req_idle_q', y) <=> (Linked(token_req_idle_q, y) \/ y = x)
          /\ NoDup(token_req_idle_q')
      BY <3>1, <3>2, PlacesPush DEF Places
    <3>5. Places'
      BY <2>1, <2>2, <2>3, <2>4, <3>1, <3>3, <3>4 DEF Places
    <3> QED
      BY <3>5 DEF SlotPlaces
  <2>5. CASE ~Linked(token_req_wait_q, x)
    BY <1>23, <2>5 DEF BkCancelWaiting, SlotPlaces
  <2> QED
    BY <2>4, <2>5
<1>24. ASSUME BkHandle
      PROVE  Places'
  BY <1>24, PlacesKept DEF BkHandle
<1>25. ASSUME BkDeregister
      PROVE  Places'
  BY <1>25, PlacesKept DEF BkDeregister, AfterDereg
<1>26. ASSUME BkRecycle
      PROVE  Places'
  <2> DEFINE x == cur_cmd_req
  <2>1. x \in Slots /\ Current(x)
    BY <1>26 DEF BkRecycle, Current
  <2>2. ~Linked(token_req_idle_q, x)
    BY <2>1 DEF Places
  <2>3. /\ \A y : Linked(token_req_idle_q', y) <=> (Linked(token_req_idle_q, y) \/ y = x)
        /\ NoDup(token_req_idle_q')
    <3>1. token_req_idle_q' = pq_push(token_req_idle_q, x)
      BY <1>26 DEF BkRecycle
    <3>2. NoDup(token_req_idle_q)
      BY DEF Places
    <3> QED
      BY <2>1, <2>2, <3>1, <3>2, PlacesPush
  <2>4. \A s \in Slots : ~Current(s)' /\ (Current(s) => s = x)
    BY <1>26 DEF BkRecycle, Current
  <2>5. \A d \in Clients, s \in Slots : Adding(d, s)' <=> Adding(d, s)
    BY <1>26 DEF BkRecycle, Adding
  <2>6. UNCHANGED <<token_req_wait_q, ex, cur_cmd_req>> /\ ex = NULL
    BY <1>26 DEF BkRecycle
  <2> QED
    BY <2>1, <2>2, <2>3, <2>4, <2>5, <2>6 DEF Places
<1>27. ASSUME BkGiveBack
      PROVE  Places'
  <2>1. \A s \in Slots : ~Current(s)' /\ ~Current(s)
    BY <1>27 DEF BkGiveBack, Current
  <2>2. \A d \in Clients, s \in Slots : Adding(d, s)' <=> Adding(d, s)
    BY <1>27 DEF BkGiveBack, Adding
  <2>3. UNCHANGED <<token_req_idle_q, token_req_wait_q, ex>> /\ ex = NULL
    BY <1>27 DEF BkGiveBack
  <2> QED
    BY <2>1, <2>2, <2>3 DEF Places
<1>28. ASSUME BkProcessRefused
      PROVE  Places'
  BY <1>28, PlacesKept DEF BkProcessRefused
<1>29. ASSUME BkProcessIdle
      PROVE  Places'
  BY <1>29, PlacesKept DEF BkProcessIdle
<1>30. ASSUME BkProcessNext
      PROVE  Places'
  <2> DEFINE x == pq_front(token_req_wait_q)
  <2>1. /\ x \in Slots /\ Linked(token_req_wait_q, x)
        /\ \A y : Linked(token_req_wait_q, y) <=> (Linked(token_req_wait_q', y) \/ y = x)
        /\ NoDup(token_req_wait_q') /\ ~Linked(token_req_wait_q', x)
    BY <1>30, PopLemma, Zenon DEF BkProcessNext, Places
  <2>2. cur_cmd_req = NULL /\ ex = NULL /\ ex' = x
    <3>1. token_cnt = 0 /\ bkpc = "proc" /\ ex' = x
      BY <1>30 DEF BkProcessNext, MayRegister
    <3>2. cur_cmd_req = NULL
      BY <3>1 DEF TokenCount
    <3>3. ex = NULL
      BY <3>1
    <3> QED
      BY <3>1, <3>2, <3>3
  <2>3. UNCHANGED <<token_req_idle_q, cur_cmd_req>>
    BY <1>30 DEF BkProcessNext
  <2>4. \A s \in Slots : ~Current(s)' /\ ~Current(s)
    BY <2>2, <2>3 DEF Current
  <2>5. \A d \in Clients, s \in Slots : Adding(d, s)' <=> Adding(d, s)
    BY <1>30 DEF BkProcessNext, Adding
  <2> QED
    BY <2>1, <2>2, <2>3, <2>4, <2>5 DEF Places
<1>31. ASSUME BkRegister
      PROVE  Places'
  <2>1. ex \in Slots /\ ex' = NULL /\ cur_cmd_req' = ex
    BY <1>31 DEF BkRegister
  <2>2. cur_cmd_req = NULL
    BY <2>1 DEF Places
  <2>3. \A s \in Slots : (Current(s)' <=> s = ex) /\ ~Current(s)
    BY <1>31, <2>1, <2>2 DEF BkRegister, Current
  <2>4. \A d \in Clients, s \in Slots : Adding(d, s)' <=> Adding(d, s)
    BY <1>31 DEF BkRegister, Adding
  <2>5. UNCHANGED <<token_req_idle_q, token_req_wait_q>>
    BY <1>31 DEF BkRegister
  <2> QED
    BY <2>1, <2>2, <2>3, <2>4, <2>5 DEF Places
<1>32. ASSUME BkAcquired
      PROVE  Places'
  BY <1>32, PlacesKept DEF BkAcquired
<1>33. ASSUME BkRelease
      PROVE  Places'
  BY <1>33, PlacesKept DEF BkRelease
<1>34. ASSUME BkMsgNone
      PROVE  Places'
  BY <1>34, PlacesKept DEF BkMsgNone
<1>35. ASSUME BkMsgAbort
      PROVE  Places'
  BY <1>35, PlacesKept DEF BkMsgAbort
<1>36. ASSUME BkMsgEnd
      PROVE  Places'
  BY <1>36, PlacesKept DEF BkMsgEnd
<1>37. ASSUME BkFree
      PROVE  Places'
  BY <1>37, PlacesKept DEF BkFree
<1>38. ASSUME BkClearMsg
      PROVE  Places'
  BY <1>38, PlacesKept DEF BkClearMsg
<1>39. ASSUME BkClearReq
      PROVE  Places'
  <2> DEFINE x == pq_front(token_req_wait_q)
  <2>1. /\ x \in Slots /\ Linked(token_req_wait_q, x)
        /\ \A y : Linked(token_req_wait_q, y) <=> (Linked(token_req_wait_q', y) \/ y = x)
        /\ NoDup(token_req_wait_q') /\ ~Linked(token_req_wait_q', x)
    BY <1>39, PopLemma, Zenon DEF BkClearReq, Places
  <2>2. ~Linked(token_req_idle_q, x)
    BY <2>1 DEF Places
  <2>3. /\ \A y : Linked(token_req_idle_q', y) <=> (Linked(token_req_idle_q, y) \/ y = x)
        /\ NoDup(token_req_idle_q')
    <3>1. token_req_idle_q' = pq_push(token_req_idle_q, x)
      BY <1>39, Zenon DEF BkClearReq, Abort
    <3> QED
      BY <2>1, <2>2, <3>1, PlacesPush DEF Places
  <2>4. \A s \in Slots : Current(s)' <=> Current(s)
    BY <1>39 DEF BkClearReq, Current
  <2>5. \A d \in Clients, s \in Slots : Adding(d, s)' <=> Adding(d, s)
    BY <1>39 DEF BkClearReq, Adding
  <2>6. UNCHANGED <<ex, cur_cmd_req>>
    BY <1>39 DEF BkClearReq
  <2> QED
    BY <2>1, <2>2, <2>3, <2>4, <2>5, <2>6 DEF Places
<1>40. ASSUME BkExit
      PROVE  Places'
  BY <1>40, PlacesKept DEF BkExit
<1>41. CASE UNCHANGED vars
  BY <1>41, PlacesKept DEF vars, SlotPlaces
<1>42. CASE Bk
  BY <1>42, <1>21, <1>22, <1>23, <1>24, <1>25, <1>26, <1>27, <1>28, <1>29, <1>30,
     <1>31, <1>32, <1>33, <1>34, <1>35, <1>36, <1>37, <1>38, <1>39, <1>40
     DEF Bk, BkStep, SlotPlaces
<1>43. CASE Main
  BY <1>43, <1>14, <1>15, <1>16, <1>17, <1>18, <1>19, <1>20 DEF Main, SlotPlaces
<1>44. ASSUME NEW c \in Clients, Requestor(c)
       PROVE  SlotPlaces'
  BY <1>44, <1>1, <1>2, <1>3, <1>4, <1>5, <1>6, <1>7, <1>8, <1>9, <1>10, <1>11, <1>12,
     <1>13, Zenon DEF Requestor, InCall, SlotPlaces
<1> QED
  BY <1>41, <1>42, <1>43, <1>44 DEF Next, Halted

\* A step of the threads as the token service FgToken sees it.
FgStep == [Fg!Next]_<<token_req_wait_q, FgOwner>>

\* Every step of a thread is a step of FgToken or leaves its state as it is.
LEMMA RefinementStep == IInv /\ ~oops /\ [Next]_vars => FgStep
<1> SUFFICES ASSUME IInv, ~oops, [Next]_vars PROVE FgStep
  OBVIOUS
<1>0. /\ token_req_idle_q \in Seq(Slots) /\ token_req_wait_q \in Seq(Slots)
      /\ cur_cmd_req \in Slots \cup {NULL} /\ ex \in Slots \cup {NULL}
      /\ cpc \in [Clients -> CallPcs] /\ hdl \in [Clients -> Slots \cup {NULL}]
      /\ PcInv /\ TokenCount /\ Places
  BY DEF IInv, SlotPlaces, TypeOK, ReqOK, TokOK, BkOK, CallOK
<1> USE <1>0
<1> USE NullAssumption DEF FgStep, PcInv, reqVars, opVars, tokVars, engVars, bkVars,
                           boundVars, callVars, msgVars
<1>1. ASSUME NEW c \in Clients, AddCheck(c)
      PROVE  FgStep
  BY <1>1 DEF FgOwner, AddCheck, CallAllowed
<1>2. ASSUME NEW c \in Clients, CancelCheck(c)
      PROVE  FgStep
  BY <1>2 DEF FgOwner, CancelCheck, CallAllowed
<1>3. ASSUME NEW c \in Clients, AddFull(c)
      PROVE  FgStep
  BY <1>3 DEF FgOwner, AddFull
<1>4. ASSUME NEW c \in Clients, AddPop(c)
      PROVE  FgStep
  BY <1>4 DEF FgOwner, AddPop
<1>5. ASSUME NEW c \in Clients, AddPush(c)
      PROVE  FgStep
  <2> DEFINE x == hdl[c]
  <2>1. x \in Slots /\ Adding(c, x)
    BY <1>5 DEF AddPush, Adding
  <2>2. x # FgOwner /\ ~Linked(token_req_wait_q, x)
    BY <2>1 DEF Places, FgOwner, Current
  <2>3. token_req_wait_q' = Append(token_req_wait_q, x)
    BY <1>5 DEF AddPush, pq_push
  <2>4. UNCHANGED FgOwner
    BY <1>5 DEF AddPush, FgOwner
  <2> QED
    BY <2>1, <2>2, <2>3, <2>4 DEF Fg!Next, Fg!Enter, Linked
<1>6. ASSUME NEW c \in Clients, AddLoad(c)
      PROVE  FgStep
  BY <1>6 DEF FgOwner, AddLoad
<1>7. ASSUME NEW c \in Clients, AddEnq(c)
      PROVE  FgStep
  BY <1>7 DEF FgOwner, AddEnq
<1>8. ASSUME NEW c \in Clients, AddOp(c)
      PROVE  FgStep
  BY <1>8 DEF FgOwner, AddOp, CallOp
<1>9. ASSUME NEW c \in Clients, AddOpPush(c)
      PROVE  FgStep
  BY <1>9 DEF FgOwner, AddOpPush, CallOpPush
<1>10. ASSUME NEW c \in Clients, CancelSet(c)
      PROVE  FgStep
  BY <1>10 DEF FgOwner, CancelSet
<1>11. ASSUME NEW c \in Clients, CancelOp(c)
      PROVE  FgStep
  BY <1>11 DEF FgOwner, CancelOp, CallOp
<1>12. ASSUME NEW c \in Clients, CancelOpPush(c)
      PROVE  FgStep
  BY <1>12 DEF FgOwner, CancelOpPush, CallOpPush
<1>13. ASSUME NEW c \in Clients, SendEnd(c)
      PROVE  FgStep
  BY <1>13 DEF FgOwner, SendEnd
<1>14. ASSUME ShallStopCheck
      PROVE  FgStep
  BY <1>14 DEF FgOwner, ShallStopCheck, MainStep
<1>15. ASSUME ShallStopSet
      PROVE  FgStep
  BY <1>15 DEF FgOwner, ShallStopSet, MainStep
<1>16. ASSUME StopLoad
      PROVE  FgStep
  BY <1>16 DEF FgOwner, StopLoad, MainStep
<1>17. ASSUME StopClear
      PROVE  FgStep
  BY <1>17 DEF FgOwner, StopClear, MainStep
<1>18. ASSUME StopCancelAll
      PROVE  FgStep
  BY <1>18 DEF FgOwner, StopCancelAll, MainStep
<1>19. ASSUME StopThread
      PROVE  FgStep
  BY <1>19 DEF FgOwner, StopThread, MainStep
<1>20. ASSUME StopPost
      PROVE  FgStep
  BY <1>20 DEF FgOwner, StopPost, MainStep
<1>21. ASSUME BkWake
      PROVE  FgStep
  BY <1>21 DEF FgOwner, BkWake
<1>22. ASSUME BkPopOp
      PROVE  FgStep
  BY <1>22 DEF FgOwner, BkPopOp
<1>23. ASSUME BkCancelWaiting
      PROVE  FgStep
  <2>1. UNCHANGED FgOwner
    BY <1>23 DEF BkCancelWaiting, FgOwner
  <2>2. CASE Linked(token_req_wait_q, info[1])
    <3>1. token_req_wait_q' = pq_del_node(token_req_wait_q, info[1])
      BY <1>23, <2>2 DEF BkCancelWaiting
    <3> QED
      BY <2>1, <2>2, <3>1, DelLemma, Zenon DEF Places, Fg!Next, Fg!Withdraw
  <2>3. CASE ~Linked(token_req_wait_q, info[1])
    BY <1>23, <2>1, <2>3 DEF BkCancelWaiting
  <2> QED
    BY <2>2, <2>3
<1>24. ASSUME BkHandle
      PROVE  FgStep
  BY <1>24 DEF FgOwner, BkHandle
<1>25. ASSUME BkDeregister
      PROVE  FgStep
  BY <1>25 DEF FgOwner, BkDeregister, AfterDereg
<1>26. ASSUME BkRecycle
      PROVE  FgStep
  <2>1. FgOwner # NULL /\ FgOwner' = NULL
    BY <1>26 DEF BkRecycle, FgOwner
  <2>2. UNCHANGED token_req_wait_q
    BY <1>26 DEF BkRecycle
  <2> QED
    BY <2>1, <2>2 DEF Fg!Next, Fg!Leave
<1>27. ASSUME BkGiveBack
      PROVE  FgStep
  BY <1>27 DEF BkGiveBack, FgOwner, AfterDereg
<1>28. ASSUME BkProcessRefused
      PROVE  FgStep
  BY <1>28 DEF FgOwner, BkProcessRefused
<1>29. ASSUME BkProcessIdle
      PROVE  FgStep
  BY <1>29 DEF FgOwner, BkProcessIdle
<1>30. ASSUME BkProcessNext
      PROVE  FgStep
  <2>1. FgOwner = NULL
    BY <1>30 DEF BkProcessNext, MayRegister, TokenCount, FgOwner
  <2>2. token_req_wait_q # <<>> /\ pq_front(token_req_wait_q) \in Slots
    BY <1>30, QueueTypes DEF BkProcessNext
  <2>3. ex' = Head(token_req_wait_q) /\ token_req_wait_q' = Tail(token_req_wait_q)
    BY <1>30 DEF BkProcessNext, pq_front, pq_pop
  <2>4. FgOwner' = Head(token_req_wait_q)
    BY <2>2, <2>3 DEF FgOwner, pq_front
  <2> QED
    BY <2>1, <2>2, <2>3, <2>4 DEF Fg!Next, Fg!Take
<1>31. ASSUME BkRegister
      PROVE  FgStep
  <2>1. UNCHANGED FgOwner
    BY <1>31 DEF BkRegister, FgOwner
  <2> QED
    BY <1>31, <2>1 DEF BkRegister
<1>32. ASSUME BkAcquired
      PROVE  FgStep
  BY <1>32 DEF FgOwner, BkAcquired
<1>33. ASSUME BkRelease
      PROVE  FgStep
  BY <1>33 DEF FgOwner, BkRelease
<1>34. ASSUME BkMsgNone
      PROVE  FgStep
  BY <1>34 DEF FgOwner, BkMsgNone
<1>35. ASSUME BkMsgAbort
      PROVE  FgStep
  BY <1>35 DEF FgOwner, BkMsgAbort
<1>36. ASSUME BkMsgEnd
      PROVE  FgStep
  BY <1>36 DEF FgOwner, BkMsgEnd
<1>37. ASSUME BkFree
      PROVE  FgStep
  BY <1>37 DEF FgOwner, BkFree
<1>38. ASSUME BkClearMsg
      PROVE  FgStep
  BY <1>38 DEF FgOwner, BkClearMsg
<1>39. ASSUME BkClearReq
      PROVE  FgStep
  <2>1. token_req_wait_q # <<>> /\ token_req_wait_q' = pq_pop(token_req_wait_q)
    BY <1>39 DEF BkClearReq
  <2>2. UNCHANGED FgOwner
    BY <1>39 DEF BkClearReq, FgOwner
  <2> QED
    BY <2>1, <2>2, FirstLemma, Zenon DEF Fg!Next, Fg!Withdraw
<1>40. ASSUME BkExit
      PROVE  FgStep
  BY <1>40 DEF FgOwner, BkExit
<1>41. CASE UNCHANGED vars
  BY <1>41 DEF vars, FgOwner
<1>42. CASE Bk
  BY <1>42, <1>21, <1>22, <1>23, <1>24, <1>25, <1>26, <1>27, <1>28, <1>29, <1>30,
     <1>31, <1>32, <1>33, <1>34, <1>35, <1>36, <1>37, <1>38, <1>39, <1>40
     DEF Bk, BkStep
<1>43. CASE Main
  BY <1>43, <1>14, <1>15, <1>16, <1>17, <1>18, <1>19, <1>20 DEF Main
<1>44. ASSUME NEW c \in Clients, Requestor(c)
       PROVE  FgStep
  BY <1>44, <1>1, <1>2, <1>3, <1>4, <1>5, <1>6, <1>7, <1>8, <1>9, <1>10, <1>11, <1>12,
     <1>13 DEF Requestor, InCall
<1> QED
  BY <1>41, <1>42, <1>43, <1>44 DEF Next, Halted

\* The invariant is about the variables only.
LEMMA IInvKept == IInv /\ UNCHANGED vars => IInv'
<1> SUFFICES ASSUME IInv, UNCHANGED vars PROVE IInv'
  OBVIOUS
<1>1. TypeOK'
  BY KeptTypes DEF vars, IInv, TypeOK
<1>2. PcInv' /\ TokenCount'
  BY DEF vars, IInv, PcInv, TokenCount, reqVars, tokVars, bkVars, callVars
<1>3. SlotPlaces'
  <2>1. CASE oops
    BY <2>1 DEF vars, SlotPlaces
  <2>2. CASE Places
    BY <2>2, PlacesKept DEF vars, reqVars, tokVars, bkVars, callVars, SlotPlaces
  <2> QED
    BY <2>1, <2>2 DEF IInv, SlotPlaces
<1> QED
  BY <1>1, <1>2, <1>3 DEF IInv

\* Every reachable state satisfies the inductive invariant.
THEOREM Invariance == Spec => []IInv
<1>1. IInv /\ [Next]_vars => IInv'
  <2>1. IInv /\ ~oops /\ [Next]_vars => IInv'
    BY TypeStep, PcStep, PlacesStep DEF IInv
  <2>2. IInv /\ UNCHANGED vars => IInv'
    BY IInvKept
  <2> QED
    BY <2>1, <2>2, OopsStep
<1> QED
  BY InitInv, <1>1, PTL DEF Spec

\* The threads' variables always have their types: no counter goes below zero, no
\* queue holds anything but slots or infos, in any interleaving.
THEOREM TypeCorrect == Spec => []TypeOK
<1>1. IInv => TypeOK
  BY DEF IInv
<1> QED
  BY Invariance, <1>1, PTL

\* No request slot is lost or handed out twice (pop_front_idle_req,
\* push_back_idle_req, push_back_wait_req, clear_wating_req): for every pool size.
THEOREM SlotsConserved == Spec => []SlotPlaces
<1>1. IInv => SlotPlaces
  BY DEF IInv
<1> QED
  BY Invariance, <1>1, PTL

\* token_cnt is one exactly while there is a current request, whatever races.
THEOREM TokenCounted == Spec => []TokenCount
<1>1. IInv => TokenCount
  BY DEF IInv
<1> QED
  BY Invariance, <1>1, PTL

\* The dispatcher implements the first-come, first-served token service.
THEOREM Refinement == Spec => FgTokenSpec
<1>1. Init => Fg!Init
  BY DEF Init, Fg!Init, FgOwner
<1>2. IInv /\ [Next]_vars => [Fg!Next]_<<token_req_wait_q, FgOwner>>
  <2>1. UNCHANGED vars => UNCHANGED <<token_req_wait_q, FgOwner>>
    BY DEF vars, reqVars, tokVars, bkVars, FgOwner
  <2> QED
    BY <2>1, RefinementStep, OopsStep DEF FgStep
<1> QED
  BY <1>1, <1>2, Invariance, PTL DEF Spec, FgTokenSpec, Fg!Spec
=============================================================================
