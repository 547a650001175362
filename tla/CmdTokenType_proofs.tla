-------------------------- MODULE CmdTokenType_proofs --------------------------
(*****************************************************************************)
(* The inductive invariant of CmdToken, and the proof that every step keeps the*)
(* types: for any number of requestors, any pool size, any number of calls, with*)
(* or without a stop, and whether or not the unlocked status words tear (SMP).*)
(*****************************************************************************)
EXTENDS CmdToken, PhlQueue_proofs

\* Control state and locals of the background thread and of the requestors agree
\* with what they hold: the invariant that makes SlotPlaces and TokenCount
\* inductive.
PcInv ==
    /\ (bkpc = "reg") <=> (ex # NULL)
    /\ bkpc \in {"acq", "dereg2", "dereg3", "free"} => cur_cmd_req # NULL
    /\ bkpc \in {"clrmsg", "clrreq", "exited"} => cur_cmd_req = NULL
    /\ \A c \in Clients :
          cpc[c] \notin {"rdy", "addPop"} \/ told[c] # "none" => hdl[c] \in Slots
    /\ \A s \in Slots : req[s] # NULL => hdl[req[s]] \in Slots

IInv == TypeOK /\ PcInv /\ TokenCount /\ SlotPlaces

\* The operation infos embedded in a request (struct phl_cmd_token_req_ex) and the
\* dispatcher's renew_req_info are infos.
LEMMA InfosLemma ==
    /\ \A s \in Slots : AddInfo(s) \in Infos /\ FreeInfo(s) \in Infos
    /\ RenewInfo \in Infos
  BY DEF Infos, AddInfo, FreeInfo, RenewInfo

\* init_cmd_req_pool and dispr_start leave every variable in its type.
LEMMA InitType == Init => TypeOK
<1> SUFFICES ASSUME Init PROVE TypeOK
  OBVIOUS
<1>1. token_req_idle_q \in Seq(Slots)
  BY PoolAssumption DEF Init, Slots
<1>2. /\ token_req_wait_q = <<>> /\ <<>> \in Seq(Slots)
      /\ token_op_q = <<>> /\ <<>> \in Seq(Infos)
  BY DEF Init
<1> QED
  BY <1>1, <1>2, Zenon DEF Init, TypeOK, ReqOK, OpOK, TokOK, EngOK, BkOK, BoundOK, CallOK,
                     MsgOK, ReqFlags, DisprFlags, OpTypes, BkPcs, CallPcs, MainPcs, Words

\* init_cmd_req_pool and dispr_start establish the inductive invariant: every slot
\* is idle, nobody holds the token.
LEMMA InitInv == Init => IInv
<1> SUFFICES ASSUME Init PROVE IInv
  OBVIOUS
<1>1. PcInv /\ TokenCount
  BY NullAssumption DEF Init, PcInv, TokenCount
<1>2. Places
  <2>1. Len(token_req_idle_q) = MAX_CMD_REQ_NUM /\ Len(token_req_wait_q) = 0
    BY PoolAssumption DEF Init
  <2>2. \A s \in Slots : Linked(token_req_idle_q, s)
    <3> TAKE s \in Slots
    <3>1. s + 1 \in 1..MAX_CMD_REQ_NUM /\ token_req_idle_q[s + 1] = s
      BY PoolAssumption DEF Init, Slots
    <3> QED
      BY <3>1, <2>1 DEF Linked
  <2>3. NoDup(token_req_idle_q)
    BY <2>1, PoolAssumption DEF NoDup, Init
  <2>4. NoDup(token_req_wait_q) /\ \A s \in Slots : ~Linked(token_req_wait_q, s)
    BY <2>1 DEF NoDup, Linked
  <2>5. /\ \A c \in Clients, s \in Slots : ~Adding(c, s)
        /\ \A s \in Slots : ex # s /\ ~Current(s)
    BY NullAssumption DEF Init, Adding, Current
  <2> QED
    BY <2>2, <2>3, <2>4, <2>5 DEF Places, Init
<1> QED
  BY <1>1, <1>2, InitType DEF IInv, SlotPlaces

\* Reading and building the unlocked status words.
LEMMA WordsLemma ==
    ASSUME NEW w \in Words
    PROVE  w.dispr \subseteq DisprFlags /\ w.status \in [Slots -> SUBSET ReqFlags]
  BY DEF Words

\* A pair of status words is a snapshot of them.
LEMMA WordsMake ==
    ASSUME NEW d \in SUBSET DisprFlags, NEW st \in [Slots -> SUBSET ReqFlags]
    PROVE  [dispr |-> d, status |-> st] \in Words
  BY DEF Words

\* The queues of slots and of operation infos stay queues of them.
LEMMA QueueTypes ==
    /\ \A q \in Seq(Slots) : /\ \A s \in Slots : pq_push(q, s) \in Seq(Slots)
                             /\ q # <<>> => /\ pq_front(q) \in Slots
                                            /\ pq_pop(q) \in Seq(Slots)
    /\ \A q \in Seq(Infos) : /\ \A i \in Infos : pq_push(q, i) \in Seq(Infos)
                             /\ q # <<>> => /\ pq_front(q) \in Infos
                                            /\ pq_pop(q) \in Seq(Infos)
  BY PushLemma, PopLemma, Zenon

\* Every variable but `seen', which only copies two of the others.
Typed ==
    /\ ReqOK /\ OpOK /\ TokOK /\ EngOK /\ BkOK /\ BoundOK /\ CallOK /\ MsgOK
    /\ dispr \subseteq DisprFlags
    /\ told \in [Clients -> {"none", "added", "held", "over"}]
    /\ oops \in BOOLEAN

\* A group of variables that a step leaves alone keeps its type.
LEMMA KeptTypes ==
    /\ ReqOK /\ UNCHANGED reqVars => ReqOK'
    /\ OpOK /\ UNCHANGED opVars => OpOK'
    /\ TokOK /\ UNCHANGED tokVars => TokOK'
    /\ EngOK /\ UNCHANGED engVars => EngOK'
    /\ BkOK /\ UNCHANGED bkVars => BkOK'
    /\ BoundOK /\ UNCHANGED boundVars => BoundOK'
    /\ CallOK /\ UNCHANGED callVars => CallOK'
    /\ MsgOK /\ UNCHANGED msgVars => MsgOK'
  BY DEF ReqOK, reqVars, OpOK, opVars, TokOK, tokVars, EngOK, engVars, BkOK, bkVars,
         BoundOK, boundVars, CallOK, callVars, MsgOK, msgVars

\* An unlocked read-modify-write of a status word stores known flags, torn or not.
LEMMA StoreReqType ==
    ASSUME status \in [Slots -> SUBSET ReqFlags], NEW s \in Slots,
           NEW before \in SUBSET ReqFlags, NEW set \in SUBSET ReqFlags, NEW clear,
           StoreReq(s, before, set, clear)
    PROVE  status' \in [Slots -> SUBSET ReqFlags]
<1>1. PICK old \in Loaded(status[s], before) :
         status' = [status EXCEPT ![s] = (old \cup set) \ clear]
  BY Zenon DEF StoreReq
<1>2. old \subseteq ReqFlags
  BY DEF Loaded
<1>3. (old \cup set) \ clear \in SUBSET ReqFlags
  BY <1>2
<1> QED
  BY <1>1, <1>3

\* The same for the dispatcher's own status word.
LEMMA StoreDisprType ==
    ASSUME dispr \subseteq DisprFlags, NEW before \in SUBSET DisprFlags,
           NEW set \in SUBSET DisprFlags, NEW clear, StoreDispr(before, set, clear)
    PROVE  dispr' \subseteq DisprFlags
<1>1. PICK old \in Loaded(dispr, before) : dispr' = (old \cup set) \ clear
  BY DEF StoreDispr
<1>2. old \subseteq DisprFlags
  BY DEF Loaded
<1> QED
  BY <1>1, <1>2

\* push_back_token_op_info, whether it queues the info or refuses it.
LEMMA LinkOpType ==
    ASSUME OpOK, sema \in Nat, oops \in BOOLEAN, NEW i \in Infos, NEW t \in OpTypes,
           (MarkUsed(i, t) /\ LinkOp(i)) \/ UNCHANGED <<opVars, sema, oops>>
    PROVE  OpOK' /\ sema' \in Nat /\ oops' \in BOOLEAN
<1>1. CASE UNCHANGED <<opVars, sema, oops>>
  BY <1>1, KeptTypes
<1>2. CASE MarkUsed(i, t) /\ LinkOp(i)
  <2>1. used' \subseteq Infos /\ type' \in [Infos -> OpTypes]
    BY <1>2 DEF MarkUsed, OpOK
  <2>2. token_op_q' \in Seq(Infos)
    BY <1>2, QueueTypes, Zenon DEF LinkOp, OpOK
  <2>3. sema' \in Nat
    BY <1>2 DEF LinkOp
  <2>4. oops' \in BOOLEAN
    BY <1>2 DEF LinkOp, Linked
  <2> QED
    BY <2>1, <2>2, <2>3, <2>4 DEF OpOK
<1> QED
  BY <1>1, <1>2

\* The abort callback and push_back_idle_req keep the types of what they write.
LEMMA AbortType ==
    ASSUME ReqOK, told \in [Clients -> {"none", "added", "held", "over"}],
           NEW s \in Slots, Abort(s), token_req_wait_q' \in Seq(Slots)
    PROVE  ReqOK' /\ told' \in [Clients -> {"none", "added", "held", "over"}]
<1>1. token_req_idle_q' \in Seq(Slots)
  BY QueueTypes, Zenon DEF Abort, ReqOK
<1>2. status' \in [Slots -> SUBSET ReqFlags] /\ req' = req
  BY DEF Abort, ReqOK
<1>3. told' \in [Clients -> {"none", "added", "held", "over"}]
  BY DEF Abort
<1> QED
  BY <1>1, <1>2, <1>3 DEF ReqOK

\* push_back_token_op_info up to the unlock, as a requestor's call runs it.
LEMMA CallOpType ==
    ASSUME Typed, NEW c \in Clients, NEW pc, NEW next \in CallPcs,
           NEW i \in Infos, NEW t \in OpTypes,
           CallOp(c, pc, next, i, t), UNCHANGED boundVars
    PROVE  Typed'
<1>1. CallOK'
  BY DEF Typed, CallOp, CallOK, CallPcs
<1>2. OpOK'
  BY DEF Typed, CallOp, MarkUsed, OpOK
<1> QED
  BY <1>1, <1>2, KeptTypes DEF CallOp, Typed

\* Once the lists are corrupt the model stands still.
LEMMA OopsStep == IInv /\ oops /\ [Next]_vars => UNCHANGED vars
  BY DEF Next, Halted

\* Every step of a thread keeps every variable in its type.
LEMMA TypeStep == IInv /\ ~oops /\ [Next]_vars => TypeOK'
<1> SUFFICES ASSUME IInv, ~oops, [Next]_vars PROVE TypeOK'
  OBVIOUS
<1>a. ReqOK /\ OpOK /\ TokOK /\ EngOK /\ BkOK /\ BoundOK /\ CallOK /\ MsgOK
  BY DEF IInv, TypeOK
<1>b. /\ dispr \subseteq DisprFlags /\ oops \in BOOLEAN
      /\ told \in [Clients -> {"none", "added", "held", "over"}]
  BY DEF IInv, TypeOK
<1>c. PcInv /\ TokenCount /\ Places
  BY DEF IInv, SlotPlaces
<1>d. /\ msnap.dispr \subseteq DisprFlags /\ msnap.status \in [Slots -> SUBSET ReqFlags]
      /\ seen.dispr \subseteq DisprFlags /\ seen.status \in [Slots -> SUBSET ReqFlags]
  BY WordsLemma DEF IInv, TypeOK, EngOK
<1> USE <1>a DEF Typed
<1>1. ASSUME NEW c \in Clients, AddCheck(c)
      PROVE  Typed'
  <2>1. CallOK'
    BY <1>1 DEF AddCheck, CallAllowed, CallOK, CallPcs, ReqFlags
  <2>2. BoundOK'
    BY <1>1 DEF AddCheck, CallAllowed, BoundOK
  <2> QED
    BY <1>1, <1>b, <2>1, <2>2, KeptTypes DEF AddCheck
<1>2. ASSUME NEW c \in Clients, CancelCheck(c)
      PROVE  Typed'
  <2>1. hdl[c] \in Slots
    BY <1>2, <1>c, NullAssumption DEF CancelCheck, CallAllowed, PcInv
  <2>2. CallOK'
    BY <1>2, <2>1 DEF CancelCheck, CallAllowed, ReqOK, CallOK, CallPcs, ReqFlags
  <2>3. BoundOK'
    BY <1>2 DEF CancelCheck, CallAllowed, BoundOK
  <2> QED
    BY <1>2, <1>b, <2>1, <2>2, <2>3, KeptTypes DEF CancelCheck
<1>3. ASSUME NEW c \in Clients, AddFull(c), UNCHANGED boundVars
      PROVE  Typed'
  <2>1. CallOK'
    BY <1>3 DEF AddFull, CallOK, CallPcs, ReqFlags
  <2> QED
    BY <1>3, <1>b, <2>1, KeptTypes DEF AddFull
<1>4. ASSUME NEW c \in Clients, AddPop(c), UNCHANGED boundVars
      PROVE  Typed'
  <2>1. pq_front(token_req_idle_q) \in Slots /\ pq_pop(token_req_idle_q) \in Seq(Slots)
    BY <1>4, <1>c, NullAssumption, QueueTypes DEF AddPop, ReqOK
  <2>2. ReqOK'
    BY <1>4, <2>1 DEF AddPop, ReqOK, ReqFlags
  <2>3. OpOK'
    BY <1>4 DEF AddPop, OpOK, OpTypes
  <2>4. CallOK'
    BY <1>4, <2>1 DEF AddPop, CallOK, CallPcs, ReqFlags
  <2>5. told' \in [Clients -> {"none", "added", "held", "over"}]
    BY <1>4, <1>b DEF AddPop
  <2>6. oops' \in BOOLEAN
    BY <1>4, <1>b DEF AddPop, Linked
  <2> QED
    BY <1>4, <1>b, <2>1, <2>2, <2>3, <2>4, <2>5, <2>6, KeptTypes DEF AddPop
<1>5. ASSUME NEW c \in Clients, AddPush(c), UNCHANGED boundVars
      PROVE  Typed'
  <2>1. hdl[c] \in Slots
    BY <1>5, <1>c, NullAssumption DEF AddPush, PcInv
  <2>2. ReqOK'
    BY <1>5, <2>1, QueueTypes, Zenon DEF AddPush, ReqOK, ReqFlags
  <2>3. CallOK'
    BY <1>5 DEF AddPush, CallOK, CallPcs, ReqFlags
  <2>4. told' \in [Clients -> {"none", "added", "held", "over"}]
    BY <1>5, <1>b DEF AddPush
  <2> QED
    BY <1>5, <1>b, <2>1, <2>2, <2>3, <2>4, KeptTypes DEF AddPush
<1>6. ASSUME NEW c \in Clients, AddLoad(c), UNCHANGED boundVars
      PROVE  Typed'
  <2>1. hdl[c] \in Slots
    BY <1>6, <1>c, NullAssumption DEF AddLoad, PcInv
  <2>2. CallOK'
    BY <1>6, <2>1 DEF AddLoad, ReqOK, CallOK, CallPcs, ReqFlags
  <2> QED
    BY <1>6, <1>b, <2>1, <2>2, KeptTypes DEF AddLoad
<1>7. ASSUME NEW c \in Clients, AddEnq(c), UNCHANGED boundVars
      PROVE  Typed'
  <2>1. hdl[c] \in Slots
    BY <1>7, <1>c, NullAssumption DEF AddEnq, PcInv
  <2>2. status' \in [Slots -> SUBSET ReqFlags]
    BY <1>7, <1>d, <2>1, StoreReqType, Zenon DEF AddEnq, CallOK, ReqFlags, ReqOK
  <2>3. ReqOK'
    BY <1>7, <2>2 DEF AddEnq, ReqOK, ReqFlags
  <2>4. CallOK'
    BY <1>7 DEF AddEnq, CallOK, CallPcs, ReqFlags
  <2> QED
    BY <1>7, <1>b, <2>1, <2>2, <2>3, <2>4, KeptTypes DEF AddEnq
<1>8. ASSUME NEW c \in Clients, AddOp(c), UNCHANGED boundVars
      PROVE  Typed'
  <2>1. AddInfo(hdl[c]) \in Infos
    BY <1>8, <1>c, InfosLemma DEF AddOp, CallOp, PcInv
  <2> QED
    BY <1>8, <1>b, <2>1, CallOpType, Zenon DEF AddOp, CallPcs, OpTypes
<1>9. ASSUME NEW c \in Clients, AddOpPush(c), UNCHANGED boundVars
      PROVE  Typed'
  <2>1. AddInfo(hdl[c]) \in Infos
    BY <1>9, <1>c, NullAssumption, InfosLemma DEF AddOpPush, PcInv, CallOpPush
  <2>2. OpOK'
    BY <1>9, <2>1, QueueTypes DEF AddOpPush, CallOpPush, LinkOp, OpOK, OpTypes
  <2>3. EngOK'
    BY <1>9 DEF AddOpPush, CallOpPush, LinkOp, EngOK, MainPcs
  <2>4. CallOK'
    BY <1>9 DEF AddOpPush, CallOpPush, CallOK, CallPcs, ReqFlags
  <2>5. oops' \in BOOLEAN
    BY <1>9, <1>b DEF AddOpPush, CallOpPush, LinkOp, Linked
  <2> QED
    BY <1>9, <1>b, <2>1, <2>2, <2>3, <2>4, <2>5, KeptTypes DEF AddOpPush, CallOpPush
<1>10. ASSUME NEW c \in Clients, CancelSet(c), UNCHANGED boundVars
       PROVE  Typed'
  <2>1. hdl[c] \in Slots
    BY <1>10, <1>c, NullAssumption DEF CancelSet, PcInv
  <2>2. status' \in [Slots -> SUBSET ReqFlags]
    BY <1>10, <1>d, <2>1, StoreReqType, Zenon DEF CancelSet, CallOK, ReqFlags, ReqOK
  <2>3. ReqOK'
    BY <1>10, <2>2 DEF CancelSet, ReqOK, ReqFlags
  <2>4. CallOK'
    BY <1>10 DEF CancelSet, CallOK, CallPcs, ReqFlags
  <2> QED
    BY <1>10, <1>b, <2>1, <2>2, <2>3, <2>4, KeptTypes DEF CancelSet
<1>11. ASSUME NEW c \in Clients, CancelOp(c), UNCHANGED boundVars
       PROVE  Typed'
  <2>1. FreeInfo(hdl[c]) \in Infos
    BY <1>11, <1>c, InfosLemma DEF CancelOp, CallOp, PcInv
  <2> QED
    BY <1>11, <1>b, <2>1, CallOpType, Zenon DEF CancelOp, CallPcs, OpTypes
<1>12. ASSUME NEW c \in Clients, CancelOpPush(c), UNCHANGED boundVars
       PROVE  Typed'
  <2>1. FreeInfo(hdl[c]) \in Infos
    BY <1>12, <1>c, NullAssumption, InfosLemma DEF CancelOpPush, PcInv, CallOpPush
  <2>2. OpOK'
    BY <1>12, <2>1, QueueTypes DEF CancelOpPush, CallOpPush, LinkOp, OpOK, OpTypes
  <2>3. EngOK'
    BY <1>12 DEF CancelOpPush, CallOpPush, LinkOp, EngOK, MainPcs
  <2>4. CallOK'
    BY <1>12 DEF CancelOpPush, CallOpPush, CallOK, CallPcs, ReqFlags
  <2>5. oops' \in BOOLEAN
    BY <1>12, <1>b DEF CancelOpPush, CallOpPush, LinkOp, Linked
  <2> QED
    BY <1>12, <1>b, <2>1, <2>2, <2>3, <2>4, <2>5, KeptTypes
       DEF CancelOpPush, CallOpPush
<1>13. ASSUME NEW c \in Clients, SendEnd(c), UNCHANGED boundVars
       PROVE  Typed'
  <2>1. MsgOK'
    BY <1>13 DEF SendEnd, MsgOK
  <2>2. EngOK'
    BY <1>13 DEF SendEnd, EngOK, MainPcs
  <2> QED
    BY <1>13, <1>b, <2>1, <2>2, KeptTypes DEF SendEnd
<1>14. ASSUME ShallStopCheck, UNCHANGED boundVars
       PROVE  Typed'
  <2>1. msnap' \in Words
    BY <1>14, <1>b, <1>d, WordsMake DEF ShallStopCheck, EngOK
  <2>2. EngOK'
    BY <1>14, <2>1 DEF ShallStopCheck, MainStep, EngOK, MainPcs
  <2> QED
    BY <1>14, <1>b, <2>1, <2>2, KeptTypes DEF ShallStopCheck
<1>15. ASSUME ShallStopSet, UNCHANGED boundVars
       PROVE  Typed'
  <2>1. EngOK'
    BY <1>15 DEF ShallStopSet, MainStep, EngOK, MainPcs
  <2>2. dispr' \subseteq DisprFlags
    BY <1>15, <1>b, <1>d, StoreDisprType DEF ShallStopSet, DisprFlags
  <2> QED
    BY <1>15, <1>b, <2>1, <2>2, KeptTypes DEF ShallStopSet
<1>16. ASSUME StopLoad, UNCHANGED boundVars
       PROVE  Typed'
  <2>1. msnap' \in Words
    BY <1>16, <1>b, WordsMake DEF StopLoad, EngOK, ReqOK
  <2>2. EngOK'
    BY <1>16, <2>1 DEF StopLoad, MainStep, EngOK, MainPcs
  <2> QED
    BY <1>16, <1>b, <2>1, <2>2, KeptTypes DEF StopLoad
<1>17. ASSUME StopClear, UNCHANGED boundVars
       PROVE  Typed'
  <2>1. EngOK'
    BY <1>17 DEF StopClear, MainStep, EngOK, MainPcs
  <2>2. dispr' \subseteq DisprFlags
    BY <1>17, <1>b, <1>d, StoreDisprType DEF StopClear, DisprFlags
  <2> QED
    BY <1>17, <1>b, <2>1, <2>2, KeptTypes DEF StopClear
<1>18. ASSUME StopCancelAll, UNCHANGED boundVars
       PROVE  Typed'
  <2>1. ReqOK'
    <3>1. PICK old \in [Slots -> {"now", "before"}] :
             status' = [s \in Slots |->
                LET v == IF old[s] = "now" THEN status[s] ELSE msnap.status[s]
                IN  IF v = {} THEN v ELSE v \cup {"CANCEL"}]
      BY <1>18, Zenon DEF StopCancelAll
    <3>2. status' \in [Slots -> SUBSET ReqFlags]
      BY <1>d, <3>1 DEF ReqOK, ReqFlags
    <3> QED
      BY <1>18, <3>2 DEF StopCancelAll, ReqOK
  <2>2. EngOK'
    BY <1>18, <1>d DEF StopCancelAll, MainStep, EngOK, MainPcs
  <2> QED
    BY <1>18, <1>b, <2>1, <2>2, KeptTypes DEF StopCancelAll
<1>19. ASSUME StopThread, UNCHANGED boundVars
       PROVE  Typed'
  <2>1. EngOK'
    BY <1>19 DEF StopThread, MainStep, EngOK, MainPcs
  <2> QED
    BY <1>19, <1>b, <2>1, KeptTypes DEF StopThread
<1>20. ASSUME StopPost, UNCHANGED boundVars
       PROVE  Typed'
  <2>1. TokOK'
    BY <1>20 DEF StopPost, MainStep, TokOK
  <2>2. EngOK'
    BY <1>20 DEF StopPost, MainStep, EngOK, MainPcs
  <2> QED
    BY <1>20, <1>b, <2>1, <2>2, KeptTypes DEF StopPost
<1>21. ASSUME BkWake, UNCHANGED boundVars
       PROVE  Typed'
  <2>1. EngOK'
    BY <1>21 DEF BkWake, EngOK, MainPcs
  <2>2. BkOK'
    BY <1>21 DEF BkWake, BkOK, BkPcs
  <2> QED
    BY <1>21, <1>b, <2>1, <2>2, KeptTypes DEF BkWake
<1>22. ASSUME BkPopOp, UNCHANGED boundVars
       PROVE  Typed'
  <2>1. OpOK'
    BY <1>22, QueueTypes DEF BkPopOp, OpOK, OpTypes
  <2>2. BkOK'
    BY <1>22, QueueTypes DEF BkPopOp, OpOK, BkOK, BkPcs
  <2> QED
    BY <1>22, <1>b, <2>1, <2>2, KeptTypes DEF BkPopOp
<1>23. ASSUME BkCancelWaiting, UNCHANGED boundVars
       PROVE  Typed'
  <2>1. BkOK'
    BY <1>23 DEF BkCancelWaiting, BkOK, BkPcs
  <2>2. info[1] \in Slots
    BY <1>23 DEF BkCancelWaiting
  <2>3. token_req_wait_q' \in Seq(Slots)
    BY <1>23, <1>c, DelLemma DEF BkCancelWaiting, Places, ReqOK
  <2>4. oops' \in BOOLEAN
    BY <1>23, <1>b DEF BkCancelWaiting
  <2>5. CASE Abort(info[1])
    <3>1. ReqOK' /\ told' \in [Clients -> {"none", "added", "held", "over"}]
      BY <1>b, <2>2, <2>3, <2>5, AbortType
    <3> QED
      BY <1>23, <1>b, <2>1, <2>4, <3>1, KeptTypes DEF BkCancelWaiting
  <2>6. CASE UNCHANGED <<token_req_idle_q, status, req, told>>
    <3>1. ReqOK'
      BY <2>3, <2>6 DEF ReqOK
    <3> QED
      BY <1>23, <1>b, <2>1, <2>4, <2>6, <3>1, KeptTypes DEF BkCancelWaiting
  <2> QED
    BY <1>23, <2>5, <2>6, Zenon DEF BkCancelWaiting
<1>24. ASSUME BkHandle, UNCHANGED boundVars
       PROVE  Typed'
  <2>1. BkOK'
    BY <1>24 DEF BkHandle, BkOK, BkPcs
  <2> QED
    BY <1>24, <1>b, <2>1, KeptTypes DEF BkHandle
<1>25. ASSUME BkDeregister, UNCHANGED boundVars
       PROVE  Typed'
  <2>1. CASE cur_cmd_req = NULL
    <3>1. BkOK' /\ UNCHANGED <<status, end_msgs, told, abort_msgs, dispr, sema>>
      BY <1>25, <2>1 DEF BkDeregister, AfterDereg, BkOK, BkPcs
    <3>2. ReqOK' /\ EngOK' /\ MsgOK'
      BY <1>25, <3>1 DEF BkDeregister, ReqOK, EngOK, MsgOK
    <3> QED
      BY <1>25, <1>b, <3>1, <3>2, KeptTypes DEF BkDeregister
  <2>2. CASE cur_cmd_req # NULL
    <3>1. cur_cmd_req \in Slots
      BY <2>2 DEF TokOK
    <3>2. BkOK'
      BY <1>25, <2>2 DEF BkDeregister, BkOK, BkPcs
    <3>3. ReqOK'
      <4>1. status' \in [Slots -> SUBSET ReqFlags]
        BY <1>25, <1>d, <2>2, <3>1, StoreReqType, Zenon DEF BkDeregister, ClearReqFlag, ReqOK
      <4> QED
        BY <1>25, <4>1 DEF BkDeregister, ReqOK
    <3>4. told' \in [Clients -> {"none", "added", "held", "over"}]
      BY <1>25, <1>b, <2>2 DEF BkDeregister
    <3>5. EngOK'
      BY <1>25, <2>2 DEF BkDeregister, EngOK
    <3>6. MsgOK'
      <4>1. /\ end_msgs' = 0
            /\ abort_msgs' = abort_msgs \/ abort_msgs' = abort_msgs + 1
        BY <1>25, <2>2 DEF BkDeregister
      <4> QED
        BY <4>1 DEF MsgOK
    <3>7. dispr' \subseteq DisprFlags
      <4>1. CASE UNCHANGED dispr
        BY <1>b, <4>1
      <4>2. CASE SetDisprFlag("WAIT_ABORT_MSG_DONE")
        BY <1>b, <1>d, <4>2, StoreDisprType DEF SetDisprFlag, DisprFlags
      <4> QED
        BY <1>25, <2>2, <4>1, <4>2 DEF BkDeregister
    <3> QED
      BY <1>25, <1>b, <3>2, <3>3, <3>4, <3>5, <3>6, <3>7, KeptTypes DEF BkDeregister
  <2> QED
    BY <2>1, <2>2
<1>26. ASSUME BkRecycle, UNCHANGED boundVars
       PROVE  Typed'
  <2>1. cur_cmd_req \in Slots
    BY <1>26, <1>c, NullAssumption DEF BkRecycle, TokOK, PcInv
  <2>2. ReqOK'
    BY <1>26, <2>1, QueueTypes, Zenon DEF BkRecycle, ReqOK, ReqFlags
  <2>3. BkOK'
    BY <1>26 DEF BkRecycle, BkOK, BkPcs
  <2> QED
    BY <1>26, <1>b, <2>1, <2>2, <2>3, KeptTypes DEF BkRecycle
<1>27. ASSUME BkGiveBack, UNCHANGED boundVars
       PROVE  Typed'
  <2>1. TokOK'
    <3>1. token_cnt = 1
      BY <1>27, <1>c DEF BkGiveBack, PcInv, TokenCount
    <3> QED
      BY <1>27, <3>1 DEF BkGiveBack, TokOK
  <2>2. BkOK'
    BY <1>27 DEF BkGiveBack, AfterDereg, BkOK, BkPcs
  <2> QED
    BY <1>27, <1>b, <2>1, <2>2, KeptTypes DEF BkGiveBack
<1>28. ASSUME BkProcessRefused, UNCHANGED boundVars
       PROVE  Typed'
  <2>1. BkOK'
    BY <1>28 DEF BkProcessRefused, BkOK, BkPcs
  <2> QED
    BY <1>28, <1>b, <2>1, KeptTypes DEF BkProcessRefused
<1>29. ASSUME BkProcessIdle, UNCHANGED boundVars
       PROVE  Typed'
  <2>1. EngOK'
    BY <1>29 DEF BkProcessIdle, SendPhy, EngOK, MainPcs
  <2>2. BkOK'
    BY <1>29 DEF BkProcessIdle, BkOK, BkPcs
  <2>3. dispr' \subseteq DisprFlags
    BY <1>29, <1>b, <1>d, StoreDisprType, Zenon DEF BkProcessIdle, SetDisprFlag, DisprFlags
  <2> QED
    BY <1>29, <1>b, <2>1, <2>2, <2>3, KeptTypes DEF BkProcessIdle
<1>30. ASSUME BkProcessNext, UNCHANGED boundVars
       PROVE  Typed'
  <2>1. /\ pq_front(token_req_wait_q) \in Slots
        /\ pq_pop(token_req_wait_q) \in Seq(Slots)
    BY <1>30, <1>c, NullAssumption, QueueTypes, Zenon DEF BkProcessNext, ReqOK
  <2>2. status' \in [Slots -> SUBSET ReqFlags]
    BY <1>30, <1>d, <2>1, StoreReqType, Zenon DEF BkProcessNext, ReqFlags, ReqOK
  <2>3. ReqOK'
    BY <1>30, <2>1, <2>2 DEF BkProcessNext, ReqOK, ReqFlags
  <2>4. BkOK'
    BY <1>30, <2>1 DEF BkProcessNext, BkOK, BkPcs
  <2>5. EngOK'
    BY <1>30 DEF BkProcessNext, SendPhy, EngOK, MainPcs
  <2>6. dispr' \subseteq DisprFlags
    BY <1>30, <1>b, <1>d, StoreDisprType, Zenon DEF BkProcessNext, ClearDisprFlag, DisprFlags
  <2> QED
    BY <1>30, <1>b, <2>1, <2>2, <2>3, <2>4, <2>5, <2>6, KeptTypes
       DEF BkProcessNext
<1>31. ASSUME BkRegister, UNCHANGED boundVars
       PROVE  Typed'
  <2>1. ex \in Slots
    BY <1>31, <1>c, NullAssumption DEF BkRegister, BkOK, PcInv
  <2>2. status' \in [Slots -> SUBSET ReqFlags]
    BY <1>31, <1>d, <2>1, StoreReqType, Zenon DEF BkRegister, ReqFlags, ReqOK
  <2>3. ReqOK'
    BY <1>31, <2>2 DEF BkRegister, ReqOK, ReqFlags
  <2>4. TokOK'
    BY <1>31, <2>1 DEF BkRegister, TokOK
  <2>5. BkOK'
    BY <1>31 DEF BkRegister, BkOK, BkPcs
  <2> QED
    BY <1>31, <1>b, <2>1, <2>2, <2>3, <2>4, <2>5, KeptTypes DEF BkRegister
<1>32. ASSUME BkAcquired, UNCHANGED boundVars
       PROVE  Typed'
  <2>1. BkOK'
    BY <1>32 DEF BkAcquired, BkOK, BkPcs
  <2>2. told' \in [Clients -> {"none", "added", "held", "over"}]
    BY <1>32, <1>b DEF BkAcquired
  <2> QED
    BY <1>32, <1>b, <2>1, <2>2, KeptTypes DEF BkAcquired
<1>33. ASSUME BkRelease, UNCHANGED boundVars
       PROVE  Typed'
  <2>1. OpOK'
    BY <1>33 DEF BkRelease, OpOK, OpTypes
  <2>2. BkOK'
    BY <1>33 DEF BkRelease, BkOK, BkPcs
  <2> QED
    BY <1>33, <1>b, <2>1, <2>2, KeptTypes DEF BkRelease
<1>34. ASSUME BkMsgNone, UNCHANGED boundVars
       PROVE  Typed'
  <2>1. BkOK'
    BY <1>34 DEF BkMsgNone, BkOK, BkPcs
  <2> QED
    BY <1>34, <1>b, <2>1, KeptTypes DEF BkMsgNone
<1>35. ASSUME BkMsgAbort, UNCHANGED boundVars
       PROVE  Typed'
  <2>1. OpOK' /\ sema' \in Nat /\ oops' \in BOOLEAN
    BY <1>35, <1>c, NullAssumption, <1>b, InfosLemma, LinkOpType
       DEF BkMsgAbort, AbortMsgDone, OpTypes, EngOK
  <2>2. EngOK'
    BY <1>35, <2>1 DEF BkMsgAbort, EngOK, MainPcs
  <2>3. BkOK'
    BY <1>35 DEF BkMsgAbort, BkOK, BkPcs
  <2>4. MsgOK'
    BY <1>35 DEF BkMsgAbort, MsgOK
  <2>5. dispr' \subseteq DisprFlags
    BY <1>35, <1>b, <1>d, StoreDisprType
       DEF BkMsgAbort, AbortMsgDone, ClearDisprFlag, DisprFlags
  <2> QED
    BY <1>35, <1>b, <2>1, <2>2, <2>3, <2>4, <2>5, KeptTypes DEF BkMsgAbort
<1>36. ASSUME BkMsgEnd, UNCHANGED boundVars
       PROVE  Typed'
  <2>1. ReqOK'
    <3>1. CASE UNCHANGED status
      BY <1>36, <3>1 DEF BkMsgEnd, ReqOK
    <3>2. CASE cur_cmd_req \in Slots /\ SetReqFlag(cur_cmd_req, "CANCEL")
      <4>1. status' \in [Slots -> SUBSET ReqFlags]
        BY <1>d, <3>2, StoreReqType, Zenon DEF SetReqFlag, ReqOK, ReqFlags
      <4> QED
        BY <1>36, <4>1 DEF BkMsgEnd, ReqOK
    <3> QED
      BY <1>36, <3>1, <3>2, Zenon DEF BkMsgEnd, TokOK
  <2>2. BkOK' /\ MsgOK'
    BY <1>36 DEF BkMsgEnd, BkOK, BkPcs, MsgOK
  <2> QED
    BY <1>36, <1>b, <2>1, <2>2, KeptTypes DEF BkMsgEnd
<1>37. ASSUME BkFree, UNCHANGED boundVars
       PROVE  Typed'
  <2>1. FreeInfo(cur_cmd_req) \in Infos
    BY <1>37, <1>c, NullAssumption, InfosLemma, Zenon DEF BkFree, PcInv, TokOK
  <2>2. OpOK' /\ sema' \in Nat /\ oops' \in BOOLEAN
    BY <1>37, <1>c, NullAssumption, <1>b, <2>1, LinkOpType DEF BkFree, OpTypes, EngOK
  <2>3. EngOK'
    BY <1>37, <2>2 DEF BkFree, EngOK, MainPcs
  <2>4. BkOK'
    BY <1>37 DEF BkFree, BkOK, BkPcs
  <2>5. told' \in [Clients -> {"none", "added", "held", "over"}]
    BY <1>37, <1>b DEF BkFree
  <2> QED
    BY <1>37, <1>b, <2>1, <2>2, <2>3, <2>4, <2>5, KeptTypes DEF BkFree
<1>38. ASSUME BkClearMsg, UNCHANGED boundVars
       PROVE  Typed'
  <2>1. OpOK' /\ sema' \in Nat /\ oops' \in BOOLEAN
    BY <1>38, <1>c, NullAssumption, <1>b, InfosLemma, LinkOpType
       DEF BkClearMsg, AbortMsgDone, OpTypes, EngOK
  <2>2. EngOK'
    BY <1>38, <2>1 DEF BkClearMsg, EngOK, MainPcs
  <2>3. BkOK'
    BY <1>38 DEF BkClearMsg, BkOK, BkPcs
  <2>4. MsgOK'
    BY <1>38 DEF BkClearMsg, MsgOK
  <2>5. dispr' \subseteq DisprFlags
    BY <1>38, <1>b, <1>d, StoreDisprType, Zenon
       DEF BkClearMsg, AbortMsgDone, ClearDisprFlag, DisprFlags
  <2> QED
    BY <1>38, <1>b, <2>1, <2>2, <2>3, <2>4, <2>5, KeptTypes DEF BkClearMsg
<1>39. ASSUME BkClearReq, UNCHANGED boundVars
       PROVE  Typed'
  <2>1. /\ pq_front(token_req_wait_q) \in Slots
        /\ pq_pop(token_req_wait_q) \in Seq(Slots)
    BY <1>39, <1>c, NullAssumption, QueueTypes DEF BkClearReq, ReqOK
  <2>2. ReqOK' /\ told' \in [Clients -> {"none", "added", "held", "over"}]
    BY <1>39, <1>b, <2>1, AbortType DEF BkClearReq
  <2> QED
    BY <1>39, <1>b, <2>2, KeptTypes DEF BkClearReq
<1>40. ASSUME BkExit, UNCHANGED boundVars
       PROVE  Typed'
  <2>1. BkOK'
    BY <1>40 DEF BkExit, BkOK, BkPcs
  <2> QED
    BY <1>40, <1>b, <2>1, KeptTypes DEF BkExit
<1>41. CASE UNCHANGED vars
  BY <1>b, <1>41, KeptTypes DEF vars, IInv, TypeOK
<1>42. CASE Bk
  <2>1. Typed'
    BY <1>42, <1>21, <1>22, <1>23, <1>24, <1>25, <1>26, <1>27, <1>28, <1>29, <1>30,
       <1>31, <1>32, <1>33, <1>34, <1>35, <1>36, <1>37, <1>38, <1>39, <1>40, Zenon
       DEF Bk, BkStep
  <2>2. seen \in Words
    BY DEF IInv, TypeOK
  <2>3. seen' \in Words
    BY <1>42, <2>1, <2>2, WordsMake, Zenon DEF Bk, ReqOK
  <2> QED
    BY <2>1, <2>3 DEF TypeOK
<1>43. ASSUME UNCHANGED seen, Main \/ \E c \in Clients : Requestor(c)
       PROVE  TypeOK'
  <2>1. CASE Main
    BY <1>43, <2>1, <1>14, <1>15, <1>16, <1>17, <1>18, <1>19, <1>20, Zenon
       DEF Main, IInv, TypeOK
  <2>2. ASSUME NEW c \in Clients, Requestor(c)
        PROVE  TypeOK'
    BY <1>43, <2>2, <1>1, <1>2, <1>3, <1>4, <1>5, <1>6, <1>7, <1>8, <1>9, <1>10, <1>11,
       <1>12, <1>13, Zenon DEF Requestor, InCall, IInv, TypeOK
  <2> QED
    BY <1>43, <2>1, <2>2
<1> QED
  BY <1>41, <1>42, <1>43 DEF Next, Halted
=============================================================================
