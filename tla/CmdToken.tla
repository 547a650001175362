------------------------------ MODULE CmdToken ------------------------------
(***************************************************************************)
(* The foreground command token of one PHL command dispatcher               *)
(* (phl/phl_cmd_dispatcher.c).  A requestor (scan, connect, AP start, ...)   *)
(* takes a slot of the request pool, queues it, and is told through          *)
(* callbacks that it acquired the token or that it was aborted.  Adding and  *)
(* cancelling run in the requestor's own thread; registering, aborting and   *)
(* releasing run in the background thread, which the requestors reach only   *)
(* through the operations they queue in token_op_q.                          *)
(*                                                                           *)
(* A step of a thread reaches from one access to shared state that another   *)
(* thread can observe to the next.  Each pq_* call is one step (it runs      *)
(* under the queue's lock); the one-byte request status is read and written  *)
(* without a lock, see SMP below.                                            *)
(***************************************************************************)
EXTENDS Integers, Sequences, FiniteSets, PhlQueue

CONSTANTS
    Clients,          \* the requestors; each makes its own calls one at a time
    MAX_CMD_REQ_NUM,  \* size of the request pool (8 in the source)
    NULL,
    SMP,              \* TRUE: `status |= flag' is a load and a later store, as
                      \* on a multiprocessor; FALSE: it is one access
    MaxAdds,          \* bound: requestors start this many calls to add,
    MaxCancels,       \* and this many calls to cancel
    MayStop           \* FALSE: nobody stops the dispatcher (a smaller instance)

Slots == 0..(MAX_CMD_REQ_NUM - 1)

ASSUME PoolAssumption == MAX_CMD_REQ_NUM \in Nat \ {0}
ASSUME NullAssumption == NULL \notin Slots /\ NULL \notin Clients
ASSUME SmpAssumption == SMP \in BOOLEAN

VARIABLES
    token_req_idle_q, token_req_wait_q,  \* queues of slots
    token_op_q,                          \* queue of operation infos
    status,         \* request slot -> set of REQ_STATUS_ flags
    req,            \* request slot -> requestor whose callbacks it holds
    used, type,     \* the operation infos whose `used' is set; info -> its type
    cur_cmd_req, token_cnt,
    dispr,          \* the DISPR_ flags that the token protocol reads
    sema,           \* msg_q_sema of the background thread
    mpc, msnap,               \* thread that stops the dispatcher: control, locals
    bkpc, ex, info, notify,   \* background thread: control and locals
    seen,           \* status words as the background thread left them
    adds, cancels,            \* calls started so far
    cpc, hdl, snap,           \* requestor thread: control and locals
    told,           \* what the requestor's callbacks have told it
    end_msgs,       \* messages that end the holder's command, waiting (0 or 1)
    abort_msgs,     \* messages sent from an abort callback, not yet recycled
    oops            \* a list operation was applied to a node in the wrong
                    \* place: the kernel's lists are corrupt, nothing follows

reqVars  == <<token_req_idle_q, token_req_wait_q, status, req>>
opVars   == <<token_op_q, used, type>>
tokVars  == <<cur_cmd_req, token_cnt>>
engVars  == <<sema, mpc, msnap>>
bkVars   == <<bkpc, ex, info, notify>>
boundVars == <<adds, cancels>>
callVars == <<cpc, hdl, snap>>
msgVars  == <<end_msgs, abort_msgs>>
vars == <<reqVars, opVars, tokVars, dispr, engVars, bkVars, seen, boundVars,
          callVars, told, msgVars, oops>>

\* Every request embeds two operation infos, the dispatcher one more.
AddInfo(s)  == <<s, "add">>
FreeInfo(s) == <<s, "free">>
RenewInfo   == <<NULL, "renew">>
Infos  == (Slots \X {"add", "free"}) \cup {RenewInfo}
NoInfo == <<NULL, "none">>

ReqFlags   == {"ENQ", "RUN", "CANCEL", "LAST_PERMIT", "PREPARE"}
DisprFlags == {"STARTED", "SHALL_STOP", "NOTIFY_IDLE", "WAIT_ABORT_MSG_DONE"}
OpTypes    == {"none", "ADD", "FREE", "CANCEL", "RENEW"}
BkPcs == {"sleep", "ops", "handle", "dereg1", "dereg2", "dereg3", "proc",
          "reg", "acq", "rel", "msg", "free", "clrmsg", "clrreq", "exited"}
CallPcs == {"rdy", "addPop", "addPush", "addLoad", "addEnq", "addOp", "addOpPush",
            "canSet", "canOp", "canOpPush"}
MainPcs == {"up", "shall", "stop", "cancelAll", "stopThread", "wait", "down"}

\* The status words that are read and written without a lock.
Words == [dispr : SUBSET DisprFlags, status : [Slots -> SUBSET ReqFlags]]

\* init_cmd_req_pool, dispr_init and dispr_start.
Init ==
    /\ token_req_idle_q = [i \in 1..MAX_CMD_REQ_NUM |-> i - 1]
    /\ token_req_wait_q = <<>>
    /\ token_op_q = <<>>
    /\ status = [s \in Slots |-> {}]
    /\ req = [s \in Slots |-> NULL]
    /\ used = {}
    /\ type = [i \in Infos |-> "none"]
    /\ cur_cmd_req = NULL
    /\ token_cnt = 0
    /\ dispr = {"STARTED", "NOTIFY_IDLE"}
    /\ sema = 0
    /\ mpc = "up"
    /\ msnap = [dispr |-> {}, status |-> [s \in Slots |-> {}]]
    /\ seen = [dispr |-> dispr, status |-> status]
    /\ bkpc = "sleep"
    /\ ex = NULL
    /\ info = NoInfo
    /\ notify = "no"
    /\ cpc = [c \in Clients |-> "rdy"]
    /\ hdl = [c \in Clients |-> NULL]
    /\ snap = [c \in Clients |-> {}]
    /\ adds = 0
    /\ cancels = 0
    /\ told = [c \in Clients |-> "none"]
    /\ end_msgs = 0
    /\ abort_msgs = 0
    /\ oops = FALSE
-----------------------------------------------------------------------------
(* Requestor threads. *)

\* The values `word |= flag' may start from: the word itself or, where another
\* thread stored into it in the meantime, the value loaded before that.
Loaded(now, before) == {now} \cup (IF SMP THEN {before} ELSE {})

\* `status = (status | set) & ~clear' of a request, of the dispatcher.
StoreReq(s, before, set, clear) ==
    \E old \in Loaded(status[s], before) :
        status' = [status EXCEPT ![s] = (old \cup set) \ clear]

StoreDispr(before, set, clear) ==
    \E old \in Loaded(dispr, before) : dispr' = (old \cup set) \ clear

CallAllowed(c) ==
    /\ cpc[c] = "rdy"
    /\ "STARTED" \in dispr

\* dispr_add_token_req: the check on entry,
AddCheck(c) ==
    /\ CallAllowed(c)
    /\ adds < MaxAdds
    /\ adds' = adds + 1
    /\ cancels' = cancels
    /\ told[c] \in {"none", "over"}
    /\ cpc' = [cpc EXCEPT ![c] = "addPop"]
    /\ UNCHANGED <<reqVars, opVars, tokVars, dispr, engVars, bkVars, hdl, snap, told,
                   msgVars, oops>>

\* RTW_PHL_STATUS_RESOURCE when the pool is empty,
AddFull(c) ==
    /\ cpc[c] = "addPop"
    /\ token_req_idle_q = <<>>
    /\ cpc' = [cpc EXCEPT ![c] = "rdy"]
    /\ UNCHANGED <<reqVars, opVars, tokVars, dispr, engVars, bkVars, hdl, snap, told,
                   msgVars, oops>>

\* otherwise pop_front_idle_req clears the slot, its two infos included, and the
\* request is copied in.  Clearing an info that is linked in token_op_q cuts
\* that list.
AddPop(c) ==
    /\ cpc[c] = "addPop"
    /\ token_req_idle_q # <<>>
    /\ LET s == pq_front(token_req_idle_q)
           own == {AddInfo(s), FreeInfo(s)}
       IN  /\ token_req_idle_q' = pq_pop(token_req_idle_q)
           /\ status' = [status EXCEPT ![s] = {}]
           /\ req' = [req EXCEPT ![s] = c]
           /\ used' = used \ own
           /\ type' = [i \in Infos |-> IF i \in own THEN "none" ELSE type[i]]
           /\ hdl' = [hdl EXCEPT ![c] = s]
           /\ oops' = \E i \in own : Linked(token_op_q, i)
    /\ cpc' = [cpc EXCEPT ![c] = "addPush"]
    /\ told' = [told EXCEPT ![c] = "none"]
    /\ UNCHANGED <<token_req_wait_q, token_op_q, tokVars, dispr, engVars, bkVars,
                   snap, msgVars>>

\* Mutant: the newest request is queued first.
AddPush_First(c) ==
    /\ cpc[c] = "addPush"
    /\ token_req_wait_q' = <<hdl[c]>> \o token_req_wait_q
    /\ told' = [told EXCEPT ![c] = "added"]
    /\ cpc' = [cpc EXCEPT ![c] = "addEnq"]
    /\ UNCHANGED <<token_req_idle_q, status, req, opVars, tokVars, dispr, engVars,
                   bkVars, hdl, snap, msgVars, oops>>

\* push_back_wait_req links the request first ...
AddPush(c) ==
    /\ cpc[c] = "addPush"
    /\ token_req_wait_q' = pq_push(token_req_wait_q, hdl[c])
    /\ told' = [told EXCEPT ![c] = "added"]
    /\ cpc' = [cpc EXCEPT ![c] = IF SMP THEN "addLoad" ELSE "addEnq"]
    /\ UNCHANGED <<token_req_idle_q, status, req, opVars, tokVars, dispr, engVars,
                   bkVars, hdl, snap, msgVars, oops>>

\* ... and sets REQ_STATUS_ENQ afterwards, when the background thread may
\* already have taken it.
AddLoad(c) ==
    /\ cpc[c] = "addLoad"
    /\ snap' = [snap EXCEPT ![c] = status[hdl[c]]]
    /\ cpc' = [cpc EXCEPT ![c] = "addEnq"]
    /\ UNCHANGED <<reqVars, opVars, tokVars, dispr, engVars, bkVars, hdl, told,
                   msgVars, oops>>

AddEnq(c) ==
    /\ cpc[c] = "addEnq"
    /\ StoreReq(hdl[c], snap[c], {"ENQ"}, {})
    /\ snap' = [snap EXCEPT ![c] = {}]
    /\ cpc' = [cpc EXCEPT ![c] = "addOp"]
    /\ UNCHANGED <<token_req_idle_q, token_req_wait_q, req, opVars, tokVars, dispr,
                   engVars, bkVars, hdl, told, msgVars, oops>>

\* push_back_token_op_info under token_op_q_lock: refused while the info is used.
MarkUsed(i, t) ==
    /\ used' = used \cup {i}
    /\ type' = [type EXCEPT ![i] = t]

\* Mutant: the background thread is not woken.
LinkOp_NoWake(i) ==
    /\ token_op_q' = pq_push(token_op_q, i)
    /\ sema' = sema
    /\ oops' = Linked(token_op_q, i)

\* push_back_token_op_info after the unlock: link the info and wake the thread.
LinkOp(i) ==
    /\ token_op_q' = pq_push(token_op_q, i)
    /\ sema' = sema + 1
    /\ oops' = Linked(token_op_q, i)

CallOp(c, pc, next, i, t) ==
    /\ cpc[c] = pc
    /\ IF i \in used
       THEN cpc' = [cpc EXCEPT ![c] = "rdy"] /\ UNCHANGED <<used, type>>
       ELSE cpc' = [cpc EXCEPT ![c] = next] /\ MarkUsed(i, t)
    /\ UNCHANGED <<reqVars, token_op_q, tokVars, dispr, engVars, bkVars, hdl, snap,
                   told, msgVars, oops>>

CallOpPush(c, pc, i) ==
    /\ cpc[c] = pc
    /\ LinkOp(i)
    /\ cpc' = [cpc EXCEPT ![c] = "rdy"]
    /\ UNCHANGED <<reqVars, used, type, tokVars, dispr, mpc, msnap,
                   bkVars, hdl, snap, told, msgVars>>

AddOp(c)     == CallOp(c, "addOp", "addOpPush", AddInfo(hdl[c]), "ADD")
AddOpPush(c) == CallOpPush(c, "addOpPush", AddInfo(hdl[c]))

\* dispr_cancel_token_req.  The status is tested, then or-ed with CANCEL without
\* a lock; the compiler may reuse the value it loaded for the test.
CancelCheck(c) ==
    /\ CallAllowed(c)
    /\ cancels < MaxCancels
    /\ cancels' = cancels + 1
    /\ adds' = adds
    /\ told[c] \in {"added", "held"}
    /\ status[hdl[c]] \cap {"ENQ", "RUN", "PREPARE"} # {}
    /\ snap' = [snap EXCEPT ![c] = IF SMP THEN status[hdl[c]] ELSE {}]
    /\ cpc' = [cpc EXCEPT ![c] = "canSet"]
    /\ UNCHANGED <<reqVars, opVars, tokVars, dispr, engVars, bkVars, hdl, told,
                   msgVars, oops>>

CancelSet(c) ==
    /\ cpc[c] = "canSet"
    /\ StoreReq(hdl[c], snap[c], {"CANCEL"}, {})
    /\ snap' = [snap EXCEPT ![c] = {}]
    /\ cpc' = [cpc EXCEPT ![c] = "canOp"]
    /\ UNCHANGED <<token_req_idle_q, token_req_wait_q, req, opVars, tokVars, dispr,
                   engVars, bkVars, hdl, told, msgVars, oops>>

CancelOp(c)     == CallOp(c, "canOp", "canOpPush", FreeInfo(hdl[c]), "CANCEL")
CancelOpPush(c) == CallOpPush(c, "canOpPush", FreeInfo(hdl[c]))
-----------------------------------------------------------------------------
(* The background thread: share_thread_hdl and dispr_thread_loop_hdl. *)

SetDisprFlag(f)    == StoreDispr(seen.dispr, {f}, {})
ClearDisprFlag(f)  == StoreDispr(seen.dispr, {}, {f})
SetReqFlag(s, f)   == StoreReq(s, seen.status[s], {f}, {})
ClearReqFlag(s, f) == StoreReq(s, seen.status[s], {}, {f})

\* _os_sema_down; when the thread was told to stop it leaves its loop and runs
\* dispr_thread_leave_hdl.
BkWake ==
    /\ bkpc = "sleep"
    /\ sema > 0
    /\ sema' = sema - 1
    /\ IF mpc \in {"wait", "down"}  \* _os_thread_check_stop
       THEN bkpc' = "dereg1" /\ notify' = "leave"
       ELSE bkpc' = "ops" /\ UNCHANGED notify
    /\ UNCHANGED <<reqVars, opVars, tokVars, dispr, mpc, msnap, ex, info,
                   callVars, told, msgVars, oops>>

\* token_op_hanler drains token_op_q before a message is looked at.
BkPopOp ==
    /\ bkpc = "ops"
    /\ IF token_op_q = <<>>
       THEN bkpc' = "msg" /\ UNCHANGED <<token_op_q, info>>
       ELSE /\ bkpc' = "handle"
            /\ info' = pq_front(token_op_q)
            /\ token_op_q' = pq_pop(token_op_q)
    /\ UNCHANGED <<reqVars, used, type, tokVars, dispr, engVars, ex, notify,
                   callVars, told, msgVars, oops>>

\* The requestor of a waiting request is told that it is over; the slot is recycled.
Abort(s) ==
    /\ told' = [told EXCEPT ![req[s]] = "over"]
    /\ status' = [status EXCEPT ![s] = {}]
    /\ token_req_idle_q' = pq_push(token_req_idle_q, s)
    /\ UNCHANGED req

\* A CANCEL of a request that is marked as queued: it is unlinked from the wait
\* queue and aborted.  Where it is in no queue, list_del meets poisoned links: the
\* kernel faults there, or (with list checking) warns and goes on with the abort.
BkCancelWaiting ==
    /\ bkpc = "handle"
    /\ type[info] = "CANCEL"
    /\ info[1] \in Slots  \* else: op_info->data >= MAX_CMD_REQ_NUM
    /\ "ENQ" \in status[info[1]]
    /\ \/ /\ Linked(token_req_wait_q, info[1])
          /\ token_req_wait_q' = pq_del_node(token_req_wait_q, info[1])
          /\ Abort(info[1])
          /\ UNCHANGED oops
       \/ /\ ~Linked(token_req_wait_q, info[1])
          /\ oops' = TRUE
          /\ UNCHANGED token_req_wait_q
          /\ Abort(info[1]) \/ UNCHANGED <<token_req_idle_q, status, req, told>>
    /\ bkpc' = "rel"
    /\ UNCHANGED <<opVars, tokVars, dispr, engVars, ex, info, notify, callVars,
                   msgVars>>

\* Mutant: a running request is cancelled without notify.
BkHandle_Silent ==
    /\ bkpc = "handle"
    /\ LET t == type[info]
           running == t \in {"FREE", "CANCEL"} /\ "RUN" \in status[info[1]]
       IN  /\ ~(t = "CANCEL" /\ "ENQ" \in status[info[1]])
           /\ bkpc' = IF t \in {"ADD", "RENEW"} THEN "proc"
                      ELSE IF running THEN "dereg1" ELSE "rel"
    /\ UNCHANGED <<reqVars, opVars, tokVars, dispr, engVars, ex, info, notify, callVars,
                   told, msgVars, oops>>

\* Every other case of _handle_token_op_info only chooses what runs next.
BkHandle ==
    /\ bkpc = "handle"
    /\ LET t == type[info]
           running == t \in {"FREE", "CANCEL"} /\ "RUN" \in status[info[1]]
       IN  /\ ~(t = "CANCEL" /\ "ENQ" \in status[info[1]])
           /\ bkpc' = IF t \in {"ADD", "RENEW"} THEN "proc"
                      ELSE IF running THEN "dereg1" ELSE "rel"
           /\ notify' = IF running /\ t = "CANCEL" THEN "abort" ELSE "no"
    /\ UNCHANGED <<reqVars, opVars, tokVars, dispr, engVars, ex, info, callVars, told,
                   msgVars, oops>>

\* deregister_cur_cmd_req up to the abort callback.  RUN is cleared, the
\* holder's queued messages are cancelled, and with notify the requestor is told
\* that it is over; its abort handler may send one message with
\* MSG_OPT_SEND_IN_ABORT, which is refused once the dispatcher is not started.
AfterDereg == IF notify = "leave" THEN "clrmsg" ELSE "proc"

BkDeregister ==
    /\ bkpc = "dereg1"
    /\ IF cur_cmd_req = NULL
       THEN /\ bkpc' = AfterDereg
            /\ notify' = "no"
            /\ UNCHANGED <<status, end_msgs, told, abort_msgs, dispr, sema>>
       ELSE /\ bkpc' = "dereg2"
            /\ UNCHANGED notify
            /\ ClearReqFlag(cur_cmd_req, "RUN")
            /\ end_msgs' = 0
            /\ \/ notify = "no" /\ UNCHANGED <<told, abort_msgs, dispr, sema>>
               \/ /\ notify # "no"
                  /\ told' = [told EXCEPT ![req[cur_cmd_req]] = "over"]
                  /\ \/ UNCHANGED <<abort_msgs, dispr, sema>>
                     \/ /\ "STARTED" \in dispr
                        /\ abort_msgs' = abort_msgs + 1
                        /\ SetDisprFlag("WAIT_ABORT_MSG_DONE")
                        /\ sema' = sema + 1
    /\ UNCHANGED <<token_req_idle_q, token_req_wait_q, req, opVars, tokVars,
                   mpc, msnap, ex, info, callVars, oops>>

\* ... push_back_idle_req recycles the slot while cur_cmd_req still points at it ...
BkRecycle ==
    /\ bkpc = "dereg2"
    /\ status' = [status EXCEPT ![cur_cmd_req] = {}]
    /\ token_req_idle_q' = pq_push(token_req_idle_q, cur_cmd_req)
    /\ bkpc' = "dereg3"
    /\ UNCHANGED <<token_req_wait_q, req, opVars, tokVars, dispr, engVars, ex, info,
                   notify, callVars, told, msgVars, oops>>

\* ... and the token is given back.
BkGiveBack ==
    /\ bkpc = "dereg3"
    /\ token_cnt' = token_cnt - 1
    /\ cur_cmd_req' = NULL
    /\ bkpc' = AfterDereg
    /\ notify' = "no"
    /\ UNCHANGED <<reqVars, opVars, dispr, engVars, ex, info, callVars, told,
                   msgVars, oops>>

\* Mutant: the previous holder's last message is not awaited.
MayRegister_NoWait ==
    "STARTED" \in dispr /\ "SHALL_STOP" \notin dispr /\ token_cnt = 0

\* Mutant: a request is registered while the token is taken.
MayRegister_Taken ==
    /\ "STARTED" \in dispr /\ "SHALL_STOP" \notin dispr
    /\ "WAIT_ABORT_MSG_DONE" \notin dispr

\* dispr_process_token_req: its early returns,
MayRegister ==
    /\ "STARTED" \in dispr
    /\ "SHALL_STOP" \notin dispr
    /\ token_cnt = 0
    /\ "WAIT_ABORT_MSG_DONE" \notin dispr

BkProcessRefused ==
    /\ bkpc = "proc"
    /\ ~MayRegister
    /\ bkpc' = "rel"
    /\ UNCHANGED <<reqVars, opVars, tokVars, dispr, engVars, ex, info, notify,
                   callVars, told, msgVars, oops>>

\* send_bk_msg_phy_on, send_bk_msg_phy_idle: the message wakes the thread, or
\* dispr_send_msg refuses it, which nobody looks at.
SendPhy == sema' \in {sema, sema + 1}

\* the end of all requests (PHY_IDLE is sent once),
BkProcessIdle ==
    /\ bkpc = "proc"
    /\ MayRegister
    /\ token_req_wait_q = <<>>
    /\ IF "NOTIFY_IDLE" \in dispr
       THEN UNCHANGED <<dispr, sema>>
       ELSE SetDisprFlag("NOTIFY_IDLE") /\ SendPhy
    /\ bkpc' = "rel"
    /\ UNCHANGED <<reqVars, opVars, tokVars, mpc, msnap, ex, info, notify,
                   callVars, told, msgVars, oops>>

\* and pop_front_wait_req, before which an idle PHY is switched on.
BkProcessNext ==
    /\ bkpc = "proc"
    /\ MayRegister
    /\ token_req_wait_q # <<>>
    /\ LET s == pq_front(token_req_wait_q)
       IN  /\ ex' = s
           /\ token_req_wait_q' = pq_pop(token_req_wait_q)
           /\ StoreReq(s, seen.status[s], {"PREPARE"}, {"ENQ"})
    /\ IF "NOTIFY_IDLE" \in dispr
       THEN ClearDisprFlag("NOTIFY_IDLE") /\ SendPhy
       ELSE UNCHANGED <<dispr, sema>>
    /\ bkpc' = "reg"
    /\ UNCHANGED <<token_req_idle_q, req, opVars, tokVars, mpc, msnap, info,
                   notify, callVars, told, msgVars, oops>>

\* register_cur_cmd_req: the request becomes the current one ...
BkRegister ==
    /\ bkpc = "reg"
    /\ StoreReq(ex, seen.status[ex], {"RUN"}, {"PREPARE"})
    /\ cur_cmd_req' = ex
    /\ token_cnt' = token_cnt + 1
    /\ ex' = NULL
    /\ bkpc' = "acq"
    /\ UNCHANGED <<token_req_idle_q, token_req_wait_q, req, opVars, dispr, engVars,
                   info, notify, callVars, told, msgVars, oops>>

\* ... and its acquired callback runs, which may refuse the token; then the next
\* request is tried.
BkAcquired ==
    /\ bkpc = "acq"
    /\ \/ /\ told' = [told EXCEPT ![req[cur_cmd_req]] = "held"]
          /\ bkpc' = "rel"
          /\ UNCHANGED notify
       \/ /\ told' = [told EXCEPT ![req[cur_cmd_req]] = "over"]
          /\ bkpc' = "dereg1"
          /\ notify' = "no"
    /\ UNCHANGED <<reqVars, opVars, tokVars, dispr, engVars, ex, info, callVars,
                   msgVars, oops>>

\* token_op_hanler after the operation: info->used = false.
BkRelease ==
    /\ bkpc = "rel"
    /\ used' = used \ {info}
    /\ info' = NoInfo
    /\ bkpc' = "ops"
    /\ UNCHANGED <<reqVars, token_op_q, type, tokVars, dispr, engVars, ex, notify,
                   callVars, told, msgVars, oops>>
-----------------------------------------------------------------------------
(* The messages the token protocol depends on; at most one per wake-up. *)

\* on_abort_msg_complete.
AbortMsgDone ==
    /\ ClearDisprFlag("WAIT_ABORT_MSG_DONE")
    /\ IF RenewInfo \in used
       THEN UNCHANGED <<opVars, sema, oops>>
       ELSE MarkUsed(RenewInfo, "RENEW") /\ LinkOp(RenewInfo)

\* No message, or one of no concern here is ahead of them (a wake-up per message).
BkMsgNone ==
    /\ bkpc = "msg"
    /\ sema > 0 \/ (end_msgs = 0 /\ abort_msgs = 0)
    /\ bkpc' = "sleep"
    /\ UNCHANGED <<reqVars, opVars, tokVars, dispr, engVars, ex, info, notify,
                   callVars, told, msgVars, oops>>

\* The message sent from an abort callback is recycled, dispatched or cancelled.
BkMsgAbort ==
    /\ bkpc = "msg"
    /\ abort_msgs > 0
    /\ abort_msgs' = abort_msgs - 1
    /\ AbortMsgDone
    /\ bkpc' = "sleep"
    /\ UNCHANGED <<reqVars, tokVars, mpc, msnap, ex, info, notify,
                   callVars, told, end_msgs>>

\* The holder's message reaches its handler (cur_req_hdl), which ends the command
\* with dispr_free_token; is_msg_canceled drops it while stopping.
BkMsgEnd ==
    /\ bkpc = "msg"
    /\ end_msgs > 0
    /\ end_msgs' = 0
    /\ IF /\ "STARTED" \in dispr /\ "SHALL_STOP" \notin dispr
          /\ cur_cmd_req # NULL
          /\ "RUN" \in status[cur_cmd_req] /\ "CANCEL" \notin status[cur_cmd_req]
       THEN SetReqFlag(cur_cmd_req, "CANCEL") /\ bkpc' = "free"
       ELSE bkpc' = "sleep" /\ UNCHANGED status
    /\ UNCHANGED <<token_req_idle_q, token_req_wait_q, req, opVars, tokVars, dispr,
                   engVars, ex, info, notify, callVars, told, abort_msgs, oops>>

\* dispr_free_token queues the operation; it fails when a cancel came first.
BkFree ==
    /\ bkpc = "free"
    /\ LET i == FreeInfo(cur_cmd_req)
       IN  IF i \in used
           THEN UNCHANGED <<opVars, sema, oops, told>>
           ELSE /\ MarkUsed(i, "FREE")
                /\ LinkOp(i)
                /\ told' = [told EXCEPT ![req[cur_cmd_req]] = "over"]
    /\ bkpc' = "sleep"
    /\ UNCHANGED <<reqVars, tokVars, dispr, mpc, msnap, ex, info, notify,
                   callVars, msgVars>>

\* The holder, or a module working for it, sends the message that ends its
\* command.  dispr_send_msg refuses it once the request is cancelled.
SendEnd(c) ==
    /\ told[c] = "held"
    /\ end_msgs = 0
    /\ "STARTED" \in dispr
    /\ cur_cmd_req # NULL
    /\ req[cur_cmd_req] = c
    /\ "RUN" \in status[cur_cmd_req] /\ "CANCEL" \notin status[cur_cmd_req]
    /\ end_msgs' = 1
    /\ sema' = sema + 1
    /\ UNCHANGED <<reqVars, opVars, tokVars, dispr, mpc, msnap, bkVars,
                   callVars, told, abort_msgs, oops>>
-----------------------------------------------------------------------------
(* Stopping: dispr_notify_shall_stop, phl_disp_eng_stop, and the thread's exit. *)

MainStep(from, to) == mpc = from /\ mpc' = to

\* Loads of the status word that the next step modifies.
ShallStopCheck ==
    /\ MainStep("up", "shall")
    /\ "SHALL_STOP" \notin dispr
    /\ msnap' = IF SMP THEN [dispr |-> dispr, status |-> msnap.status] ELSE msnap
    /\ UNCHANGED <<reqVars, opVars, tokVars, dispr, sema, bkVars,
                   callVars, told, msgVars, oops>>

ShallStopSet ==
    /\ MainStep("shall", "up")
    /\ StoreDispr(msnap.dispr, {"SHALL_STOP"}, {})
    /\ sema' = sema + 1
    /\ UNCHANGED <<reqVars, opVars, tokVars, msnap, bkVars, callVars,
                   told, msgVars, oops>>

StopLoad ==
    /\ MainStep("up", "stop")
    /\ msnap' = IF SMP THEN [dispr |-> dispr, status |-> status] ELSE msnap
    /\ UNCHANGED <<reqVars, opVars, tokVars, dispr, sema, bkVars,
                   callVars, told, msgVars, oops>>

\* dispr_thread_stop_prior_hdl: no longer started,
StopClear ==
    /\ MainStep("stop", "cancelAll")
    /\ StoreDispr(msnap.dispr, {}, {"STARTED"})
    /\ UNCHANGED <<reqVars, opVars, tokVars, sema, msnap, bkVars,
                   callVars, told, msgVars, oops>>

\* cancel_all_cmd_req.
StopCancelAll ==
    /\ MainStep("cancelAll", "stopThread")
    /\ \E old \in [Slots -> {"now", "before"}] :
          /\ \A s \in Slots : old[s] = "before" => SMP /\ msnap.status[s] # {}
          /\ status' = [s \in Slots |->
                LET v == IF old[s] = "now" THEN status[s] ELSE msnap.status[s]
                IN  IF v = {} THEN v ELSE v \cup {"CANCEL"}]
    /\ UNCHANGED <<token_req_idle_q, token_req_wait_q, req, opVars, tokVars, dispr,
                   sema, msnap, bkVars, callVars, told, msgVars, oops>>

\* Mutant: the thread is told to stop but not woken.
StopThread_NoWake ==
    /\ MainStep("stopThread", "wait")
    /\ UNCHANGED <<reqVars, opVars, tokVars, dispr, sema, msnap, bkVars, callVars,
                   told, msgVars, oops>>

StopThread ==
    /\ MainStep("stopThread", "wait")
    /\ sema' = sema + 1
    /\ UNCHANGED <<reqVars, opVars, tokVars, dispr, msnap, bkVars, callVars, told,
                   msgVars, oops>>

\* dispr_thread_stop_post_hdl, once the thread is gone.
StopPost ==
    /\ MainStep("wait", "down")
    /\ bkpc = "exited"
    /\ token_cnt' = 0
    /\ UNCHANGED <<reqVars, opVars, cur_cmd_req, dispr, sema, msnap,
                   bkVars, callVars, told, msgVars, oops>>

\* clear_waiting_msg as far as the messages modelled here are concerned.
BkClearMsg ==
    /\ bkpc = "clrmsg"
    /\ end_msgs' = 0
    /\ IF abort_msgs > 0
       THEN abort_msgs' = abort_msgs - 1 /\ AbortMsgDone /\ UNCHANGED bkpc
       ELSE bkpc' = "clrreq" /\ UNCHANGED <<abort_msgs, dispr, opVars, sema, oops>>
    /\ UNCHANGED <<reqVars, tokVars, mpc, msnap, ex, info, notify,
                   callVars, told>>

\* clear_wating_req aborts what waits and spins until every slot is idle.
BkClearReq ==
    /\ bkpc = "clrreq"
    /\ token_req_wait_q # <<>>
    /\ token_req_wait_q' = pq_pop(token_req_wait_q)
    /\ Abort(pq_front(token_req_wait_q))
    /\ UNCHANGED <<opVars, tokVars, dispr, engVars, bkVars, callVars, msgVars,
                   oops>>

\* Mutant: the clean-up does not wait for every slot.
BkExit_Early ==
    /\ bkpc = "clrreq"
    /\ bkpc' = "exited"
    /\ UNCHANGED <<reqVars, opVars, tokVars, dispr, engVars, ex, info, notify,
                   callVars, told, msgVars, oops>>

BkExit ==
    /\ bkpc = "clrreq"
    /\ Len(token_req_idle_q) = MAX_CMD_REQ_NUM
    /\ bkpc' = "exited"
    /\ UNCHANGED <<reqVars, opVars, tokVars, dispr, engVars, ex, info, notify,
                   callVars, told, msgVars, oops>>
-----------------------------------------------------------------------------
InCall(c) ==
    \/ AddFull(c) \/ AddPop(c) \/ AddPush(c) \/ AddLoad(c)
    \/ AddEnq(c) \/ AddOp(c) \/ AddOpPush(c)
    \/ CancelSet(c) \/ CancelOp(c) \/ CancelOpPush(c)

Main ==
    /\ MayStop /\ UNCHANGED boundVars
    /\ \/ ShallStopCheck \/ ShallStopSet
       \/ StopLoad \/ StopClear \/ StopCancelAll \/ StopThread \/ StopPost

BkStep ==
    \/ BkWake \/ BkPopOp \/ BkCancelWaiting \/ BkHandle
    \/ BkDeregister \/ BkRecycle \/ BkGiveBack
    \/ BkProcessRefused \/ BkProcessIdle \/ BkProcessNext
    \/ BkRegister \/ BkAcquired \/ BkRelease
    \/ BkMsgNone \/ BkMsgAbort \/ BkMsgEnd \/ BkFree
    \/ BkClearMsg \/ BkClearReq \/ BkExit

Bk ==
    /\ BkStep
    /\ UNCHANGED boundVars
    /\ seen' = IF SMP THEN [dispr |-> dispr', status |-> status'] ELSE seen

Requestor(c) ==
    \/ AddCheck(c) \/ CancelCheck(c)
    \/ UNCHANGED boundVars /\ (InCall(c) \/ SendEnd(c))

\* Nothing more happens: the lists are corrupt, or the dispatcher is stopped.
Halted ==
    /\ oops \/ mpc = "down" \/ adds = MaxAdds
    /\ UNCHANGED vars

Next ==
    \/ ~oops /\ Bk
    \/ ~oops /\ UNCHANGED seen /\ (Main \/ \E c \in Clients : Requestor(c))
    \/ Halted

Spec == Init /\ [][Next]_vars

(***************************************************************************)
(* Fairness.  The background thread and a thread inside a call are scheduled;  *)
(* the holder's command ends.  Nobody has to start a call, or to stop the      *)
(* dispatcher.                                                                  *)
(***************************************************************************)
Finish(c) == ~oops /\ UNCHANGED <<seen, boundVars>> /\ InCall(c)
EndCommand(c) == ~oops /\ UNCHANGED <<seen, boundVars>> /\ SendEnd(c)
FinishStop == ~oops /\ UNCHANGED seen /\ mpc # "up" /\ Main

Fairness ==
    /\ WF_vars(~oops /\ Bk)
    /\ WF_vars(FinishStop)
    /\ \A c \in Clients : WF_vars(Finish(c)) /\ WF_vars(EndCommand(c))

FairSpec == Spec /\ Fairness
-----------------------------------------------------------------------------
\* The types, by groups of variables.
ReqOK ==
    /\ token_req_idle_q \in Seq(Slots) /\ token_req_wait_q \in Seq(Slots)
    /\ status \in [Slots -> SUBSET ReqFlags]
    /\ req \in [Slots -> Clients \cup {NULL}]
OpOK ==
    /\ token_op_q \in Seq(Infos)
    /\ used \subseteq Infos /\ type \in [Infos -> OpTypes]
TokOK == cur_cmd_req \in Slots \cup {NULL} /\ token_cnt \in Nat
EngOK == sema \in Nat /\ mpc \in MainPcs /\ msnap \in Words
BkOK ==
    /\ bkpc \in BkPcs /\ ex \in Slots \cup {NULL}
    /\ info \in Infos \cup {NoInfo} /\ notify \in {"no", "abort", "leave"}
BoundOK == adds \in Nat /\ cancels \in Nat
CallOK ==
    /\ cpc \in [Clients -> CallPcs] /\ hdl \in [Clients -> Slots \cup {NULL}]
    /\ snap \in [Clients -> SUBSET ReqFlags]
MsgOK == end_msgs \in Nat /\ abort_msgs \in Nat

TypeOK ==
    /\ ReqOK /\ OpOK /\ TokOK /\ EngOK /\ BkOK /\ BoundOK /\ CallOK /\ MsgOK
    /\ dispr \subseteq DisprFlags
    /\ told \in [Clients -> {"none", "added", "held", "over"}]
    /\ oops \in BOOLEAN
    /\ seen \in Words

\* Where a slot is: in a queue, in the hands of a requestor that is adding it,
\* in the hands of the background thread, or the current request.
Adding(c, s) == cpc[c] = "addPush" /\ hdl[c] = s
Current(s)   == cur_cmd_req = s /\ bkpc # "dereg3"

\* Every slot is in exactly one place, and once in it.
Places ==
    /\ NoDup(token_req_idle_q)
    /\ NoDup(token_req_wait_q)
    /\ \A s \in Slots :
          /\ \/ Linked(token_req_idle_q, s) \/ Linked(token_req_wait_q, s)
             \/ \E c \in Clients : Adding(c, s)
             \/ ex = s \/ Current(s)
          /\ ~(Linked(token_req_idle_q, s) /\ Linked(token_req_wait_q, s))
          /\ (\E c \in Clients : Adding(c, s)) =>
                ~Linked(token_req_idle_q, s) /\ ~Linked(token_req_wait_q, s)
          /\ (ex = s \/ Current(s)) =>
                /\ ~Linked(token_req_idle_q, s) /\ ~Linked(token_req_wait_q, s)
                /\ \A c \in Clients : ~Adding(c, s)
          /\ \A c1, c2 \in Clients : Adding(c1, s) /\ Adding(c2, s) => c1 = c2
          /\ ~(ex = s /\ cur_cmd_req # NULL)

\* No slot of the request pool is lost or handed out twice: whatever the order of
\* adding, cancelling, registering, releasing and stopping, every slot is in
\* exactly one place, unless a list operation was applied to a node that is not in
\* the list.  (pop_front_idle_req, push_back_wait_req, _handle_token_op_info,
\* deregister_cur_cmd_req, clear_wating_req.)
SlotPlaces == oops \/ Places

\* token_cnt counts the current request: it is 1 exactly while there is one, and
\* never more (register_cur_cmd_req, deregister_cur_cmd_req).
TokenCount == token_cnt = IF cur_cmd_req = NULL THEN 0 ELSE 1

\* The token is exclusive: at most one requestor has been told that it acquired
\* the token and not yet been told, or said itself, that it is over.
Exclusive ==
    \A c1, c2 \in Clients : told[c1] = "held" /\ told[c2] = "held" => c1 = c2

\* "wait for abort msg sent from prev req finish before register next req"
\* (dispr_process_token_req): no request is registered while the message that the
\* previous holder sent from its abort callback is still queued.
NextAfterAbortMsg ==
    [][bkpc = "reg" /\ bkpc' = "acq" => abort_msgs = 0]_vars

\* The thread leaves nobody behind: when it exits, no requestor is waiting for the
\* token or holding it (dispr_thread_leave_hdl).
ExitTellsAll ==
    [][bkpc' = "exited" /\ bkpc # "exited" =>
          \A c \in Clients : told[c] \notin {"added", "held"}]_vars

\* "notify requestor when cmd has been canceled after calling
\* rtw_phl_phy_cancel_token_req" (phl_def.h, @abort): once dispr_cancel_token_req has
\* queued its operation, the requestor is told that its command is over.
CancelIsTold ==
    \A c \in Clients : (cpc[c] = "canOpPush") ~> (told[c] = "over")

\* The dispatcher is a first-come, first-served token: the request popped from the
\* wait queue owns the token until push_back_idle_req recycles it.
FgOwner == IF ex # NULL THEN ex ELSE IF bkpc = "dereg3" THEN NULL ELSE cur_cmd_req

Fg == INSTANCE FgToken WITH Requests <- Slots, queue <- token_req_wait_q,
                            owner <- FgOwner

\* Every behaviour of the threads is one of the token service FgToken: requests are
\* served one at a time, in the order in which push_back_wait_req queued them.
FgTokenSpec == Fg!Spec

\* Once phl_disp_eng_stop has begun, it ends: the thread is woken, leaves and the
\* spinning clean-up finds every slot again.
StopCompletes == (mpc = "stop") ~> (oops \/ mpc = "down")

\* The pool ran so low that a slot was handed out again while the call that added
\* it before, or the operation queued for it before, was still under way.
EarlyReuse ==
    \E c \in Clients, s \in Slots :
        /\ Adding(c, s)
        /\ \/ info[1] = s
           \/ \E d \in Clients \ {c} : cpc[d] # "rdy" /\ hdl[d] = s

\* A request is not forgotten: it is acquired, refused or aborted, unless the
\* dispatcher is being stopped, and provided that no slot is reused early
\* (dispr_add_token_req ignores that its operation was not queued).
Served ==
    [](~EarlyReuse) =>
        \A c \in Clients :
            (told[c] = "added") ~>
                (told[c] \in {"held", "over"} \/ oops \/ "SHALL_STOP" \in dispr
                 \/ mpc # "up")
=============================================================================
