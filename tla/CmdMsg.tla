------------------------------- MODULE CmdMsg -------------------------------
(***************************************************************************)
(* The messages of one PHL command dispatcher (phl/phl_cmd_dispatcher.c).   *)
(* A background module or the controller takes a slot of the message pool,   *)
(* fills it and queues it (dispr_send_msg); the background thread feeds it   *)
(* to every module named in its bitmaps, in two phases, and hands the slot   *)
(* back after the sender's completion routine.  On the way a message can be  *)
(* cancelled by its sender, fail or be put off by a module, be dropped or    *)
(* put off because the device cannot do I/O, or be flushed by a stop.        *)
(*                                                                           *)
(* A step of a thread reaches from one access to shared state that another   *)
(* thread can observe to the next; every pq_* call is one step.  Messages of *)
(* foreground commands, which need the command token, are in CmdToken.       *)
(***************************************************************************)
EXTENDS Integers, Sequences, FiniteSets, PhlQueue

CONSTANTS
    Senders,          \* threads that send (and cancel) messages
    IO,               \* the thread that pauses device I/O, and that works for
                      \* the modules that put a message off
    Modules,          \* the registered background modules,
    module_q,         \* and their queues: <<role, optional, mandatory>>
    CTRL,             \* the dispatcher's controller as the source of a message
    Src,              \* sender -> the module it sends for, or CTRL
    Notify,           \* sender -> the modules its messages are addressed to
    Opts,             \* sender -> the options of its messages
    ExclMdl,          \* the source that may send while I/O is paused
    MAX_PHL_MSG_NUM,  \* size of the message pool (24 in the source)
    NULL,
    SMP,              \* TRUE: `status |= flag' is a load and a later store
    MaxSends, MaxCancels, \* bounds: calls to send and to cancel,
    MaxHolds, MaxPends,   \* pauses of I/O, and PENDING answers of modules,
    MaxMixed,             \* and cancels and PENDING answers beside a pause
    MayStop               \* FALSE: nobody stops the dispatcher

Slots   == 0..(MAX_PHL_MSG_NUM - 1)
Threads == Senders \cup {IO}
Sources == Modules \cup {CTRL}
Options == {"CLR_SNDR_MSG_IF_PENDING", "PENDING_DURING_CANNOT_IO"}

ASSUME PoolAssumption == MAX_PHL_MSG_NUM \in Nat \ {0}
ASSUME ThreadAssumption ==
    /\ IsFiniteSet(Senders) /\ IO \notin Senders
    /\ NULL \notin Slots /\ NULL \notin Threads /\ NULL \notin Sources
ASSUME ModuleAssumption ==
    /\ module_q \in [1..3 -> Seq(Modules)]
    /\ \A t \in Senders : /\ Src[t] \in Sources /\ Notify[t] \subseteq Modules
                          /\ Opts[t] \subseteq Options
    /\ CTRL \notin Modules /\ ExclMdl \in Sources
ASSUME SmpAssumption == SMP \in BOOLEAN

VARIABLES
    msg_idle_q, msg_wait_q, msg_pend_q,  \* queues of message slots
    status,           \* slot -> set of MSG_STATUS_ flags
    premap, postmap,  \* slot -> modules still to be fed in each phase
    from,             \* slot -> thread that sent its message; stands for the
                      \* event id, the source and the completion routine
    pending_evt,      \* source -> its event that holds the others back, or NULL
    exclusive_mdl,
    dispr,            \* the DISPR_ flags that the messages depend on
    bitmap,           \* the modules that are started
    sema,             \* msg_q_sema of the background thread
    bkpc, ex, phase, todo, mdl,  \* background thread: control and locals
    seen,             \* the shared words as the background thread left them
    spc, mx, hdl, allow_io, snap,  \* sending threads: control and locals
    mpc, mi, msnap,                \* stopping thread: control and locals
    owes,             \* a module that put a message off has yet to resume it
    told,             \* slot -> how its message was completed
    fed,              \* slot -> <<phase, module>> that have taken the message
    canc,             \* slot -> its message is being or was cancelled
    count             \* calls and answers so far, against the bounds

queues   == <<msg_idle_q, msg_wait_q, msg_pend_q>>
msgVars  == <<status, premap, postmap, from, pending_evt>>
dspVars  == <<dispr, exclusive_mdl, bitmap>>
bkVars   == <<bkpc, ex, phase, todo, mdl>>
callVars == <<spc, mx, hdl, allow_io, snap>>
mainVars == <<mpc, mi, msnap>>
ghosts   == <<owes, told, fed, canc>>
vars == <<queues, msgVars, dspVars, sema, bkVars, seen, callVars, mainVars, ghosts,
          count>>

MsgFlags == Options \cup {"ENQ", "RUN", "NOTIFY_COMPLETE", "CANCEL", "PRE_PHASE",
                          "FAIL", "PENDING"}
DisprFlags == {"STARTED", "SHALL_STOP", "CLR_PEND_MSG", "CTRL_PRESENT", "CANNOT_IO"}
BkPcs == {"sleep", "pend", "drain", "pop", "run", "chk", "chkio", "put", "and",
          "disp", "ctrl", "enter", "look", "feed", "clrbit", "fail", "putoff",
          "redir", "preEnd", "half", "post", "postEnd", "drop", "resched",
          "complete", "idle", "clear", "exited"}
CallPcs == {"rdy", "pop", "push", "notify", "canPre", "canPost", "canSet",
            "flag", "excl", "clrpend", "clrnotify"}
MainPcs == {"up", "shall", "shallClr", "shallUp", "mdl", "stop", "ctrl", "scan",
            "canPre", "canPost", "canSet", "kill", "wait", "down"}

\* The words that are read and written without a lock.
Words == [dispr : SUBSET DisprFlags, status : [Slots -> SUBSET MsgFlags],
          premap : [Slots -> SUBSET Modules], postmap : [Slots -> SUBSET Modules]]
WordsNow == [dispr |-> dispr, status |-> status, premap |-> premap,
             postmap |-> postmap]

\* init_dispr_msg_pool, init_dispr_mdl_mgnt_info, dispr_start, dispr_module_start.
Init ==
    /\ msg_idle_q = [i \in 1..MAX_PHL_MSG_NUM |-> i - 1]
    /\ msg_wait_q = <<>>
    /\ msg_pend_q = <<>>
    /\ status = [s \in Slots |-> {}]
    /\ premap = [s \in Slots |-> {}]
    /\ postmap = [s \in Slots |-> {}]
    /\ from = [s \in Slots |-> IO]
    /\ pending_evt = [m \in Sources |-> NULL]
    /\ exclusive_mdl = NULL
    /\ dispr = {"STARTED", "CTRL_PRESENT"}
    /\ bitmap = Modules
    /\ sema = 0
    /\ bkpc = "sleep"
    /\ ex = NULL
    /\ phase = "pre"
    /\ todo = <<>>
    /\ mdl = NULL
    /\ seen = WordsNow
    /\ spc = [t \in Threads |-> "rdy"]
    /\ mx = [t \in Threads |-> NULL]
    /\ hdl = [t \in Threads |-> NULL]
    /\ allow_io = TRUE
    /\ snap = [t \in Threads |-> WordsNow]
    /\ mpc = "up"
    /\ mi = 0
    /\ msnap = WordsNow
    /\ owes = FALSE
    /\ told = [s \in Slots |-> "none"]
    /\ fed = [s \in Slots |-> {}]
    /\ canc = [s \in Slots |-> FALSE]
    /\ count = [sends |-> 0, cancels |-> 0, holds |-> 0, pends |-> 0]
-----------------------------------------------------------------------------
(* Shared words. *)

\* The values `word |= flag' may start from: the word itself or, where another
\* thread stored into it in the meantime, the value loaded before that.
Loaded(now, before) == {now} \cup (IF SMP THEN {before} ELSE {})

\* `status = (status | set) & ~clear' of a message, of the dispatcher.
StoreMsg(s, before, set, clear) ==
    \E old \in Loaded(status[s], before.status[s]) :
        status' = [status EXCEPT ![s] = (old \cup set) \ clear]

StoreDispr(before, set, clear) ==
    \E old \in Loaded(dispr, before.dispr) : dispr' = (old \cup set) \ clear

\* The module id of a message.
SrcOf(t)  == IF t = IO THEN CTRL ELSE Src[t]
IsCtrl(s) == SrcOf(from[s]) = CTRL          \* IS_DISPR_CTRL of that id

is_higher_priority(s, t) == IsCtrl(s) /\ ~IsCtrl(t)

\* insert_msg_by_priority for a control message, push_back_wait_msg for others.
Enqueue(s) ==
    IF IsCtrl(s) THEN pq_insert(msg_wait_q, s, {t \in Slots : is_higher_priority(s, t)})
                 ELSE pq_push(msg_wait_q, s)
-----------------------------------------------------------------------------
(* dispr_send_msg. *)

\* Every step of a sending thread: it leaves these alone, and remembers the words.
CallFrame(t) ==
    /\ UNCHANGED <<bkVars, seen, mainVars, pending_evt, bitmap, owes>>
    /\ snap' = IF SMP THEN [snap EXCEPT ![t] = WordsNow'] ELSE snap

Go(t, pc, next) == spc[t] = pc /\ spc' = [spc EXCEPT ![t] = next]

\* Where the call returns to: a resume goes on with dispr_clr_pending_msg.
AfterSend(t) == IF t = IO /\ allow_io THEN "clrpend" ELSE "rdy"

\* The checks on entry; a module that is not started may not send.
SendCheck(t) ==
    /\ t # IO /\ Go(t, "rdy", "pop")
    /\ "STARTED" \in dispr
    /\ Src[t] \in bitmap \cup {CTRL}
    /\ count.sends < MaxSends
    /\ count' = [count EXCEPT !.sends = @ + 1]
    /\ UNCHANGED <<queues, status, premap, postmap, from, dispr, exclusive_mdl, sema,
                   mx, hdl, allow_io, told, fed, canc>>

\* RTW_PHL_STATUS_RESOURCE when the pool is empty.
SendFull(t) ==
    /\ Go(t, "pop", AfterSend(t))
    /\ msg_idle_q = <<>>
    /\ UNCHANGED <<queues, status, premap, postmap, from, dispr, exclusive_mdl, sema,
                   mx, hdl, allow_io, told, fed, canc, count>>

\* The modules that set_msg_bitmap and set_msg_custom_bitmap select.
msg_bitmap(t) == IF t = IO THEN bitmap ELSE (Notify[t] \cup {Src[t]}) \cap bitmap

\* The flags of a message; those that the dispatcher sends itself have neither
\* options nor a completion routine.
msg_status(t) ==
    {"PRE_PHASE", "ENQ"} \cup (IF t = IO THEN {} ELSE Opts[t] \cup {"NOTIFY_COMPLETE"})

\* pop_front_idle_msg clears the slot; it is filled and marked as queued.
SendPop(t) ==
    /\ Go(t, "pop", "push")
    /\ msg_idle_q # <<>>
    /\ LET s == pq_front(msg_idle_q)
       IN  /\ msg_idle_q' = pq_pop(msg_idle_q)
           /\ status' = [status EXCEPT ![s] = msg_status(t)]
           /\ premap' = [premap EXCEPT ![s] = msg_bitmap(t)]
           /\ postmap' = [postmap EXCEPT ![s] = msg_bitmap(t)]
           /\ from' = [from EXCEPT ![s] = t]
           /\ mx' = [mx EXCEPT ![t] = s]
           /\ told' = [told EXCEPT ![s] = IF t = IO THEN "none" ELSE "sent"]
           /\ fed' = [fed EXCEPT ![s] = {}]
           /\ canc' = [canc EXCEPT ![s] = FALSE]
    /\ hdl' = [hdl EXCEPT ![t] = NULL]
    /\ UNCHANGED <<msg_wait_q, msg_pend_q, dispr, exclusive_mdl, sema, allow_io, count>>

\* The message is linked; the background thread may take it at once ...
SendPush(t) ==
    /\ Go(t, "push", "notify")
    /\ msg_wait_q' = Enqueue(mx[t])
    /\ UNCHANGED <<msg_idle_q, msg_pend_q, status, premap, postmap, from, dispr,
                   exclusive_mdl, sema, mx, hdl, allow_io, told, fed, canc, count>>

\* Mutant: the background thread is not woken.
SendNotify_NoWake(t) ==
    /\ Go(t, "notify", AfterSend(t))
    /\ hdl' = [hdl EXCEPT ![t] = IF t = IO THEN NULL ELSE mx[t]]
    /\ mx' = [mx EXCEPT ![t] = NULL]
    /\ UNCHANGED <<queues, status, premap, postmap, from, dispr, exclusive_mdl, sema,
                   allow_io, told, fed, canc, count>>

\* ... before notify_bk_thread, and before the caller has its handle.
SendNotify(t) ==
    /\ Go(t, "notify", AfterSend(t))
    /\ sema' = sema + 1
    /\ hdl' = [hdl EXCEPT ![t] = IF t = IO THEN NULL ELSE mx[t]]
    /\ mx' = [mx EXCEPT ![t] = NULL]
    /\ UNCHANGED <<queues, status, premap, postmap, from, dispr, exclusive_mdl,
                   allow_io, told, fed, canc, count>>
\* The bound on what comes together.
Mixed == count'.holds > 0 => count'.cancels + count'.pends <= MaxMixed
-----------------------------------------------------------------------------
(* dispr_cancel_msg: the handle is consumed, the status tested, both bitmaps    *)
(* zeroed one after the other and CANCEL or-ed in, all without a lock.  The     *)
(* handle is the slot's number, whatever message the slot holds by now.         *)

CancelCheck(t) ==
    /\ spc[t] = "rdy"
    /\ "STARTED" \in dispr
    /\ hdl[t] # NULL
    /\ count.cancels < MaxCancels
    /\ count' = [count EXCEPT !.cancels = @ + 1] /\ Mixed
    /\ hdl' = [hdl EXCEPT ![t] = NULL]
    /\ IF status[hdl[t]] \cap {"ENQ", "RUN"} = {}
       THEN UNCHANGED <<spc, mx>>
       ELSE /\ spc' = [spc EXCEPT ![t] = "canPre"]
            /\ mx' = [mx EXCEPT ![t] = hdl[t]]
    /\ UNCHANGED <<queues, status, premap, postmap, from, dispr, exclusive_mdl, sema,
                   allow_io, told, fed, canc>>

\* A cancel counts for the message it began with: the slot may have passed to another
\* one before CANCEL is set.
CancelPre(t) ==
    /\ Go(t, "canPre", "canPost")
    /\ premap' = [premap EXCEPT ![mx[t]] = {}]
    /\ canc' = [canc EXCEPT ![mx[t]] = TRUE]
    /\ UNCHANGED <<queues, status, postmap, from, dispr, exclusive_mdl, sema, mx, hdl,
                   allow_io, told, fed, count>>

CancelPost(t) ==
    /\ Go(t, "canPost", "canSet")
    /\ postmap' = [postmap EXCEPT ![mx[t]] = {}]
    /\ UNCHANGED <<queues, status, premap, from, dispr, exclusive_mdl, sema, mx, hdl,
                   allow_io, told, fed, canc, count>>

CancelSet(t) ==
    /\ Go(t, "canSet", "rdy")
    /\ mx' = [mx EXCEPT ![t] = NULL]
    /\ StoreMsg(mx[t], snap[t], {"CANCEL"}, {})
    /\ UNCHANGED <<queues, premap, postmap, from, dispr, exclusive_mdl, sema, hdl,
                   allow_io, told, fed, canc, count>>
-----------------------------------------------------------------------------
(* dispr_notify_dev_io_status and dispr_clr_pending_msg, in the thread IO. *)

\* The test on entry: only a change of the device's state does anything.
IoCheck(allow) ==
    /\ Go(IO, "rdy", "flag")
    /\ allow = ("CANNOT_IO" \in dispr)
    /\ count.holds < MaxHolds \/ allow
    /\ count' = [count EXCEPT !.holds = IF allow THEN @ ELSE @ + 1] /\ Mixed
    /\ allow_io' = allow
    /\ UNCHANGED <<queues, status, premap, postmap, from, dispr, exclusive_mdl, sema,
                   mx, hdl, told, fed, canc>>

IoFlag ==
    /\ Go(IO, "flag", "excl")
    /\ IF allow_io THEN StoreDispr(snap[IO], {}, {"CANNOT_IO"})
                   ELSE StoreDispr(snap[IO], {"CANNOT_IO"}, {})
    /\ UNCHANGED <<queues, status, premap, postmap, from, exclusive_mdl, sema, mx, hdl,
                   allow_io, told, fed, canc, count>>

\* SET_EXCL_MDL or CLEAR_EXCL_MDL, and the entry of send_dev_io_status_change.
IoExcl ==
    /\ Go(IO, "excl", IF "STARTED" \in dispr THEN "pop" ELSE AfterSend(IO))
    /\ exclusive_mdl' = IF allow_io THEN NULL ELSE ExclMdl
    /\ UNCHANGED <<queues, status, premap, postmap, from, dispr, sema, mx, hdl,
                   allow_io, told, fed, canc, count>>

\* A module that put a message off calls dispr_clr_pending_msg once it is ready,
ClrStart ==
    /\ Go(IO, "rdy", "clrpend")
    /\ owes
    /\ owes' = FALSE
    /\ UNCHANGED <<queues, msgVars, dspVars, sema, bkVars, seen, mx, hdl, allow_io,
                   mainVars, told, fed, canc, count>>
    /\ snap' = IF SMP THEN [snap EXCEPT ![IO] = WordsNow'] ELSE snap

\* which sets a flag and wakes the background thread.
ClrSet ==
    /\ Go(IO, "clrpend", "clrnotify")
    /\ StoreDispr(snap[IO], {"CLR_PEND_MSG"}, {})
    /\ UNCHANGED <<queues, status, premap, postmap, from, exclusive_mdl, sema, mx, hdl,
                   allow_io, told, fed, canc, count>>

ClrNotify ==
    /\ Go(IO, "clrnotify", "rdy")
    /\ sema' = sema + 1
    /\ UNCHANGED <<queues, status, premap, postmap, from, dispr, exclusive_mdl, mx, hdl,
                   allow_io, told, fed, canc, count>>
-----------------------------------------------------------------------------
(* The background thread: share_thread_hdl and dispr_thread_loop_hdl. *)

\* Mutant: the thread does not wait for the semaphore.
BkWake_NoWait ==
    /\ bkpc = "sleep"
    /\ sema' = sema - 1
    /\ bkpc' = "pend"
    /\ UNCHANGED <<queues, msgVars, dispr, ex, phase, todo, mdl, ghosts, count>>

\* _os_sema_down; when the thread was told to stop it leaves its loop.  (The same
\* test before _os_sema_down only leaves one count of the semaphore unused.)
BkWake ==
    /\ bkpc = "sleep"
    /\ sema > 0
    /\ sema' = sema - 1
    /\ IF mpc \in {"wait", "down"}  \* _os_thread_check_stop
       THEN bkpc' = "clear" /\ phase' = "leave"
       ELSE bkpc' = "pend" /\ UNCHANGED phase
    /\ UNCHANGED <<queues, msgVars, dispr, ex, todo, mdl, ghosts, count>>

\* clear_pending_msg: the flag is consumed first,
BkClearFlag ==
    /\ bkpc = "pend"
    /\ IF "CLR_PEND_MSG" \in dispr
       THEN StoreDispr(seen, {}, {"CLR_PEND_MSG"}) /\ bkpc' = "drain"
       ELSE bkpc' = "pop" /\ UNCHANGED dispr
    /\ UNCHANGED <<queues, msgVars, sema, ex, phase, todo, mdl, ghosts, count>>

\* Mutant: a message that was put off is queued again without a wake-up.
Requeue_NoWake(s) ==
    /\ StoreMsg(s, seen, {"ENQ"}, {"RUN"})
    /\ msg_wait_q' = pq_push(msg_wait_q, s)
    /\ UNCHANGED sema

\* push_back_wait_msg, from the background thread.
Requeue(s) ==
    /\ StoreMsg(s, seen, {"ENQ"}, {"RUN"})
    /\ msg_wait_q' = pq_push(msg_wait_q, s)
    /\ sema' = sema + 1

\* then every message that was put off is queued again, at the tail: the test for
\* insert_msg_by_priority looks at the event id, which is never one of a control
\* module here.
BkDrain ==
    /\ bkpc \in {"drain", "clear"}
    /\ IF msg_pend_q # <<>>
       THEN /\ msg_pend_q' = pq_pop(msg_pend_q)
            /\ Requeue(pq_front(msg_pend_q))
            /\ UNCHANGED bkpc
       ELSE /\ bkpc = "drain"
            /\ bkpc' = "pop"
            /\ UNCHANGED <<msg_pend_q, msg_wait_q, status, sema>>
    /\ UNCHANGED <<msg_idle_q, premap, postmap, from, pending_evt, dispr, ex, phase,
                   todo, mdl, ghosts, count>>

\* pop_front_wait_msg; once per wake-up, or in clear_waiting_msg until the queue is
\* empty.
BkPop ==
    /\ bkpc = "pop" \/ (bkpc = "clear" /\ msg_pend_q = <<>>)
    /\ IF msg_wait_q # <<>>
       THEN /\ ex' = pq_front(msg_wait_q)
            /\ msg_wait_q' = pq_pop(msg_wait_q)
            /\ bkpc' = "run"
       ELSE bkpc = "pop" /\ bkpc' = "sleep" /\ UNCHANGED <<msg_wait_q, ex>>
    /\ UNCHANGED <<msg_idle_q, msg_pend_q, msgVars, dispr, sema, phase, todo, mdl,
                   ghosts, count>>

\* Steps of the background thread on the message ex: what they leave alone, and
\* those of them that modify nothing but its status.
MsgFrame == UNCHANGED <<from, dispr, ex, mdl, count>>

BkStatus(pc, next, set, clear) ==
    /\ bkpc = pc
    /\ bkpc' = next
    /\ StoreMsg(ex, seen, set, clear)
    /\ UNCHANGED <<queues, premap, postmap, pending_evt, sema, phase, todo, ghosts>>
    /\ MsgFrame

BkGo(next) ==
    /\ bkpc' = next
    /\ UNCHANGED <<queues, msgVars, sema, ghosts>>
    /\ MsgFrame

BkRun == BkStatus("run", IF phase = "leave" THEN "complete" ELSE "chk",
                  {"RUN"}, {"ENQ", "PENDING"})

\* An event of the same source that was put off holds this one back.
HeldBack(s) ==
    pending_evt[SrcOf(from[s])] \notin {NULL, from[s]}

\* is_msg_canceled: cancelled already, held back, or the dispatcher is stopping,
BkCheck ==
    /\ bkpc = "chk"
    /\ BkGo(IF "STARTED" \notin dispr \/ "CANCEL" \in status[ex] THEN "complete"
            ELSE IF HeldBack(ex) \/ "SHALL_STOP" \in dispr THEN "drop"
            ELSE IF "CANNOT_IO" \in dispr THEN "chkio"
            ELSE "and")
    /\ UNCHANGED <<phase, todo>>

\* or the device cannot do I/O, which is_special_msg looks up once more.
is_special_msg(s) ==
    "CANNOT_IO" \in dispr /\ (from[s] = IO \/ SrcOf(from[s]) = exclusive_mdl)

BkCheckIo ==
    /\ bkpc = "chkio"
    /\ BkGo(IF is_special_msg(ex) THEN "and"
            ELSE IF "PENDING_DURING_CANNOT_IO" \in status[ex] THEN "put"
            ELSE "drop")
    /\ UNCHANGED <<phase, todo>>

BkPut  == BkStatus("put", "and", {"PENDING"}, {})
BkDrop == BkStatus("drop", "complete", {"CANCEL"}, {})

\* _and_bitmaps: modules that are not started (any more) are not waited for.
BkAnd ==
    /\ bkpc = "and"
    /\ \E old \in Loaded(premap[ex], seen.premap[ex]) :
          premap' = [premap EXCEPT ![ex] = old \cap bitmap]
    /\ \E old \in Loaded(postmap[ex], seen.postmap[ex]) :
          postmap' = [postmap EXCEPT ![ex] = old \cap bitmap]
    /\ bkpc' = "disp"
    /\ UNCHANGED <<queues, status, pending_evt, sema, phase, todo, ghosts>>
    /\ MsgFrame

\* Mutant: a message that was put off goes on.
Redirect_NoPending(next) ==
    IF status[ex] \cap {"FAIL", "CANCEL"} # {} THEN "complete" ELSE next

\* MSG_REDIRECT_CHK.
Redirect(next) ==
    IF status[ex] \cap {"FAIL", "CANCEL"} # {} THEN "complete"
    ELSE IF "PENDING" \in status[ex] THEN "resched"
    ELSE next

\* get_msg_bitmap: the phase a message is in, and the modules that have yet to take
\* it in that phase.
PhaseOf(s)   == IF "PRE_PHASE" \in status[s] THEN "pre" ELSE "post"
MapOf(s, p)  == IF p = "pre" THEN premap[s] ELSE postmap[s]

\* msg_dispatch, up to _notify_dispr_controller,
BkDispatch ==
    /\ bkpc = "disp"
    /\ phase' = PhaseOf(ex)
    /\ BkGo(Redirect("ctrl"))
    /\ UNCHANGED todo

\* which may fail the message but never puts it off,
BkController ==
    /\ bkpc = "ctrl"
    /\ \/ BkGo("enter")
       \/ "CTRL_PRESENT" \in dispr /\ BkGo("fail")
    /\ UNCHANGED <<phase, todo>>

\* notify_msg_fail; nothing takes FAIL (or a CANCEL that overwrote it) away again.
BkFail == BkStatus("fail", "complete", {"FAIL"}, {})

\* The order of the modules, by the priority of their queues; the owner of the
\* message comes before the others of its priority, started or not.
Turns(s, i, q) ==
    LET own == SrcOf(from[s])
    IN  (IF Linked(module_q[i], own) THEN <<<<own, TRUE>>>> ELSE <<>>)
        \o [k \in 1..Len(q) |-> <<q[k], FALSE>>]

Rev(q) == [k \in 1..Len(q) |-> q[Len(q) + 1 - k]]

PreTurns(s) ==
    Turns(s, 3, module_q[3]) \o Turns(s, 2, module_q[2]) \o Turns(s, 1, module_q[1])

PostTurns(s) ==
    Turns(s, 1, Rev(module_q[1])) \o Turns(s, 2, Rev(module_q[2]))
    \o Turns(s, 3, Rev(module_q[3]))

\* msg_pre_phase_hdl starts, unless the message is past that phase.
BkEnter ==
    /\ bkpc = "enter"
    /\ LET pre == phase = "pre" /\ premap[ex] # {}
       IN  /\ BkGo(Redirect(IF pre THEN "look" ELSE "preEnd"))
           /\ todo' = IF pre THEN PreTurns(ex) ELSE <<>>
    /\ UNCHANGED phase

\* A module whose turn it is: its bit is set and, unless it owns the message, it is
\* started.
Eligible(turn) == turn[1] \in MapOf(ex, phase) /\ (turn[2] \/ turn[1] \in bitmap)

BkLook ==
    /\ bkpc = "look"
    /\ \/ \E k \in 1..Len(todo) :
             /\ Eligible(todo[k])
             /\ \A j \in 1..(k - 1) : ~Eligible(todo[j])
             /\ mdl' = todo[k][1]
             /\ todo' = SubSeq(todo, k + 1, Len(todo))
             /\ bkpc' = "feed"
       \/ /\ \A k \in 1..Len(todo) : ~Eligible(todo[k])
          /\ bkpc' = IF phase = "pre" THEN "preEnd" ELSE "postEnd"
          /\ todo' = <<>>
          /\ UNCHANGED mdl
    /\ UNCHANGED <<queues, msgVars, dispr, sema, ex, phase, ghosts, count>>

\* feed_mdl_msg: the module takes the message, fails it or puts it off.
Answer(a) ==
    \/ a = "clrbit" /\ fed' = [fed EXCEPT ![ex] = @ \cup {<<phase, mdl>>}]
                    /\ UNCHANGED <<owes, count>>
    \/ a = "fail" /\ UNCHANGED <<owes, fed, count>>
    \/ /\ a = "putoff"
       /\ count.pends < MaxPends
       /\ count' = [count EXCEPT !.pends = @ + 1] /\ Mixed
       /\ owes' = TRUE
       /\ UNCHANGED fed

BkFeed ==
    /\ bkpc = "feed"
    /\ \E a \in {"clrbit", "fail", "putoff"} : Answer(a) /\ bkpc' = a
    /\ UNCHANGED <<queues, msgVars, dispr, sema, ex, phase, todo, mdl, told, canc>>

\* Mutant: the bit of a module that took the message stays set.
BkClearBit_Kept ==
    /\ bkpc = "clrbit"
    /\ bkpc' = "look"
    /\ UNCHANGED <<queues, msgVars, sema, phase, todo, ghosts>>
    /\ MsgFrame

\* Mutant: the whole map is cleared, not the module's bit.
BkClearBit_All ==
    /\ bkpc = "clrbit"
    /\ IF phase = "pre" THEN premap' = [premap EXCEPT ![ex] = {}] /\ UNCHANGED postmap
                       ELSE postmap' = [postmap EXCEPT ![ex] = {}] /\ UNCHANGED premap
    /\ bkpc' = "look"
    /\ UNCHANGED <<queues, status, pending_evt, sema, phase, todo, ghosts>>
    /\ MsgFrame

\* _clr_bitmap_bit, in the map of the phase: a byte is loaded and stored.
BkClearBit ==
    /\ bkpc = "clrbit"
    /\ IF phase = "pre"
       THEN /\ \E old \in Loaded(premap[ex], seen.premap[ex]) :
                  premap' = [premap EXCEPT ![ex] = old \ {mdl}]
            /\ UNCHANGED postmap
       ELSE /\ \E old \in Loaded(postmap[ex], seen.postmap[ex]) :
                  postmap' = [postmap EXCEPT ![ex] = old \ {mdl}]
            /\ UNCHANGED premap
    /\ bkpc' = "look"
    /\ UNCHANGED <<queues, status, pending_evt, sema, phase, todo, ghosts>>
    /\ MsgFrame

BkPutOff == BkStatus("putoff", "redir", {"PENDING"}, {})

\* PENDING stops the phase; a cancel may have overwritten it.
BkRedirect ==
    /\ bkpc = "redir"
    /\ BkGo(Redirect("complete"))
    /\ UNCHANGED <<phase, todo>>

\* The end of the pre phase; modules left over are the "invalid bitmap state".
BkPreEnd ==
    /\ bkpc = "preEnd"
    /\ BkGo(Redirect(IF MapOf(ex, phase) = {} THEN "half" ELSE "drop"))
    /\ UNCHANGED <<phase, todo>>

BkHalf == BkStatus("half", "post", {}, {"PRE_PHASE"})

\* msg_post_phase_hdl.
BkPost ==
    /\ bkpc = "post"
    /\ phase' = PhaseOf(ex)
    /\ IF MapOf(ex, PhaseOf(ex)) # {}
       THEN BkGo("look") /\ todo' = PostTurns(ex)
       ELSE BkGo("postEnd") /\ todo' = <<>>

\* The end of the post phase, cur_req_hdl excepted.
BkPostEnd ==
    /\ bkpc = "postEnd"
    /\ BkGo(Redirect(IF MapOf(ex, phase) = {} THEN "complete" ELSE "drop"))
    /\ UNCHANGED <<phase, todo>>

\* push_back_pending_msg, which makes the event hold back the others of its source
\* if the sender asked for that, or push_back_wait_msg if PENDING was overwritten.
BkResched ==
    /\ bkpc = "resched"
    /\ IF "PENDING" \in status[ex]
       THEN /\ StoreMsg(ex, seen, {"ENQ"}, {"RUN"})
            /\ pending_evt' = IF "CLR_SNDR_MSG_IF_PENDING" \in status[ex]
                  THEN [pending_evt EXCEPT ![SrcOf(from[ex])] = from[ex]]
                  ELSE pending_evt
            /\ msg_pend_q' = pq_push(msg_pend_q, ex)
            /\ UNCHANGED <<msg_wait_q, sema>>
       ELSE Requeue(ex) /\ UNCHANGED <<msg_pend_q, pending_evt>>
    /\ ex' = NULL
    /\ mdl' = NULL
    /\ bkpc' = "sleep"
    /\ UNCHANGED <<msg_idle_q, premap, postmap, from, dispr, phase, todo, ghosts, count>>

\* Mutant: a cancelled message is recycled without its completion routine.
BkComplete_Silent ==
    /\ bkpc = "complete"
    /\ told' = IF "NOTIFY_COMPLETE" \in status[ex] /\ "CANCEL" \notin status[ex]
               THEN [told EXCEPT ![ex] = "ok"] ELSE told
    /\ bkpc' = "idle"
    /\ UNCHANGED <<queues, msgVars, sema, phase, todo, owes, fed, canc>>
    /\ MsgFrame

\* push_back_idle_msg: the completion routine runs,
BkComplete ==
    /\ bkpc = "complete"
    /\ told' = IF "NOTIFY_COMPLETE" \notin status[ex] THEN told
               ELSE [told EXCEPT ![ex] = IF "CANCEL" \in status[ex] THEN "cancelled"
                                         ELSE IF "FAIL" \in status[ex] THEN "failed"
                                         ELSE "ok"]
    /\ bkpc' = "idle"
    /\ UNCHANGED <<queues, msgVars, sema, phase, todo, owes, fed, canc>>
    /\ MsgFrame

\* Mutant: the event keeps holding back the others of its source.
Release_Never(s) == pending_evt

\* The event no longer holds back the others of its source.
Release(s) ==
    LET m == SrcOf(from[s])
    IN  IF pending_evt[m] = from[s] THEN [pending_evt EXCEPT ![m] = NULL]
                                    ELSE pending_evt

\* and the slot is idle again.
BkIdle ==
    /\ bkpc = "idle"
    /\ status' = [status EXCEPT ![ex] = {}]
    /\ pending_evt' = Release(ex)
    /\ msg_idle_q' = pq_push(msg_idle_q, ex)
    /\ ex' = NULL
    /\ mdl' = NULL
    /\ fed' = [fed EXCEPT ![ex] = {}]
    /\ bkpc' = IF phase = "leave" THEN "clear" ELSE "sleep"
    /\ UNCHANGED <<msg_wait_q, msg_pend_q, premap, postmap, from, dispr, sema, phase,
                   todo, owes, told, canc, count>>

\* clear_waiting_msg spins until every slot is idle; then the thread exits.
BkExit ==
    /\ bkpc = "clear"
    /\ Len(msg_idle_q) = MAX_PHL_MSG_NUM
    /\ bkpc' = "exited"
    /\ UNCHANGED <<queues, msgVars, dispr, sema, ex, phase, todo, mdl, ghosts, count>>
-----------------------------------------------------------------------------
(* Stopping: dispr_notify_shall_stop, and phl_disp_eng_stop with                *)
(* dispr_module_stop and dispr_thread_stop_prior_hdl.                           *)

MainStep(pc, next) == mpc = pc /\ mpc' = next

MainFrame ==
    /\ UNCHANGED <<queues, from, pending_evt, exclusive_mdl, bkVars, seen, callVars,
                   owes, told, fed, count>>
    /\ msnap' = IF SMP THEN WordsNow' ELSE msnap

ShallStopCheck ==
    /\ MainStep("up", "shall")
    /\ "SHALL_STOP" \notin dispr
    /\ UNCHANGED <<status, premap, postmap, dispr, bitmap, sema, mi, canc>>

\* The three stores and the wake-up of dispr_notify_shall_stop.
ShallStop ==
    /\ \/ MainStep("shall", "shallClr") /\ StoreDispr(msnap, {"SHALL_STOP"}, {})
          /\ UNCHANGED sema
       \/ MainStep("shallClr", "shallUp") /\ StoreDispr(msnap, {"CLR_PEND_MSG"}, {})
          /\ UNCHANGED sema
       \/ MainStep("shallUp", "up") /\ sema' = sema + 1 /\ UNCHANGED dispr
    /\ UNCHANGED <<status, premap, postmap, bitmap, mi, canc>>

AllModules == module_q[1] \o module_q[2] \o module_q[3]

StopBegin ==
    /\ MainStep("up", "mdl")
    /\ mi' = 1
    /\ UNCHANGED <<status, premap, postmap, dispr, bitmap, sema, canc>>

\* dispr_module_stop: the bitmap's bit and MDL_STARTED of one module after another.
StopModule ==
    /\ mpc = "mdl"
    /\ IF mi > Len(AllModules)
       THEN mpc' = "stop" /\ UNCHANGED <<bitmap, mi>>
       ELSE /\ bitmap' = bitmap \ {AllModules[mi]}
            /\ mi' = mi + 1
            /\ UNCHANGED mpc
    /\ UNCHANGED <<status, premap, postmap, dispr, sema, canc>>

StopClear ==
    /\ \/ MainStep("stop", "ctrl") /\ StoreDispr(msnap, {}, {"STARTED"}) /\ UNCHANGED mi
       \/ MainStep("ctrl", "scan") /\ StoreDispr(msnap, {}, {"CTRL_PRESENT"}) /\ mi' = 0
    /\ UNCHANGED <<status, premap, postmap, bitmap, sema, canc>>

\* cancel_running_msg tests one slot after the other,
StopScan ==
    /\ mpc = "scan"
    /\ IF mi \notin Slots
       THEN mpc' = "kill" /\ UNCHANGED mi
       ELSE IF "RUN" \in status[mi]
       THEN mpc' = "canPre" /\ UNCHANGED mi
       ELSE mpc' = mpc /\ mi' = mi + 1
    /\ UNCHANGED <<status, premap, postmap, dispr, bitmap, sema, canc>>

\* and cancel_msg zeroes the bitmaps before it sets CANCEL.
StopCancel ==
    /\ \/ /\ MainStep("canPre", "canPost")
          /\ premap' = [premap EXCEPT ![mi] = {}]
          /\ canc' = [canc EXCEPT ![mi] = TRUE]
          /\ UNCHANGED <<status, postmap, mi>>
       \/ /\ MainStep("canPost", "canSet")
          /\ postmap' = [postmap EXCEPT ![mi] = {}]
          /\ UNCHANGED <<status, premap, mi, canc>>
       \/ /\ MainStep("canSet", "scan")
          /\ StoreMsg(mi, msnap, {"CANCEL"}, {})
          /\ mi' = mi + 1
          /\ UNCHANGED <<premap, postmap, canc>>
    /\ UNCHANGED <<dispr, bitmap, sema>>

\* Mutant: the thread is told to stop but not woken.
StopThread_NoWake ==
    /\ MainStep("kill", "wait")
    /\ UNCHANGED <<status, premap, postmap, dispr, bitmap, sema, mi, canc>>

StopThread ==
    /\ MainStep("kill", "wait")
    /\ sema' = sema + 1
    /\ UNCHANGED <<status, premap, postmap, dispr, bitmap, mi, canc>>

\* dispr_thread_stop_post_hdl, once the thread is gone.
StopPost ==
    /\ MainStep("wait", "down")
    /\ bkpc = "exited"
    /\ UNCHANGED <<status, premap, postmap, dispr, bitmap, sema, mi, canc>>
-----------------------------------------------------------------------------
InCall(t) ==
    /\ \/ SendFull(t) \/ SendPop(t) \/ SendPush(t) \/ SendNotify(t)
       \/ CancelPre(t) \/ CancelPost(t) \/ CancelSet(t)
       \/ t = IO /\ (IoFlag \/ IoExcl \/ ClrSet \/ ClrNotify)
    /\ CallFrame(t)

StartCall(t) ==
    \/ (SendCheck(t) \/ CancelCheck(t)) /\ CallFrame(t)
    \/ t = IO /\ IoCheck(FALSE) /\ CallFrame(t)

\* What the thread IO has to do at some time.
Resume == (IoCheck(TRUE) /\ CallFrame(IO)) \/ ClrStart

Bk ==
    /\ \/ BkWake \/ BkClearFlag \/ BkDrain \/ BkPop \/ BkRun
       \/ BkCheck \/ BkCheckIo \/ BkPut \/ BkDrop \/ BkAnd
       \/ BkDispatch \/ BkController \/ BkFail \/ BkEnter \/ BkLook \/ BkFeed
       \/ BkClearBit \/ BkPutOff \/ BkRedirect \/ BkPreEnd \/ BkHalf \/ BkPost
       \/ BkPostEnd \/ BkResched \/ BkComplete \/ BkIdle \/ BkExit
    /\ UNCHANGED <<exclusive_mdl, bitmap, callVars, mainVars>>
    /\ seen' = IF SMP THEN WordsNow' ELSE seen

Main ==
    /\ MayStop
    /\ \/ ShallStopCheck \/ ShallStop \/ StopBegin \/ StopModule \/ StopClear
       \/ StopScan \/ StopCancel \/ StopThread \/ StopPost
    /\ MainFrame

\* Nothing more happens: the dispatcher is stopped, or every message is recycled.
Halted ==
    /\ \/ mpc = "down"
       \/ count.sends = MaxSends /\ Len(msg_idle_q) = MAX_PHL_MSG_NUM
    /\ UNCHANGED vars

Next ==
    \/ Bk \/ Main \/ Resume
    \/ \E t \in Threads : StartCall(t) \/ InCall(t)
    \/ Halted

Spec == Init /\ [][Next]_vars

(***************************************************************************)
(* Fairness.  The background thread and a thread inside a call are scheduled;  *)
(* a module that put a message off resumes it, and paused I/O is resumed.      *)
(* Nobody has to start a call, or to stop the dispatcher.                      *)
(***************************************************************************)
Fairness ==
    /\ WF_vars(Bk)
    /\ WF_vars(Resume)
    /\ WF_vars(mpc # "up" /\ Main)
    /\ \A t \in Threads : WF_vars(InCall(t))

FairSpec == Spec /\ Fairness
-----------------------------------------------------------------------------
TypeOK ==
    /\ msg_idle_q \in Seq(Slots) /\ msg_wait_q \in Seq(Slots)
    /\ msg_pend_q \in Seq(Slots)
    /\ status \in [Slots -> SUBSET MsgFlags]
    /\ premap \in [Slots -> SUBSET Modules] /\ postmap \in [Slots -> SUBSET Modules]
    /\ from \in [Slots -> Threads]
    /\ pending_evt \in [Sources -> Threads \cup {NULL}]
    /\ exclusive_mdl \in Sources \cup {NULL}
    /\ dispr \subseteq DisprFlags
    /\ bitmap \subseteq Modules
    /\ sema \in Nat
    /\ bkpc \in BkPcs /\ ex \in Slots \cup {NULL} /\ phase \in {"pre", "post", "leave"}
    /\ todo \in Seq(Sources \X BOOLEAN) /\ mdl \in Sources \cup {NULL}
    /\ seen \in Words
    /\ spc \in [Threads -> CallPcs] /\ mx \in [Threads -> Slots \cup {NULL}]
    /\ hdl \in [Threads -> Slots \cup {NULL}] /\ allow_io \in BOOLEAN
    /\ snap \in [Threads -> Words]
    /\ mpc \in MainPcs /\ mi \in Nat /\ msnap \in Words
    /\ owes \in BOOLEAN
    /\ told \in [Slots -> {"none", "sent", "ok", "failed", "cancelled"}]
    /\ fed \in [Slots -> SUBSET ({"pre", "post"} \X Modules)]
    /\ canc \in [Slots -> BOOLEAN]
    /\ count \in [sends : Nat, cancels : Nat, holds : Nat, pends : Nat]

\* The places of a slot besides the queues: a sending thread fills it, or the
\* background thread works on it.
Filling(t, s) == spc[t] = "push" /\ mx[t] = s
InHand(s)     == ex = s \/ \E t \in Threads : Filling(t, s)

\* No message slot is lost or handed out twice: whatever the order of sending,
\* cancelling, putting off, resuming and stopping, every slot is in exactly one
\* place, and once in it (pop_front_idle_msg, push_back_wait_msg, msg_dispatch,
\* push_back_pending_msg, push_back_idle_msg, clear_waiting_msg).
MsgPlaces ==
    /\ NoDup(msg_idle_q) /\ NoDup(msg_wait_q) /\ NoDup(msg_pend_q)
    /\ \A s \in Slots :
          /\ \/ Linked(msg_idle_q, s) \/ Linked(msg_wait_q, s) \/ Linked(msg_pend_q, s)
             \/ InHand(s)
          /\ Linked(msg_idle_q, s) => ~Linked(msg_wait_q, s) /\ ~Linked(msg_pend_q, s)
          /\ Linked(msg_wait_q, s) => ~Linked(msg_pend_q, s)
          /\ InHand(s) =>
                /\ ~Linked(msg_idle_q, s) /\ ~Linked(msg_wait_q, s)
                /\ ~Linked(msg_pend_q, s)
          /\ \A t \in Threads : Filling(t, s) =>
                ex # s /\ \A u \in Threads : Filling(u, s) => u = t

\* No wake-up is lost: while the background thread serves its queue, every waiting
\* message has a count of the semaphore to its name, or one that is on its way
\* (share_thread_hdl takes one message per wake-up, so one count too few would
\* leave the last message waiting for an unrelated one).
Notifying == {t \in Threads : spc[t] = "notify"}
Awake     == IF bkpc \in {"pend", "drain", "pop"} THEN 1 ELSE 0

WakeupsCover ==
    phase # "leave" => Len(msg_wait_q) <= sema + Cardinality(Notifying) + Awake

\* A completion routine runs exactly once per message: it is still owed when
\* push_back_idle_msg calls it, and no slot returns to the pool with a completion
\* owed, whether the message was dispatched, failed, cancelled, dropped or flushed.
CompletedOnce ==
    /\ bkpc = "complete" => (("NOTIFY_COMPLETE" \in status[ex]) <=> (told[ex] = "sent"))
    /\ \A s \in Slots : Linked(msg_idle_q, s) => told[s] # "sent"

\* No module takes a message twice in the same phase, also when a message that
\* another module put off starts over (feed_mdl_msg, msg_pre_phase_hdl).
FedOnce ==
    [][bkpc = "feed" /\ bkpc' = "clrbit" => <<phase, mdl>> \notin fed[ex]]_vars

\* Who a message is addressed to, and a cancel of it that is half done.
Addressed(s) == IF from[s] = IO THEN Modules ELSE Notify[from[s]] \cup {Src[from[s]]}
Cancelling(s) ==
    \/ \E t \in Threads : spc[t] \in {"canPost", "canSet"} /\ mx[t] = s
    \/ mpc \in {"canPost", "canSet"} /\ mi = s

\* A message that is completed without CANCEL and FAIL has been taken by every
\* started module it is addressed to, in both phases, except where cancel_msg has
\* zeroed its bitmaps and not set CANCEL yet.
OkMeansTaken ==
    [][bkpc = "complete" /\ bkpc' = "idle"
          /\ status[ex] \cap {"CANCEL", "FAIL"} = {} /\ ~Cancelling(ex)
       => \A m \in Addressed(ex) \cap bitmap :
             {<<"pre", m>>, <<"post", m>>} \subseteq fed[ex]]_vars

\* A module takes part in the post phase of a message only after all the started
\* modules the message is addressed to took part in its pre phase.
PostAfterPre ==
    [][bkpc = "feed" /\ phase = "post" /\ ~Cancelling(ex) /\ ~canc[ex] =>
          \A m \in Addressed(ex) \cap bitmap : <<"pre", m>> \in fed[ex]]_vars

\* An event holds back the other events of its source (SET_CUR_PENDING_EVT) only
\* while a message with that event is under way; a stale one would cancel
\* everything the source sends from then on.
NoStaleHold ==
    \A m \in Sources : pending_evt[m] # NULL =>
        \E s \in Slots : /\ ~Linked(msg_idle_q, s)
                         /\ from[s] = pending_evt[m]

\* Every message is completed: dispatched, failed or cancelled, also when it is put
\* off by a module or by a pause of I/O any number of times and resumed once each.
Completes ==
    \A s \in Slots : (told[s] = "sent") ~> (told[s] # "sent" \/ mpc = "down")

\* Once phl_disp_eng_stop has begun, it ends: the thread is woken, leaves, and
\* clear_waiting_msg finds every slot again.
StopCompletes == (mpc = "mdl") ~> (mpc = "down")
=============================================================================
