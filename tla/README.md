# A TLA+ model of the rtl8852au driver's concurrent core

This directory models parts of the rtl8852au USB WiFi driver, checks them with TLC on
small instances and proves theorems about them with TLAPS.  It covers the places where the
driver's concurrency is decided, all in or around the PHL layer (`src/phl`): the *command
dispatcher*, through which every scan, connection, channel switch and error recovery is
serialised; the *error recovery* with the firmware; and the *receive path*, from the USB
request to the reordered frame.

## 1. The system

The driver has three layers.

| layer | directory | what it does |
|---|---|---|
| core | `src/core` | 802.11 management (MLME), transmit/receive of frames, command thread |
| PHL | `src/phl` | portable hardware layer: command dispatcher, roles, channels, stations, datapath |
| HAL | `src/phl/hal_g6` | register programming, firmware download, vendor tables |

plus `src/os_dep/linux`, the glue to the kernel.  The parts, what state they keep and what
makes them hard:

| part | source | state | operations | interacts with | hard behaviour | what must hold |
|---|---|---|---|---|---|---|
| queues | `phl_util.c` | intrusive list, count, lock | `pq_push`, `pq_pop`, `pq_del_node`, `pq_insert`, ... | everything | a node in two lists, a delete of an unlinked node | every node is in the list it is thought to be in |
| command token | `phl_cmd_dispatcher.c` | request pool (8), wait queue, operation queue, `cur_cmd_req`, `token_cnt`, status flags | add, cancel, free, register, deregister, stop | requestors' threads, background thread, stopping thread | unlocked status words, late flags, slot reuse, stop at any moment | one holder; first come, first served; nobody forgotten; no slot lost |
| messages | `phl_cmd_dispatcher.c` | message pool (24), wait and pending queues, two bitmaps per message | send, cancel, dispatch in two phases, put off, resume, flush | background modules, controller, timers | cancel during dispatch, I/O pause, resume of put-off messages | every message is completed exactly once; no module sees it twice |
| background modules | `phl_cmd_dispatcher.c` | three priority queues, module status | register, init, start, stop, deregister | messages | stop while a message is dispatched | a stopped module is not called |
| dispatch engine | `phl_cmd_dispatch_engine.c` | shared thread, semaphore | start, stop, loop | all dispatchers | wake-ups, exit | no wake-up lost; stop ends |
| message hub | `phl_msg_hub.c` | message pool, receivers | send, register, deregister, thread | core | deregistration during delivery | |
| watchdog | `phl_watchdog.c` | timer, status | start, stop, timer, completion | dispatcher | lost completion stops it for ever | it keeps running |
| scan | `phl_cmd_scan.c` | channel list, scan state | request, start, issue, end, cancel | token, messages, timers | cancel at every stage | scan ends once |
| error recovery | `phl_cmd_ser.c`, `phl_tx.c` | recovery state, poll timer, pause bits of the datapath | poll, M1..M5, M9, expiry, start, stop | all modules (puts off their messages), firmware, TX tasklet | firmware that answers late or not at all, lost messages, a stop in the middle | a recovery ends, what it paused and put off resumes, nothing moves while the firmware resets |
| receive: reordering | `phl_rx.c`, `phl_rx_agg.c` | session per TID: window, stored frames; one timer per station | frame, BlockAckReq, timeout, open, close, free | RX tasklet, timer, core | modulo-4096 arithmetic, a timer shared by TIDs, freeing against a running callback | order, no packet lost or returned twice, nothing held for ever |
| receive: USB | `hci/phl_trx_usb.c`, `usb_ops_linux.c`, `phl_rx.c` | buffers (idle, busy, pending, referred to), URBs, packet pool, ring | request, completion, tasklets, deferred timer, return, start, stop | USB host, core | counters read without a lock, pools at their limit, lost indications | a buffer has one owner, requests at the device are kept up |
| transmit | `phl_tx.c`, `hci/phl_trx_usb.c` | rings, pause state | transmit, pause, resume, recycle | core, USB, error recovery | pause racing the transmit tasklet | nothing is sent while paused |
| roles, channels | `phl_mr.c`, `phl_chan.c`, `phl_role.c` | channel contexts, role lists | add, delete, switch | scan, MCC | reference counts of channel contexts | |
| stations | `phl_sta.c` | MAC id bitmap, station entries | allocate, free, update | core, HAL | reuse of a MAC id | an id has one owner |

How they meet: the error recovery is a background module of the dispatcher, so its messages
are served by the background thread of `CmdMsg`, and what it puts off is `CmdMsg`'s pending
queue; it pauses the datapath whose receive half is `UsbRx`; `UsbRx` hands frames to
`RxReorder`, which returns them to `UsbRx`'s ring and pool.  Each module models its neighbour
by what it can do to it (section 2), because the products are out of TLC's reach.

## 2. Modules

| module | models | kind |
|---|---|---|
| `PhlQueue` | the `pq_*` operations of `phl_util.c` on sequences | operators |
| `FgToken` | what the dispatcher promises foreground requestors | abstract specification |
| `CmdToken` | the command token of one dispatcher with its threads | specification |
| `CmdMsg` | the messages of one dispatcher, its background modules and threads | specification |
| `Ser` | error recovery, the pause of the datapath, the firmware's side | specification |
| `RxReorder` | reordering of one station's frames, its sessions and timer | specification |
| `UsbRx` | the receive side of the USB transport up to the core | specification |
| `MCCmdToken`, `MCCmdMsg`, `MCSer`, `MCRxReorder`, `MCUsbRx` | instances for TLC | models |
| `PhlQueue_proofs`, `CmdTokenType_proofs`, `CmdToken_proofs`, `Ser_proofs`, `RxReorder_proofs`, `UsbRxType_proofs`, `UsbRxPlaces_proofs`, `UsbRx_proofs` | lemmas and theorems | proofs |

### CmdToken

Actors: requestors (`Clients`), each in a thread of its own that calls
`dispr_add_token_req` and `dispr_cancel_token_req`; the background thread
(`share_thread_hdl`), which handles the queued operations and one message per wake-up; and
the thread that stops the dispatcher.  A step of a thread ends where another thread can
next observe or disturb shared state, so each queue operation (it runs under the queue's
lock) and each unlocked access to a status word is a step of its own.

| state | code |
|---|---|
| `token_req_idle_q`, `token_req_wait_q`, `token_op_q` | the queues of the same names |
| `status`, `req`, `used`, `type` | fields of `phl_cmd_token_req_ex` and of its two `phl_token_op_info` |
| `cur_cmd_req`, `token_cnt`, `dispr`, `sema` | fields of `cmd_dispatcher`, `msg_q_sema` |
| `cpc`, `hdl`, `snap`; `bkpc`, `ex`, `info`, `notify`, `seen`; `mpc`, `msnap` | control and locals of the three kinds of thread |
| `told`, `end_msgs`, `abort_msgs` | what callbacks told the requestor; the messages the protocol depends on |
| `oops` | a list operation hit a node that is not in that list |

Two things are worth knowing.  *Torn status words*: `SET_STATUS_FLAG` is an unlocked
read-modify-write.  With `SMP = TRUE` the store may start from the value the thread saw at
its previous step (`Loaded`); with `SMP = FALSE` it is atomic.  *Corrupt lists*: deleting
a node that is not linked, pushing one that is, or clearing one while it is linked corrupts
a kernel list.  The model records this in `oops` and stops there: for the delete, either
with the abort callback made and the slot pushed (a kernel that checks its lists warns and
goes on) or without (it faults).  What is claimed of the slots is claimed up to that point;
that it is reached is what `token_cancel` shows.  The messages PHY_ON and PHY_IDLE are sent
or refused, and the dispatcher looks at neither result (`SendPhy`).

### CmdMsg

Actors: sending threads (`Senders`), each sending for one module or for the controller
(`Src`) and cancelling its last message; the thread `IO`, which pauses and resumes device
I/O (`dispr_notify_dev_io_status`) and stands for the modules that resume what they put off
(`dispr_clr_pending_msg`); the background thread; the thread that stops the dispatcher.

| state | code |
|---|---|
| `msg_idle_q`, `msg_wait_q`, `msg_pend_q` | the queues of the same names |
| `status`, `premap`, `postmap`, `from` | fields of `phl_dispr_msg_ex`; `from` stands for event id, module id and completion routine |
| `pending_evt`, `exclusive_mdl`, `dispr`, `bitmap`, `sema` | `mdl_info[].pending_evt_id`, `exclusive_mdl`, `status` and `bitmap` of `cmd_dispatcher`, `msg_q_sema` |
| `spc`, `mx`, `hdl`, `allow_io`, `snap`; `bkpc`, `ex`, `phase`, `todo`, `mdl`, `seen`; `mpc`, `mi`, `msnap` | control and locals of the threads |
| `told`, `fed`, `canc`, `owes` | what completion told the sender; who took the message in which phase; whether a cancel of it has begun; whether a resume is due |

One dispatch is about fifteen steps, from the pop to the recycling of the slot, because
every test of the status word, every bit cleared and every call of a module can be separated
by a cancel or by a stop.  The dispatcher controller and the modules are modelled by their
answers: success, failure or, for modules, pending.  Foreground requests appear in
`CmdToken` only, so `get_cur_cmd_req_id` and `cur_req_hdl` have no counterpart here.  A slot
may be recycled and taken again between the two steps of `cancel_msg`; `canc` therefore
counts a cancel only for the message it began with.

### Ser

The USB build polls (`evtsrc = CMD_SER_SRC_POLL`): `poll_timer` makes the background thread
read the interrupt registers, and what it finds there becomes the messages M1, M3, M5 and M9.
A handler runs in the background thread alone and is one step, so that the states M1, M3 and
M5 are never seen from outside; `state` holds M2, M4 and M9.  Beside it run the timer's
callback, the end of the TX tasklet (test and store are two steps), the thread that stops and
starts the module, and the firmware (external: it raises errors, answers M2 and M4 at any
time or never, hangs, and has a watchdog).

| state | code |
|---|---|
| `state`, `poll_cnt`, `bserl2`, `timer` | `struct cmd_ser` |
| `q`, `ext` | this module's messages in the dispatcher; a message of another module: waiting, put off |
| `phl_sw_tx_sts`, `phl_sw_rx_sts`, `pause_tx_id`, `pause_rx_id`, `is_hw_trx_pause` | the same fields of `phl_info_t`; of the ids the bit of `PHL_MDL_SER` |
| `fw`, `err`, `isr` | where the firmware is, its error register, its interrupts |
| `cut`, `n` | history: a stop cut a recovery short; events counted for the bounds |

The pause of transmission succeeds, or its wait expires (`TxPauseFails`, the bit is set), or
the tasklet cannot be scheduled (the bit is not set); each failure ends the recovery in level 2.
The receive pause never takes effect on USB: the code that would take it up is disabled
(`phl_trx_usb.c:1283`), so the wait expires, which `_ser_m1_pause_trx` tolerates; it does not
tolerate that the tasklet cannot be scheduled (`RxPauseFails`).

Left out: the rotation of the level 2 log, and whoever else pauses transmission.  The pause bits
of other modules are not set in this build: the dispatcher controller acts on messages that only
`phl_cmd_ps.c` sends, `rtw_phl_rf_off` (`phl_init.c`) is called from inactive power saving only, and
the Makefile switches power saving off; so the branch for a path that another module keeps paused
(`phl_tx.c:1718`) is not reached.  ECSA is different.  Its handlers call `rtw_phl_tx_stop` and
`rtw_phl_tx_resume` (`phl_tx.c:1438-1453`), which write `phl_sw_tx_sts` without any bit: a
recovery that starts while ECSA has stopped transmission finds it paused, and resumes it at its
end.  What is said of transmission holds while ECSA is not at work.

### RxReorder

A frame carries an absolute number; the code sees it modulo `SEQ_MODULO`, so that the model can
say what "in order" means across the wrap.  Everything under `tid_rx_lock` is one step; the
RX tasklet and the timer callback push their released frames after the unlock, one per step,
the BlockAckReq before it.  The three steps of `phl_free_rx_reorder` (mark, cancel, free) are
three actions.

| state | code |
|---|---|
| `tid_rx` | `sta->tid_rx[]`, each a `phl_tid_ampdu_rx` |
| `pool`, `mpdu`, `ring`, `frames` | `rx_pkt_pool`, the contents of a packet, `phl_rx_ring`, the local list of each context |
| `timer`, `visit`, `due` | `sta->reorder_timer`, the callback's loop variable, the frames whose `reorder_time` is long enough ago |
| `freeing`, `top`, `last`, `reopened` | progress of `phl_free_rx_reorder`; history: highest number sent, last number released, a session was opened after the removed marks were set |

The peer is assumed to keep its frames within a window of its own highest number, as 802.11
requires of an originator; it may lose, repeat, reorder and skip.  Frames that never reach the
reordering (group addressed, no QoS, fragments, too short) are left out: they go straight to
the ring or back to the pool.

### UsbRx

A packet is known by the buffer it refers to, or by `NULL` when its bytes were copied.  The
contexts are the completion of a URB (one at a time), the deferred timer, the starting and
stopping thread, the two tasklets and the core.

| state | code |
|---|---|
| `idle`, `busy`, `pend`, `pktcnt` | the three lists of `rtw_rx_buf_ring`, `rx_buf->pktcnt` |
| `inflight`, `urbs` | submitted URBs by their buffer, `recv_urb_q.free_urb_buf_cnt` |
| `pc`, `tok`, `done` | where the completion, the timer and the thread are, and what they hold |
| `timer`, `stopped`, `rx_sched`, `rx`, `frames`, `evt`, `ev_sched`, `ev` | `deferred_timer`, `RTW_CANNOT_RX`, the two tasklets and their work |
| `pool`, `ring`, `core` | the number of idle packets in `rx_pkt_pool`, `phl_rx_ring`, what each receive frame of the core holds |
| `errs`, `starts`; `full`, `gaveup` | failures and starts, for the bounds; history: the tasklet's last run found the ring full, the timer's last refill was refused a token |

A failed transfer may carry a status that marks the driver stopped or the device removed
(`rtw_usb_read_port_complete`, `usb_ops_linux.c:520-529`), and so may a register access or the
completion of a transmission (`dev_set_surprise_removed`): from then on, until the next start,
every submission is refused and no token comes back.  A start may follow a stop or a failed
start, which takes nothing back, and may find the deferred timer still pending.

Left out: frames held by reordering or waiting for their PHY status (to the pools they are
frames the core holds), and the window in which `usb_kill_urb` rejects a submission: the answer
`-EPERM` is taken for a success and keeps its URB, and it comes only after the driver has marked
itself stopped.

## 3. Runs

| run | instance | shows |
|---|---|---|
| `token_calls` | 2 requestors, 1 slot, 3 adds, 1 cancel, torn words | slots survive reuse and torn status words, no second holder, the next request waits for the last message |
| `token_stop` | fair, 2 requestors, 2 slots, 2 adds, stop | exclusion, order of service (`FgToken`), the exiting thread tells everybody, every request is answered, stopping ends |
| `token_cancel` | fair, 2 requestors, 2 slots, 2 adds, 1 cancel | **violation**: see below |
| `msg_calls` | 2 senders, 2 modules, 2 slots, 2 sends, 1 cancel, 1 put off, 1 pause of I/O | slots conserved, completion once, "ok" means taken, phases in order, wake-ups, holds |
| `msg_stop` | fair, 1 sender, 1 slot, 2 sends, 1 put off, stop | completion once, no module is fed a phase twice, resumed messages complete, stopping ends |
| `ser` | fair, 2 errors, 1 hang, 1 log event, 1 lost message, 1 failed step, 1 stop | types, transmission paused exactly during a recovery, quiet reset, polling goes on, recoveries end, put-off messages resume |
| `ser_wdt` | fair, 1 error, 1 hang | **violation**: see below |
| `reorder_order` | 1 TID, window 4 of 16, numbers 11..18 across the wrap, 3 packets, ring of 1 | order, window, packets conserved |
| `reorder_live` | fair, 2 TIDs, window 2 of 8, 2 packets, 2 openings | packets conserved when a session is replaced, the timer stays off once cancelled, held frames are released |
| `reorder_timer` | as `reorder_live` | **violation**: see below |
| `usb_rx` | 2 buffers, 2 tokens, 3 URBs, 2 packets, ring of 1, 1 receive frame, 1 error, removal, 2 starts | buffers and URBs conserved, requests kept up, transfers served |
| `usb_live` | fair, 1 buffer, ring of 2 | reception resumes after all buffers were used up |

### What the violations show

* `token_cancel`: `push_back_wait_req` sets `REQ_STATUS_ENQ` after it has linked the request
  (`phl_cmd_dispatcher.c:662`).  The background thread may have registered the request in
  between; the flag then stays on a running request, and a cancel of that request takes the
  branch of a queued one and deletes a node that is in no list (`:881`).  The header promises the
  abort callback after a cancel (`phl_def.h:780`); where the delete faults it does not come.
* `reorder_timer`: `phl_reorder_release` cancels the station's reorder timer whenever the TID
  at hand has nothing stored (`phl_rx.c:666`), although another TID may hold frames behind a
  gap.  Its comment promises a timer for every frame left in the buffer.  Those frames wait
  until their own TID receives something again; `HeldIsReleased` shows that this is the only
  way a frame is held for ever.
* `ser_wdt`: after the firmware failed to answer M2 or M4 the driver says it will "do nothing
  and wait FW WDT" (`phl_cmd_ser.c:609`), but `_ser_poll_timer_cb` then sends
  `FW_TIMER_EXPIRE` at every expiry and no `POLLING_CHK`, so the watchdog's interrupt is never
  read and M9 never handled: transmission stays paused.  What was put off stays pending too, since
  `_ser_msg_hdl_fw_expire` (`:502-516`) clears nothing and level 2, which would, is not reached.

### Reading the conditional properties

Several properties name the exceptions the code really has, so that nothing else can be one.
`SlotPlaces`: until a list operation hits an unlinked node (`oops`).  `Served`: a slot that is
reused while the call that added it before is still under way (`EarlyReuse`).  `TokensKept`:
until the driver is marked stopped or the device removed, which one transfer with a fatal status
does; a failed transfer costs its token, and a submission refused in the deferred timer's
callback costs all that were missing, because it ends the loop of `_phl_rx_start_usb` and only
`RTW_PHL_STATUS_RESOURCE` sets the timer again (`gaveup`; it takes two tokens to see this).
`RxServesPend`, `TokensComeBack`: a full ring makes the RX tasklet leave pending transfers
behind; `TokensComeBack` also needs that no transfer or submission failed.
`TimerOffUnlessReopened`: the marks of `phl_free_rx_reorder` cover the sessions that exist; one
opened afterwards (`rtw_phl_start_rx_ba_session`, `phl_rx_agg.c:255`) is not marked, and its
frames do set the cancelled timer, contrary to the comment at `phl_rx_agg.c:90`.
`HeldIsReleased`: as long as every session that holds frames has the timer (`reorder_timer`).
`PollingGoesOn`, `RecoveryEnds`, `PutOffResumes`: a message lost for want of a slot, or an event
that only asks for a log, ends the polling.  `PutOffResumes` also exempts the recovery given up
by `_ser_msg_hdl_fw_expire` (M9 in `state`), see `ser_wdt`.  `TxWithRecovery`, `QuietReset`:
nothing is said once a recovery failed (`bserl2`) or was cut short by a stop, after which the
code leaves transmission paused.  `OkMeansTaken`: nothing is said of a message whose bitmaps
`cancel_msg` has zeroed and whose CANCEL it has not set yet.  `PostAfterPre`: nothing is said of
a cancelled message. `CmdMsg` is checked without torn words.  With them `CompletedOnce` and
`OkMeansTaken` do not hold (a late CANCEL can be stored over the status of the next message in
the slot), and a bit the background thread clears can bring back a bitmap that `cancel_msg`
zeroed "to ensure msg would not be forward to any modules after cancel"
(`phl_cmd_dispatcher.c:532`).

`token_stop`, `token_cancel`, `msg_stop`, `ser`, `usb_rx` and `usb_live` do not look for
deadlocks: once every bounded event has happened, or the part is down, the system really stops,
and a state in which it stops too early is what their properties exclude.

### Bounds

*Dispatcher.*  Two requestors and one or two slots are enough for every pair of calls to overlap
and for the pool to be empty, reused, and full; three adds on one slot (`token_calls`) let it be
reused while the previous use is still in progress, which two adds on two slots (`token_stop`)
do not.  The combination, two slots, three adds, a cancel and torn words, takes 37.6 million
states, too many to keep as a run; explored once, it keeps `SlotPlaces`, `Exclusive`,
`NextAfterAbortMsg` and `FgTokenSpec`, the first and the last of which are proved for every
instance.  It also has states in which everything waits: the store of another flag undoes
`REQ_STATUS_RUN` of the holder, its free is ignored and the token is never given on.  The source
has 8 request slots and 24 message slots.  Two modules of different priority are enough for both
orders of the phases and for a module that is fed before, and one that is fed after, the module
that puts off.  `MaxMixed` bounds how often a behaviour of `msg_calls` combines a pause of I/O
with a cancel or a put-off message; 0 keeps the run short, and the properties also hold with 1
(8.2 million states). `msg_stop` has no pause of I/O for the same reason; with one its
properties hold as well (1.7 million states).  `TypeOK` and `TokenCount` of `CmdToken` are
proved and not part of a run.

*Recovery.*  Two errors let a recovery follow, or overtake, another; one event of each other
kind meets every step of both.  Two polls distinguish an answer in time, a late one and none
(the source has 10).

*Reordering.*  `SEQ_MODULO` is a multiple of the window and more than twice as large, as 4096
is of the default windows 8, 16, 32 and 64 (a limit set by a module parameter need not divide
it), and the numbers cross its wrap; three packets fill a window with a gap; a ring
of one packet is full at once.  Two TIDs share the timer.

*USB.*  The code has 6 tokens, 8 URBs, 128 buffers, 8192 packets and a ring of 4095.  The model
keeps what matters of that, one URB more than tokens, and makes every pool small enough to
run out: buffers, packets, ring and receive frames.

### Fairness

Dispatcher: the background thread and a thread inside a call keep running, and
the holder of the token ends its command; in `CmdMsg` a module that put a message off resumes
it and paused I/O is resumed.  These are the kernel's scheduling and the callers' contracts
(`phl_cmd_ser.c` calls `phl_disp_eng_clr_pending_msg` when a recovery ends with M5, `:552`, and when
it goes to level 2, `:210`).  One way out breaks the contract:
`_ser_msg_hdl_fw_expire` (`phl_cmd_ser.c:502-516`) clears nothing, so `Completes` says nothing of a
message put off by a recovery in which the firmware timed out.  Nobody has to start a call, and no
queue operation is assumed to win a race.

`Ser`: a pending timer fires, the background thread serves its queue and shows other modules'
messages to this one, and a hung firmware is caught by its watchdog; the firmware need not
answer M2 or M4.  `RxReorder`: an expired timer runs its callback, and whoever has frames to
push pushes them; the peer need not send anything.  `UsbRx`: timers, tasklets, a running
completion and the thread go on, and the core returns what it took; nothing makes the device
answer a request.

## 4. Proofs

`CmdToken_proofs` proves, for every number of requestors, every pool size, any number of
calls, with or without stop and with or without torn words:

* `TypeCorrect`: `TypeOK` is invariant;
* `SlotsConserved`: no slot is lost or in two places, up to the first operation on an unlinked
  node (`SlotPlaces`);
* `TokenCounted`: `token_cnt` is 1 exactly while there is a current request;
* `Refinement`: the dispatcher implements `FgToken`.

The inductive invariant is `IInv`: types, `PcInv` (control states agree with the locals),
`TokenCount` and `SlotPlaces`.  `PcInv` is needed because `SlotPlaces` speaks of the slot in
the background thread's hands, which only the control state determines.  A state with `oops` has
no successor but itself (`OopsStep`), so the steps are proved from `~oops`.  Assumptions: the
pool is not empty (`PoolAssumption`), `NULL` is not a slot or requestor (`NullAssumption`).
The lemmas on the list operations are in `PhlQueue_proofs`.

`RxReorder_proofs` proves `TimerStaysOff` (`TimerOffUnlessReopened`) for any number of TIDs and
packets and any window.  The property alone is not inductive: that the timer stays off depends
on every remaining session carrying the removed mark, which `FreeInv` adds for the behaviours in
which none was opened after the mark.  The argument is that the operations that rebuild a session
(`phl_reorder_release`, `phl_release_reorder_frames`, storing a frame) keep the mark (lemmas
`ReleaseKeepsMark`, `BothKeepMark`, `WindowKeepsMark`), and that a marked session never sets the
timer.

`Ser_proofs` proves the safety properties of the recovery for any number of errors, failures,
lost messages and stops:

* `TypeCorrect` (`TypeOK`), with the bound on the messages the module has in the dispatcher, and
  `PollingAlive` (`PollingGoesOn`), from `PollInv`: every message takes the place of another one
  or of the timer (`QueueBound`), and an interrupt or the message that follows it stands for one
  error status that is not read yet (`Events`);
* `TxPausedForRecovery` (`TxWithRecovery`) and `DmaResetQuiet` (`QuietReset`), from `Handshake`:
  the events on their way to a handler fit the firmware's state, and only the M1 of the next
  recovery follows another one, the M5 of the last (`InFlight`); what is paused at each stage
  (`Pauses`).  Without `InFlight` an M3 could meet a recovery that never paused.  The lemma
  `TxPauseHeld` gives them `TxInv`: until a recovery fails no request to stop is open between two
  handlers, hence the TX tasklet is not between its test and its store, and it is stopped exactly
  while the recovery's bit asks for it.

The three `UsbRx*_proofs` modules are one development, for any number of buffers, tokens, URBs,
packets, receive frames, failures and starts:

* `BuffersHeldOnce` (`BufPlaces`), `UrbsNeverLost` (`UrbsBack`) and `TypeCorrect` (`TypeOK`) from
  `RxInv`: types, every packet in one place (`PktsKept`), what the core is about to take is in
  the ring (`EvInRing`), buffers of requests are busy and distinct (`Tokens`), every buffer in
  one place (`OnePlace`), and `pktcnt` is the number of packets that refer to the buffer
  (`RefsCounted`).  These need each other: a buffer goes back to the idle list when its count
  reaches zero, and that no packet is left then is `RefsCounted`; the counter of idle packets
  stays positive because the core's frames and the ring account for the rest.  Counting is
  done with the cardinality lemmas of `FiniteSetTheorems`, over positions of lists and over the
  core's receive frames;
* `PendServed` (`RxServesPend`), which is inductive once the control states have their types;
* `TokensNeverLost` (`TokensKept`, until the driver is marked stopped or the device removed)
  with `RunState` (until then a failed transfer has been counted before it is completed) and
  `TokensCounted`, which takes a failed transfer off the busy list before the code does:
  `TokensKept` alone does not survive the step that posts it.

Assumptions on the constants are those the code's own numbers satisfy: at least one URB more
than tokens, at least as many buffers as tokens, pools that are not empty; and at least one failure
is admitted (`MaxErrs`).

Only model-checked, because out of the prover's reach: liveness (`Served`, `StopCompletes`,
`Completes`, `RecoveryEnds`, `PutOffResumes`, `HeldIsReleased`, `TokensComeBack`).  Not proved so
far: `Exclusive` and the action properties of `CmdToken`, the properties of
`CmdMsg`, and `TypeOK`, `Window`, `InOrder` and `PktPlaces` of `RxReorder`, which need the order
that `SetToSortSeq` puts released frames in.

## 5. Exposures no property covers

What the code is exposed to, beyond the hazards of `PROJECT.json`, and why nothing is checked.

* *The code gives no promise to check.*  On a multiprocessor, flags that share a status word
  are changed without a lock, so a resume or a completion can be overwritten
  (`phl_cmd_dispatcher.c:416`, `:538`); PHY_ON is sent once, on the edge of `DISPR_NOTIFY_IDLE`, and
  a refusal is not looked at (`:2265`); the leaving thread aborts a request its holder has already
  freed (`:1246`); a message put off by the controller loses its priority
  (`:418`); a hold is ended by another message with the same event (`:321`);
  `dispr_is_fg_empty` can miss a request on the move (`:2211`); frames released by the tasklet
  and by the timer can overtake each other on their way to the ring (`phl_rx.c:692`); the
  firmware gets 10 polls where the comment computes 100 (`phl_cmd_ser.c:241`).
* *It is outside the modules.*  A handle kept after its request ended names the next one
  (`phl_cmd_dispatcher.c:2114`); a refused message both completes and fails (`:1995`);
  `DISPR_SHALL_STOP` survives a restart (`:2192`); a module whose registration fails stays linked
  (`:1571`); ECSA's stop of transmission is taken for a pause, and ended, by a recovery
  (`phl_tx.c:1751`, `:1767`);
  `phl_disp_eng_init` reports success after a failure (`phl_cmd_dispatch_engine.c:93`).
* *It is abstracted.*  The 32-bit clock of the reorder timeout (`phl_rx.c:622`), a BlockAckReq
  half the number space ahead (`phl_rx.c:1150`), a session for a TID out of range
  (`phl_rx_agg.c:250`), `-EPERM` from `usb_submit_urb` (`usb_ops_linux.c:639`).

## 6. Not modelled

* The composition of `CmdToken` and `CmdMsg` (messages of foreground commands, PHY_ON and
  PHY_IDLE with a full pool), a dispatcher started again after a stop, and the registration of
  modules at run time.
* The transmit rings and their scheduling; of transmission only the pause by a recovery is here,
  not the stop by ECSA.
* The message hub, the watchdog, the scan and the other clients of the dispatcher: they appear
  as the requestors and senders of `CmdToken` and `CmdMsg`.
* Stations, channel contexts and roles: bookkeeping under one lock.
* Power saving, multi-channel concurrency and the FSM library are switched off in this build.
* 802.11 management in `src/core`, the HAL's register programming, vendor tables and firmware
  images, and the glue to the kernel: protocol detail and pure I/O.
