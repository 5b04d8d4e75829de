----------------------------- MODULE RealtekTx -----------------------------
(***************************************************************************)
(* The transmit ring of the vendored Realtek driver r8125 (r8125_n.c), in  *)
(* the configuration its Makefile builds: ENABLE_TX_NO_CLOSE, no NAPI, one *)
(* queue, with either interrupt handler: rtl8125_interrupt and its timer   *)
(* mitigation, or rtl8125_interrupt_msix with a vector per event.          *)
(*                                                                         *)
(* Four parties share the ring without a common lock: rtl8125_start_xmit   *)
(* (under the queue's lock), the interrupt handler that reclaims closed    *)
(* descriptors, the work items that run under rtnl (rtl8125_reset_task and *)
(* rtl8125_linkchg_task), and the chip.  In no-close mode the chip learns  *)
(* of new descriptors from sw_tail_ptr and reports finished ones in        *)
(* hw_clo_ptr; ring indexes are free-running unsigned counters.            *)
(***************************************************************************)
EXTENDS Naturals

CONSTANTS num_tx_desc,    \* ring->num_tx_desc
          MAX_SKB_FRAGS,  \* the kernel's bound on skb_shinfo(skb)->nr_frags
          CounterSpan,    \* 2^32: range of the ring indexes (unsigned int)
          PtrSpan,        \* MaxTxDescPtrMask + 1: range of the chip's pointers
          KEEP_COUNT,     \* RTK_KEEP_INTERRUPT_COUNT
          RequireLSOPatch,\* chip versions CFG_METHOD_2, 3 and 6
          Setups,         \* sets of "msix" (HwCurrIsrVer > 1: the handler is
                          \* rtl8125_interrupt_msix), "watchdog" (the transmit
                          \* watchdog may fire), "unplug" (the link may be lost
                          \* from outside) and "forced" (autoneg_mode off with a
                          \* speed other than 10 and 100)
          MaxFlap         \* bound on those losses

ASSUME RingAssumption ==
    /\ num_tx_desc \in Nat /\ MAX_SKB_FRAGS \in Nat /\ KEEP_COUNT \in Nat
    /\ MAX_SKB_FRAGS + 1 < num_tx_desc /\ RequireLSOPatch \in BOOLEAN
    /\ MaxFlap \in Nat /\ Setups \subseteq SUBSET {"msix", "watchdog", "unplug", "forced"}
    /\ PtrSpan \in Nat /\ num_tx_desc < PtrSpan
    /\ CounterSpan \in Nat /\ PtrSpan <= CounterSpan /\ CounterSpan % PtrSpan = 0

VARIABLES
    cur_tx, dirty_tx, BeginHwDesCloPtr,   \* fields of the ring
    sw_tail_ptr, hw_clo_ptr,              \* registers of the chip
    xmit, descs,       \* rtl8125_start_xmit: where it is, descriptors it wrote
    next_tx,           \* the sum it computed and has not yet stored in cur_tx
    irq, reclaimed,    \* the handler: where it is, its local dirty_tx
    isr, imr, timer,   \* interrupt status, mask, timer armed
    keep_intr_cnt,
    stopped, carrier,  \* state the network stack keeps of the queue and the link
    txon, link,        \* chip started; PHY link
    task, pending,     \* work item under rtnl; work items scheduled
    mask,              \* interrupt mask the link task read
    setup,             \* the chip and the surroundings of this machine
    flaps,
    overlap            \* history: a transmit ran while the ring was being cleared

ring == <<cur_tx, dirty_tx, BeginHwDesCloPtr, reclaimed>>
chip == <<sw_tail_ptr, hw_clo_ptr, txon>>
ints == <<isr, imr, timer, keep_intr_cnt>>
netdev == <<stopped, carrier>>
work == <<task, pending, mask>>
outer == <<link, setup, flaps>>
local == <<descs, next_tx>>
vars == <<ring, chip, xmit, local, irq, ints, netdev, work, outer, overlap>>

----------------------------------------------------------------------------
(* Unsigned arithmetic of the ring indexes. *)

Add(a, k) == IF a + k < CounterSpan THEN a + k ELSE a + k - CounterSpan
Sub(a, b) == IF b <= a THEN a - b ELSE a + CounterSpan - b

(* mutant: the room check accepts one slot too few *)
SlotsOffByOne(dirty) == Sub(Add(dirty, num_tx_desc), cur_tx) >= MAX_SKB_FRAGS

(* rtl8125_tx_slots_avail, with the dirty_tx the reader sees *)
tx_slots_avail(dirty) == Sub(Add(dirty, num_tx_desc), cur_tx) > MAX_SKB_FRAGS

(* rtl8125_fast_mod_mask *)
fast_mod_mask(n) == n % PtrSpan

(* Descriptors one packet may take: the head and its fragments; the LSO    *)
(* patch splits the last fragment of a short TSO packet in two.            *)
Needs == 1 .. (MAX_SKB_FRAGS + 1 + (IF RequireLSOPatch THEN 1 ELSE 0))

Msix == "msix" \in setup

(* Places of a work item between the soft reset of the chip and the last   *)
(* store into the ring's indexes.                                          *)
Clearing == {"reset/clear", "reset/clear2", "reset/index", "reset/index2",
             "down/clear", "down/clear2", "down/index", "down/index2"}

IntrMask == {"tok", "link"}
TimerMask == {"pcs", "link"}

Init ==
    /\ cur_tx = 0 /\ dirty_tx = 0 /\ BeginHwDesCloPtr = 0 /\ reclaimed = 0
    /\ sw_tail_ptr = 0 /\ hw_clo_ptr = 0 /\ txon = TRUE
    /\ xmit = "idle" /\ descs = 0 /\ next_tx = 0 /\ irq = "idle"
    /\ isr = {} /\ imr = IntrMask /\ timer = FALSE /\ keep_intr_cnt = KEEP_COUNT
    /\ stopped = FALSE /\ carrier = TRUE /\ link = TRUE
    /\ task = "idle" /\ pending = {} /\ mask = {}
    /\ setup \in Setups /\ flaps = 0 /\ overlap = FALSE

----------------------------------------------------------------------------
(* rtl8125_start_xmit.  The stack calls it for an awake queue, one packet  *)
(* at a time.                                                              *)

Xmit(from, to) ==
    /\ xmit = from /\ xmit' = to
    /\ UNCHANGED <<irq, ints, work, outer, carrier, txon, hw_clo_ptr, dirty_tx,
                   BeginHwDesCloPtr, reclaimed>>

XmitRoom ==
    /\ ~stopped /\ tx_slots_avail(dirty_tx) /\ Xmit("idle", "write")
    /\ overlap' = (overlap \/ task \in Clearing)
    /\ UNCHANGED <<cur_tx, sw_tail_ptr, local, stopped>>

XmitFull ==
    /\ ~stopped /\ ~tx_slots_avail(dirty_tx) /\ Xmit("idle", "busy")
    /\ UNCHANGED <<cur_tx, sw_tail_ptr, local, stopped, overlap>>

(* err_stop *)
XmitBusy ==
    /\ Xmit("busy", "idle") /\ stopped' = TRUE
    /\ UNCHANGED <<cur_tx, sw_tail_ptr, local, overlap>>

XmitWrite ==
    /\ Xmit("write", "publish") /\ descs' \in Needs
    /\ UNCHANGED <<cur_tx, sw_tail_ptr, next_tx, stopped, overlap>>

(* err_dma_0, err_dma_1: what was written is cleared and the packet dropped *)
XmitDrop ==
    /\ Xmit("write", "idle")
    /\ UNCHANGED <<cur_tx, sw_tail_ptr, local, stopped, overlap>>

(* WRITE_ONCE(ring->cur_tx, ring->cur_tx + frags + 1): a load ... *)
XmitLoad ==
    /\ Xmit("publish", "store") /\ next_tx' = Add(cur_tx, descs)
    /\ UNCHANGED <<cur_tx, sw_tail_ptr, descs, stopped, overlap>>

(* ... and a store *)
XmitStore ==
    /\ Xmit("store", "check") /\ cur_tx' = next_tx /\ descs' = 0 /\ next_tx' = 0
    /\ UNCHANGED <<sw_tail_ptr, stopped, overlap>>

XmitCheck ==
    /\ Xmit("check", IF tx_slots_avail(dirty_tx) THEN "bell" ELSE "stop")
    /\ UNCHANGED <<cur_tx, sw_tail_ptr, local, stopped, overlap>>

XmitStop ==
    /\ Xmit("stop", "stopbell") /\ stopped' = TRUE
    /\ UNCHANGED <<cur_tx, sw_tail_ptr, local, overlap>>

(* rtl8125_doorbell *)
doorbell == sw_tail_ptr' = cur_tx % PtrSpan

XmitBell ==
    /\ Xmit("bell", "idle")
    /\ \/ doorbell
       \/ ~stopped /\ UNCHANGED sw_tail_ptr      \* netdev_xmit_more()
    /\ UNCHANGED <<cur_tx, local, stopped, overlap>>

XmitStopBell ==
    /\ Xmit("stopbell", "recheck") /\ doorbell
    /\ UNCHANGED <<cur_tx, local, stopped, overlap>>

XmitRecheck ==
    /\ Xmit("recheck", "idle")
    /\ stopped' = (stopped /\ ~tx_slots_avail(dirty_tx))
    /\ UNCHANGED <<cur_tx, sw_tail_ptr, local, overlap>>

StartXmit == \/ XmitRoom \/ XmitFull \/ XmitBusy \/ XmitWrite \/ XmitDrop \/ XmitLoad
             \/ XmitStore \/ XmitCheck \/ XmitStop \/ XmitBell \/ XmitStopBell
             \/ XmitRecheck

----------------------------------------------------------------------------
(* rtl8125_interrupt and rtl8125_tx_interrupt_noclose.  The handler's store *)
(* of dirty_tx is followed by a write barrier only, so the processor may    *)
(* delay it past the reads after it; the locked instruction of              *)
(* netif_start_subqueue and the register writes at the end wait for it.     *)

Irq(from, to) ==
    /\ irq = from /\ irq' = to
    /\ UNCHANGED <<xmit, local, outer, chip, carrier, cur_tx, task, mask, overlap>>

(* mutant: the count of kept interrupts is decremented without its test *)
IrqEnterUncounted ==
    /\ ~Msix /\ isr \cap imr # {} /\ isr' = {} /\ imr' = {}
    /\ pending' = pending \cup (IF "link" \in isr THEN {"linkchg"} ELSE {})
    /\ keep_intr_cnt' = IF isr \cap IntrMask # {} THEN KEEP_COUNT ELSE keep_intr_cnt - 1
    /\ Irq("idle", "reclaim")
    /\ UNCHANGED <<timer, dirty_tx, BeginHwDesCloPtr, reclaimed, stopped>>

IrqEnter ==
    /\ ~Msix /\ isr \cap imr # {} /\ isr' = {} /\ imr' = {}
    /\ pending' = pending \cup (IF "link" \in isr THEN {"linkchg"} ELSE {})
    /\ \/ /\ isr \cap IntrMask # {} /\ keep_intr_cnt' = KEEP_COUNT
          /\ Irq("idle", "reclaim")
       \/ /\ isr \cap IntrMask = {} /\ keep_intr_cnt > 0
          /\ keep_intr_cnt' = keep_intr_cnt - 1 /\ Irq("idle", "reclaim")
       \/ /\ isr \cap IntrMask = {} /\ keep_intr_cnt = 0
          /\ keep_intr_cnt' = KEEP_COUNT /\ Irq("idle", "tohw")
    /\ UNCHANGED <<timer, dirty_tx, BeginHwDesCloPtr, reclaimed, stopped>>

(* rtl8125_interrupt_msix, vector of the queue and vector of the link *)
MsixEnter ==
    /\ Msix /\ "tok" \in isr \cap imr /\ isr' = isr \ {"tok"} /\ imr' = imr \ {"tok"}
    /\ Irq("idle", "reclaim")
    /\ UNCHANGED <<timer, keep_intr_cnt, pending, dirty_tx, BeginHwDesCloPtr, reclaimed,
                   stopped>>

MsixLink ==
    /\ Msix /\ "link" \in isr \cap imr /\ isr' = isr \ {"link"} /\ imr' = imr \ {"link"}
    /\ pending' = pending \cup {"linkchg"}
    /\ UNCHANGED <<ring, chip, xmit, local, irq, timer, keep_intr_cnt, netdev, task, mask,
                   outer, overlap>>

(* mutant: the pointers' earlier wrap is not masked out *)
ClosedUnmasked == Sub(hw_clo_ptr, BeginHwDesCloPtr)

tx_desc_closed == fast_mod_mask(Sub(hw_clo_ptr, BeginHwDesCloPtr))
TxLeft(closed) == LET queued == Sub(cur_tx, dirty_tx)
                  IN IF closed < queued THEN closed ELSE queued

IrqReclaim ==
    LET tx_left == TxLeft(tx_desc_closed) IN
    /\ Irq("reclaim", IF tx_left = 0 THEN "leave" ELSE "stopped?")
    /\ BeginHwDesCloPtr' = Add(BeginHwDesCloPtr, tx_left)
    /\ reclaimed' = Add(dirty_tx, tx_left)
    /\ UNCHANGED <<ints, pending, dirty_tx, stopped>>

(* the delayed store of dirty_tx reaches memory *)
IrqStore ==
    /\ irq \in {"stopped?", "room?", "carrier?", "start", "leave"}
    /\ dirty_tx # reclaimed /\ dirty_tx' = reclaimed
    /\ UNCHANGED <<cur_tx, BeginHwDesCloPtr, reclaimed, chip, xmit, local, irq, ints,
                   netdev, work, outer, overlap>>

IrqStopped ==
    /\ Irq("stopped?", IF stopped THEN "room?" ELSE "leave")
    /\ UNCHANGED <<ints, pending, dirty_tx, BeginHwDesCloPtr, reclaimed, stopped>>

IrqRoom ==
    /\ Irq("room?", IF tx_slots_avail(reclaimed) THEN "carrier?" ELSE "leave")
    /\ UNCHANGED <<ints, pending, dirty_tx, BeginHwDesCloPtr, reclaimed, stopped>>

IrqCarrier ==
    /\ Irq("carrier?", IF carrier THEN "start" ELSE "leave")
    /\ UNCHANGED <<ints, pending, dirty_tx, BeginHwDesCloPtr, reclaimed, stopped>>

IrqStart ==
    /\ dirty_tx = reclaimed /\ Irq("start", "leave") /\ stopped' = FALSE
    /\ UNCHANGED <<ints, pending, dirty_tx, BeginHwDesCloPtr, reclaimed>>

(* mutant: the timer is not armed *)
IrqLeaveUntimed ==
    /\ dirty_tx = reclaimed /\ Irq("leave", "idle")
    /\ imr' = IF Msix THEN imr \cup {"tok"} ELSE TimerMask
    /\ UNCHANGED <<isr, timer, keep_intr_cnt, pending, dirty_tx, BeginHwDesCloPtr, reclaimed,
                   stopped>>

(* rtl8125_switch_to_timer_interrupt; rtl8125_enable_hw_interrupt_v2 *)
IrqLeave ==
    /\ dirty_tx = reclaimed /\ Irq("leave", "idle")
    /\ timer' = ~Msix /\ imr' = IF Msix THEN imr \cup {"tok"} ELSE TimerMask
    /\ UNCHANGED <<isr, keep_intr_cnt, pending, dirty_tx, BeginHwDesCloPtr, reclaimed, stopped>>

(* rtl8125_switch_to_hw_interrupt *)
IrqToHw ==
    /\ Irq("tohw", "idle") /\ timer' = FALSE /\ imr' = IntrMask
    /\ UNCHANGED <<isr, keep_intr_cnt, pending, dirty_tx, BeginHwDesCloPtr, reclaimed, stopped>>

Interrupt == \/ IrqReclaim \/ IrqStore \/ IrqStopped \/ IrqRoom \/ IrqCarrier
             \/ IrqStart \/ IrqLeave \/ IrqToHw

----------------------------------------------------------------------------
(* The chip and the cable, as the driver relies on them. *)

(* The chip closes the next descriptor; it raises TxOK at least when it    *)
(* has sent all it was given.                                              *)
ChipSend ==
    /\ txon /\ link /\ hw_clo_ptr # sw_tail_ptr
    /\ hw_clo_ptr' = (hw_clo_ptr + 1) % PtrSpan
    /\ isr' \in {isr \cup {"tok"}} \cup (IF hw_clo_ptr' = sw_tail_ptr THEN {} ELSE {isr})
    /\ UNCHANGED <<ring, sw_tail_ptr, txon, xmit, local, irq, imr, timer, keep_intr_cnt,
                   netdev, work, outer, overlap>>

ChipTimer ==
    /\ timer /\ "pcs" \notin isr /\ isr' = isr \cup {"pcs"}
    /\ UNCHANGED <<ring, chip, xmit, local, irq, imr, timer, keep_intr_cnt, netdev, work,
                   outer, overlap>>

LinkDown ==
    /\ "unplug" \in setup /\ link /\ flaps < MaxFlap /\ flaps' = flaps + 1
    /\ link' = FALSE /\ isr' = isr \cup {"link"}
    /\ UNCHANGED <<ring, chip, xmit, local, irq, imr, timer, keep_intr_cnt, netdev, work,
                   setup, overlap>>

LinkUp ==
    /\ ~link /\ link' = TRUE /\ isr' = isr \cup {"link"}
    /\ UNCHANGED <<ring, chip, xmit, local, irq, imr, timer, keep_intr_cnt, netdev, work,
                   setup, flaps, overlap>>

(* dev_watchdog calls rtl8125_tx_timeout for a queue that stays stopped *)
Watchdog ==
    /\ "watchdog" \in setup /\ stopped /\ carrier /\ pending' = pending \cup {"reset"}
    /\ UNCHANGED <<ring, chip, xmit, local, irq, ints, netdev, task, mask, outer, overlap>>

----------------------------------------------------------------------------
(* The work items, one at a time under rtnl. *)

Task(from, to) ==
    /\ task = from /\ task' = to
    /\ overlap' = (overlap \/ (to \in Clearing /\ xmit \notin {"idle", "busy"}))
    /\ UNCHANGED <<xmit, local, irq, keep_intr_cnt, setup, flaps>>

(* rtl8125_reset_task; link_down_patch ("down/...") shares most steps *)
ResetBegin ==
    /\ "reset" \in pending /\ pending' = pending \ {"reset"}
    /\ Task("idle", "reset/disable") /\ carrier' = FALSE
    /\ UNCHANGED <<ring, chip, isr, imr, timer, stopped, mask, link>>

(* netif_tx_disable takes the queue's lock *)
TxDisable ==
    /\ \/ Task("reset/disable", "reset/quiesce") \/ Task("down/disable", "down/chip")
    /\ xmit = "idle" /\ stopped' = TRUE
    /\ UNCHANGED <<ring, chip, isr, imr, timer, carrier, mask, pending, link>>

(* _rtl8125_wait_for_quiescence: synchronize_net, irq_mask_and_ack ... *)
Quiesce ==
    /\ Task("reset/quiesce", "reset/irq") /\ xmit = "idle"
    /\ isr' = {} /\ imr' = {}
    /\ UNCHANGED <<ring, chip, timer, netdev, mask, pending, link>>

(* ... and synchronize_irq *)
QuiesceIrq ==
    /\ Task("reset/irq", "reset/chip") /\ irq = "idle"
    /\ UNCHANGED <<ring, chip, isr, imr, timer, netdev, mask, pending, link>>

(* rtl8125_hw_reset masks and acknowledges the interrupts and soft-resets  *)
(* the chip.  A handler that still runs when the mask is cleared ends      *)
(* within the milliseconds rtl8125_nic_reset takes, before the soft reset. *)
hw_reset ==
    /\ irq = "idle"
    /\ isr' = {} /\ imr' = {} /\ timer' = FALSE
    /\ txon' = FALSE /\ sw_tail_ptr' = 0 /\ hw_clo_ptr' = 0

HwReset ==
    /\ \/ Task("reset/chip", "reset/clear") \/ Task("down/chip", "down/clear")
    /\ hw_reset
    /\ UNCHANGED <<ring, netdev, mask, pending, link>>

(* rtl8125_tx_clear stores 0 in dirty_tx and then in cur_tx ... *)
ClearDirty ==
    /\ \/ Task("reset/clear", "reset/clear2") \/ Task("down/clear", "down/clear2")
    /\ dirty_tx' = 0
    /\ UNCHANGED <<cur_tx, BeginHwDesCloPtr, reclaimed, chip, isr, imr, timer, netdev, mask,
                   pending, link>>

ClearCur ==
    /\ \/ Task("reset/clear2", "reset/index") \/ Task("down/clear2", "down/index")
    /\ cur_tx' = 0
    /\ UNCHANGED <<dirty_tx, BeginHwDesCloPtr, reclaimed, chip, isr, imr, timer, netdev, mask,
                   pending, link>>

(* ... and rtl8125_init_ring_indexes in cur_tx, in dirty_tx and in the     *)
(* handler's BeginHwDesCloPtr.                                             *)
IndexCur ==
    /\ \/ Task("reset/index", "reset/index2") \/ Task("down/index", "down/index2")
    /\ cur_tx' = 0
    /\ UNCHANGED <<dirty_tx, BeginHwDesCloPtr, reclaimed, chip, isr, imr, timer, netdev, mask,
                   pending, link>>

IndexDirty ==
    /\ \/ Task("reset/index2", "reset/link") \/ Task("down/index2", "down/link")
    /\ dirty_tx' = 0 /\ BeginHwDesCloPtr' = 0
    /\ UNCHANGED <<cur_tx, reclaimed, chip, isr, imr, timer, netdev, mask, pending, link>>

(* rtl8125_enable_hw_linkchg_interrupt *)
EnableLink ==
    /\ \/ Task("reset/link", "reset/speed") \/ Task("down/link", "idle")
    /\ imr' = imr \cup {"link"}
    /\ UNCHANGED <<ring, chip, isr, timer, netdev, mask, pending, link>>

(* rtl8125_set_speed renegotiates, and the PHY drops the link; a forced    *)
(* speed other than 10 and 100 is refused and changes nothing.             *)
SetSpeed ==
    /\ Task("reset/speed", "idle")
    /\ link' = (link /\ "forced" \in setup)
    /\ isr' = IF link # link' THEN isr \cup {"link"} ELSE isr
    /\ UNCHANGED <<ring, chip, imr, timer, netdev, mask, pending>>

(* rtl8125_linkchg_task, rtl8125_check_link_status *)
LinkTask ==
    /\ "linkchg" \in pending /\ pending' = pending \ {"linkchg"}
    /\ Task("idle", CASE link = carrier   -> "link/read"
                      [] link /\ ~carrier -> "on/reset"
                      [] OTHER            -> "down/begin")
    /\ UNCHANGED <<ring, chip, isr, imr, timer, netdev, mask, link>>

(* rtl8125_enable_hw_linkchg_interrupt reads the mask, then writes it; the *)
(* MSI-X chips have a register that sets bits.                             *)
LinkRead ==
    /\ Task("link/read", "link/write") /\ mask' = imr
    /\ UNCHANGED <<ring, chip, isr, imr, timer, netdev, pending, link>>

LinkWrite ==
    /\ Task("link/write", "idle") /\ mask' = {}
    /\ imr' = (IF Msix THEN imr ELSE mask) \cup {"link"}
    /\ UNCHANGED <<ring, chip, isr, timer, netdev, pending, link>>

(* rtl8125_link_down_patch *)
DownBegin ==
    /\ Task("down/begin", "down/disable") /\ carrier' = FALSE
    /\ UNCHANGED <<ring, chip, isr, imr, timer, stopped, mask, pending, link>>

(* rtl8125_link_on_patch: rtl8125_hw_config resets the chip once more ... *)
OnReset ==
    /\ Task("on/reset", "on/start") /\ hw_reset
    /\ UNCHANGED <<ring, netdev, mask, pending, link>>

(* ... and rtl8125_hw_start starts it *)
OnStart ==
    /\ Task("on/start", "on/carrier") /\ txon' = TRUE /\ imr' = IntrMask
    /\ UNCHANGED <<ring, sw_tail_ptr, hw_clo_ptr, isr, timer, netdev, mask, pending, link>>

OnCarrier ==
    /\ Task("on/carrier", "on/wake") /\ carrier' = TRUE
    /\ UNCHANGED <<ring, chip, isr, imr, timer, stopped, mask, pending, link>>

(* mutant: the queues stay disabled after the link is back *)
OnStaysAsleep ==
    /\ Task("on/wake", "idle")
    /\ UNCHANGED <<ring, chip, isr, imr, timer, netdev, mask, pending, link>>

OnWake ==
    /\ Task("on/wake", "idle") /\ stopped' = FALSE
    /\ UNCHANGED <<ring, chip, isr, imr, timer, carrier, mask, pending, link>>

Work == \/ ResetBegin \/ TxDisable \/ Quiesce \/ QuiesceIrq \/ HwReset \/ ClearDirty
        \/ ClearCur \/ IndexCur \/ IndexDirty \/ EnableLink \/ SetSpeed \/ LinkTask
        \/ LinkRead \/ LinkWrite \/ DownBegin \/ OnReset \/ OnStart \/ OnCarrier \/ OnWake

Next == \/ StartXmit \/ IrqEnter \/ MsixEnter \/ MsixLink \/ Interrupt
        \/ ChipSend \/ ChipTimer \/ LinkDown \/ LinkUp \/ Watchdog \/ Work

Spec == Init /\ [][Next]_vars

----------------------------------------------------------------------------
(* Safety *)

Index == 0 .. (CounterSpan - 1)
Queued == Sub(cur_tx, dirty_tx)

(* Every variable of the ring, the handler and the work items has its type. *)
TypeOK ==
    /\ cur_tx \in Index /\ dirty_tx \in Index
    /\ BeginHwDesCloPtr \in Index /\ reclaimed \in Index
    /\ sw_tail_ptr \in 0 .. (PtrSpan - 1) /\ hw_clo_ptr \in 0 .. (PtrSpan - 1)
    /\ xmit \in {"idle", "busy", "write", "publish", "store", "check", "stop", "bell",
                 "stopbell", "recheck"}
    /\ descs \in Needs \cup {0} /\ next_tx \in Index
    /\ irq \in {"idle", "reclaim", "stopped?", "room?", "carrier?", "start", "leave", "tohw"}
    /\ isr \subseteq {"tok", "link", "pcs"} /\ imr \subseteq {"tok", "link", "pcs"}
    /\ mask \subseteq {"tok", "link", "pcs"}
    /\ keep_intr_cnt \in 0 .. KEEP_COUNT
    /\ setup \in Setups /\ flaps \in 0 .. MaxFlap
    /\ {timer, stopped, carrier, txon, link, overlap} \subseteq BOOLEAN
    /\ pending \subseteq {"reset", "linkchg"}
    /\ task \in {"idle", "reset/disable", "reset/quiesce", "reset/irq", "reset/chip",
                 "reset/link", "reset/speed", "link/read", "link/write", "down/begin",
                 "down/disable", "down/chip", "down/link", "on/reset", "on/start",
                 "on/carrier", "on/wake"} \cup Clearing

(* No transmit has met a clear of the ring so far, and none is under way. *)
Whole == ~overlap /\ task \notin Clearing

(* rtl8125_start_xmit never writes a descriptor that is still queued: the  *)
(* queued descriptors and those being written fit the ring, whatever stale *)
(* dirty_tx the room checks have read (rtl8125_tx_slots_avail), also after *)
(* resets and losses of the link, as long as no transmit ran while the     *)
(* ring was being cleared (rtl8125_tx_clear, rtl8125_init_ring_indexes).   *)
RingBound == Whole => Queued + descs <= num_tx_desc

(* The handler frees only what the chip has closed, and the chip never     *)
(* runs past what the driver queued: in ring order BeginHwDesCloPtr,       *)
(* hw_clo_ptr, sw_tail_ptr, cur_tx, although the registers wrap earlier    *)
(* than the indexes (rtl8125_fast_mod_mask).  Like RingBound it is stated  *)
(* as long as no transmit ran while the ring was being cleared.            *)
ChipOrder ==
    LET ahead(ptr) == Sub(ptr, BeginHwDesCloPtr) % PtrSpan
    IN Whole => /\ ahead(hw_clo_ptr) <= ahead(sw_tail_ptr)
                /\ ahead(sw_tail_ptr) <= Sub(cur_tx, BeginHwDesCloPtr)

----------------------------------------------------------------------------
(* Liveness *)

(* The kernel's scheduling: a started transmit and a running handler go    *)
(* on, interrupts are delivered, scheduled work gets the rtnl and queue    *)
(* locks, dev_watchdog sees a queue that stays stopped; and the PHY finds  *)
(* its link again.  The chip owes no progress: it may stop sending.        *)
KernelSpec ==
    /\ Spec /\ WF_vars(StartXmit /\ xmit # "idle") /\ SF_vars(Work)
    /\ WF_vars(IrqEnter \/ MsixEnter \/ MsixLink \/ Interrupt)
    /\ WF_vars(LinkUp) /\ WF_vars(Watchdog)

(* A chip that does not hang: it sends what it was given, its timer fires. *)
ChipSpec == KernelSpec /\ WF_vars(ChipSend) /\ WF_vars(ChipTimer)

(* A stopped queue is woken again, although wake-ups can be lost and the   *)
(* chip can hang: rtl8125_tx_timeout schedules the reset, which ends with  *)
(* the carrier back and all queues awake.  Not with a refused forced speed *)
(* (rtl8125_set_speed_xmii): nothing then brings the carrier back.         *)
QueueWakes == (stopped /\ "forced" \notin setup) ~> ~stopped

(* "The interrupt handler ... cleans up after the Tx thread": while the    *)
(* link holds, what the chip has closed is reclaimed.                      *)
TxCleaned ==
    LET closed == tx_desc_closed # 0
    IN []link => (closed ~> ~closed)
============================================================================
