-------------------------- MODULE RealtekTxProofs --------------------------
(***************************************************************************)
(* What holds of the transmit ring for every ring size, fragment limit and *)
(* width of the indexes and registers: its types on every chip, and, on    *)
(* the chips that do not need the LSO patch, that it is never overrun and  *)
(* that the chip's pointers stay in order.                                 *)
(*                                                                         *)
(* RingBound is not inductive: a step that writes descriptors relies on    *)
(* the room check before it, the stores of the transmit and of the handler *)
(* on what they computed earlier, and the bound after a clear on the work  *)
(* item having been alone with the ring.  RingInv adds these.  ChipOrder   *)
(* compares masked differences of counters that wrap at different widths;  *)
(* OrderInv replaces them by the distances s and h the pointers really are *)
(* ahead, and follows the chip through its resets.                         *)
(***************************************************************************)
EXTENDS RealtekTx, TLAPS

Storing == {"stopped?", "room?", "carrier?", "start", "leave"}

(* Places of a clear after its first and after its second store. *)
Emptied == {"reset/index", "reset/index2", "down/index", "down/index2"}
Halved == {"reset/clear2", "down/clear2"} \cup Emptied

RingData ==
    /\ cur_tx \in Index /\ dirty_tx \in Index /\ next_tx \in Index
    /\ BeginHwDesCloPtr \in Index /\ reclaimed \in Index
    /\ hw_clo_ptr \in 0 .. (PtrSpan - 1)
    /\ descs \in Nat

(* A ring nobody clears: it is not overrun, and what the next store of the *)
(* transmit or of the handler relies on.                                   *)
RingFacts ==
    /\ Queued + descs <= num_tx_desc
    /\ (xmit \notin {"publish", "store"}) => (descs = 0)
    /\ (xmit = "store") => (next_tx = Add(cur_tx, descs))
    /\ (xmit = "write") => (Queued + MAX_SKB_FRAGS + 1 <= num_tx_desc)
    /\ (irq \in Storing) => (Sub(reclaimed, dirty_tx) <= Queued)

(* A ring being cleared: the work item is alone with it. *)
ClearFacts ==
    /\ xmit \in {"idle", "busy"} /\ descs = 0 /\ irq = "idle" /\ imr = {}
    /\ (task \in Halved) => (dirty_tx = 0)
    /\ (task \in Emptied) => (cur_tx = 0)

RingInv ==
    /\ Whole => RingFacts
    /\ (~overlap /\ task \in Clearing) => ClearFacts

----------------------------------------------------------------------------
(* Arithmetic of the unsigned indexes *)

(* Sums and differences of indexes are indexes. *)
LEMMA IndexClosed ==
    ASSUME NEW a \in Index, NEW b \in Index, NEW k \in 0 .. num_tx_desc
    PROVE  Add(a, k) \in Index /\ Sub(a, b) \in Index
BY RingAssumption DEF Index, Add, Sub

(* Advancing the head by k lengthens the distance by k. *)
LEMMA AddHead ==
    ASSUME NEW a \in Index, NEW b \in Index, NEW k \in Nat, Sub(a, b) + k <= num_tx_desc
    PROVE  Sub(Add(a, k), b) = Sub(a, b) + k
BY RingAssumption DEF Index, Add, Sub

(* Advancing the tail by k, within the distance, is a distance of k. *)
LEMMA AddTail ==
    ASSUME NEW b \in Index, NEW k \in 0 .. num_tx_desc
    PROVE  Sub(Add(b, k), b) = k
BY RingAssumption DEF Index, Add, Sub

(* A point within a distance splits it. *)
LEMMA SubSplit ==
    ASSUME NEW a \in Index, NEW b \in Index, NEW c \in Index, Sub(b, c) <= Sub(a, c)
    PROVE  Sub(a, b) = Sub(a, c) - Sub(b, c)
BY RingAssumption DEF Index, Sub

(* rtl8125_tx_slots_avail sees the free part of the ring. *)
LEMMA Slots ==
    ASSUME NEW a \in Index, NEW b \in Index, Sub(a, b) <= num_tx_desc
    PROVE  Sub(Add(b, num_tx_desc), a) = num_tx_desc - Sub(a, b)
BY RingAssumption DEF Index, Add, Sub

(* Every number is a quotient and a remainder of PtrSpan ... *)
LEMMA Quotient ==
    ASSUME NEW x \in Nat
    PROVE  /\ x % PtrSpan \in 0 .. (PtrSpan - 1) /\ x \div PtrSpan \in Nat
           /\ x = PtrSpan * (x \div PtrSpan) + (x % PtrSpan)
BY RingAssumption

LEMMA Multiple == ASSUME NEW k \in Nat, k >= 1 PROVE PtrSpan * k >= PtrSpan
BY RingAssumption

(* ... in one way only. *)
LEMMA OneQuotient ==
    ASSUME NEW k \in Nat, NEW j \in Nat, NEW r \in 0 .. (PtrSpan - 1),
           NEW s \in 0 .. (PtrSpan - 1), PtrSpan * k + r = PtrSpan * j + s
    PROVE  r = s
<1>1. PtrSpan \in Nat /\ PtrSpan > 0
  BY RingAssumption
<1>2. ASSUME NEW m \in Nat, NEW n \in Nat, m < n PROVE PtrSpan * n >= PtrSpan * m + PtrSpan
  <2>1. n - m \in Nat /\ n - m >= 1
    BY <1>2
  <2>2. PtrSpan * (n - m) >= PtrSpan
    BY <2>1, Multiple
  <2>3. PtrSpan * (n - m) = PtrSpan * n - PtrSpan * m
    BY <1>1
  <2> QED BY <1>1, <2>2, <2>3
<1>3. PtrSpan * k \in Nat /\ PtrSpan * j \in Nat
  BY <1>1
<1>4. k = j
  BY <1>1, <1>2, <1>3
<1> QED BY <1>1, <1>3, <1>4

LEMMA Remainder ==
    ASSUME NEW x \in Nat, NEW k \in Nat, NEW r \in 0 .. (PtrSpan - 1), x = PtrSpan * k + r
    PROVE  x % PtrSpan = r
<1>1. x % PtrSpan \in 0 .. (PtrSpan - 1) /\ x \div PtrSpan \in Nat
  BY Quotient
<1>2. PtrSpan * k + r = PtrSpan * (x \div PtrSpan) + (x % PtrSpan)
  BY Quotient
<1> QED BY <1>1, <1>2, OneQuotient

(* The width of the indexes is a multiple of the width of the registers. *)
LEMMA Turn == \E q \in Nat : CounterSpan = PtrSpan * q
<1>1. CounterSpan \in Nat /\ CounterSpan % PtrSpan = 0
  BY RingAssumption
<1>2. /\ CounterSpan \div PtrSpan \in Nat
      /\ CounterSpan = PtrSpan * (CounterSpan \div PtrSpan) + (CounterSpan % PtrSpan)
  BY <1>1, Quotient
<1>3. CounterSpan = PtrSpan * (CounterSpan \div PtrSpan)
  BY <1>1, <1>2, RingAssumption
<1> QED BY <1>2, <1>3

(* A register shows no difference between an index and one turn more. *)
LEMMA Wraps == ASSUME NEW x \in Nat PROVE (x + CounterSpan) % PtrSpan = x % PtrSpan
<1>1. PICK q \in Nat : CounterSpan = PtrSpan * q
  BY Turn
<1> DEFINE k == x \div PtrSpan
           r == x % PtrSpan
<1>2. r \in 0 .. (PtrSpan - 1) /\ k \in Nat /\ x = PtrSpan * k + r
  BY Quotient
<1> HIDE DEF k, r
<1>3. PtrSpan * (k + q) = PtrSpan * k + PtrSpan * q
  BY <1>2, RingAssumption
<1>4. x + CounterSpan \in Nat /\ k + q \in Nat /\ x + CounterSpan = PtrSpan * (k + q) + r
  BY <1>1, <1>2, <1>3, RingAssumption
<1>5. (x + CounterSpan) % PtrSpan = r
  BY <1>2, <1>4, Remainder
<1> QED BY <1>5 DEF r

(* The pointer of the next descriptor. *)
LEMMA OneFurther ==
    ASSUME NEW x \in Nat
    PROVE  ((x % PtrSpan) + 1) % PtrSpan = (x + 1) % PtrSpan
<1> DEFINE k == x \div PtrSpan
           r == x % PtrSpan
<1>1. r \in 0 .. (PtrSpan - 1) /\ k \in Nat /\ x = PtrSpan * k + r
  BY Quotient
<1> HIDE DEF k, r
<1>2. r + 1 \in Nat /\ x + 1 \in Nat /\ PtrSpan \in Nat /\ PtrSpan > 0
  BY <1>1, RingAssumption
<1>3. CASE r + 1 < PtrSpan
  <2>1. r + 1 \in 0 .. (PtrSpan - 1) /\ r + 1 = PtrSpan * 0 + (r + 1)
    BY <1>1, <1>2, <1>3
  <2>2. x + 1 = PtrSpan * k + (r + 1)
    BY <1>1, <1>2
  <2>3. (x + 1) % PtrSpan = r + 1
    BY <1>1, <1>2, <2>1, <2>2, Remainder
  <2>4. (r + 1) % PtrSpan = r + 1
    BY <1>1, <1>2, <2>1, Remainder
  <2> QED BY <2>3, <2>4 DEF r
<1>4. CASE r + 1 = PtrSpan
  <2>1. 0 \in 0 .. (PtrSpan - 1) /\ k + 1 \in Nat /\ r + 1 = PtrSpan * 1 + 0
    BY <1>1, <1>2, <1>4
  <2>2. x + 1 = PtrSpan * (k + 1) + 0
    <3>1. PtrSpan * (k + 1) = PtrSpan * k + PtrSpan
      BY <1>1, <1>2
    <3> QED BY <1>1, <1>2, <1>4, <3>1
  <2>3. (x + 1) % PtrSpan = 0
    BY <1>2, <2>1, <2>2, Remainder, Zenon
  <2>4. (r + 1) % PtrSpan = 0
    BY <1>2, <2>1, Remainder
  <2> QED BY <2>3, <2>4 DEF r
<1> QED BY <1>1, <1>2, <1>3, <1>4

(* The difference of a register and an index, masked, is how many          *)
(* descriptors the register is ahead.                                      *)
LEMMA Ahead ==
    ASSUME NEW b \in Index, NEW h \in 0 .. (PtrSpan - 1)
    PROVE  Sub((b + h) % PtrSpan, b) % PtrSpan = h
<1> DEFINE r == (b + h) % PtrSpan
           k == (b + h) \div PtrSpan
<1>1. PICK q \in Nat : CounterSpan = PtrSpan * q
  BY Turn
<1>2. b + h \in Nat
  BY RingAssumption DEF Index
<1>3. r \in 0 .. (PtrSpan - 1) /\ k \in Nat /\ b + h = PtrSpan * k + r
  BY <1>2, Quotient
<1> HIDE DEF r, k
<1>4. /\ PtrSpan \in Nat /\ PtrSpan > 0 /\ PtrSpan * k \in Nat /\ PtrSpan * q \in Nat
      /\ b \in Nat /\ b < PtrSpan * q
  BY <1>1, <1>3, RingAssumption DEF Index
<1>5. CASE b <= r
  <2>1. PtrSpan * k < PtrSpan
    BY <1>3, <1>4, <1>5
  <2>2. k = 0
    BY <1>3, <1>4, <2>1, Multiple
  <2>3. Sub(r, b) \in Nat /\ Sub(r, b) = PtrSpan * 0 + h
    BY <1>3, <1>4, <1>5, <2>2 DEF Sub
  <2>4. Sub(r, b) % PtrSpan = h
    BY <2>3, Remainder
  <2> QED BY <2>4 DEF r
<1>6. CASE b > r
  <2>1. Sub(r, b) = h + PtrSpan * q - PtrSpan * k /\ Sub(r, b) \in Nat
    BY <1>1, <1>3, <1>4, <1>6 DEF Sub
  <2>2. PtrSpan * k < PtrSpan * q + PtrSpan
    BY <1>3, <1>4
  <2>3. q - k \in Nat /\ PtrSpan * (q - k) = PtrSpan * q - PtrSpan * k
    <3>1. k > q => PtrSpan * (k - q) >= PtrSpan
      BY <1>3, Multiple
    <3>2. PtrSpan * (k - q) = PtrSpan * k - PtrSpan * q
      BY <1>3, <1>4
    <3>3. PtrSpan * (q - k) = PtrSpan * q - PtrSpan * k
      BY <1>3, <1>4
    <3> QED BY <1>3, <1>4, <2>2, <3>1, <3>2, <3>3
  <2>4. Sub(r, b) = PtrSpan * (q - k) + h
    BY <1>4, <2>1, <2>3
  <2>5. Sub(r, b) % PtrSpan = h
    BY <2>1, <2>3, <2>4, Remainder
  <2> QED BY <2>5 DEF r
<1> QED BY <1>3, <1>4, <1>5, <1>6

(* What rtl8125_tx_interrupt_noclose reclaims is queued. *)
LEMMA Reclaims ==
    ASSUME RingData, Queued <= num_tx_desc
    PROVE  /\ Queued \in 0 .. num_tx_desc
           /\ TxLeft(tx_desc_closed) \in 0 .. Queued
<1>1. Queued \in 0 .. num_tx_desc
  BY RingAssumption DEF RingData, Queued, Index, Sub
<1>2. Sub(hw_clo_ptr, BeginHwDesCloPtr) \in Nat
  BY RingAssumption DEF RingData, Index, Sub
<1>3. tx_desc_closed \in Nat
  BY <1>2, RingAssumption DEF tx_desc_closed, fast_mod_mask
<1> QED BY <1>1, <1>3, RingAssumption DEF TxLeft, Queued

(* What the types say of the ring. *)
LEMMA Typed == TypeOK => RingData
<1>1. TypeOK => descs \in Nat
  BY RingAssumption DEF TypeOK, Needs
<1> QED BY <1>1, Zenon DEF TypeOK, RingData

----------------------------------------------------------------------------
(* Types *)

LEMMA TypeStart == Init => TypeOK
<1> SUFFICES ASSUME Init PROVE TypeOK
  OBVIOUS
<1>1. 0 \in Index /\ 0 \in 0 .. (PtrSpan - 1) /\ KEEP_COUNT \in 0 .. KEEP_COUNT
      /\ 0 \in 0 .. MaxFlap
  BY RingAssumption DEF Index
<1> QED BY <1>1, Zenon DEF Init, TypeOK, IntrMask, Clearing

(* rtl8125_start_xmit: the head advances by no more than a packet takes. *)
LEMMA TypeXmit ==
    ASSUME TypeOK, StartXmit
    PROVE  TypeOK'
<1>1. UNCHANGED <<dirty_tx, BeginHwDesCloPtr, reclaimed, hw_clo_ptr, irq, isr, imr, mask,
                  keep_intr_cnt, setup, flaps, timer, carrier, txon, link, pending, task>>
  BY Zenon DEF StartXmit, XmitRoom, XmitFull, XmitBusy, XmitWrite, XmitDrop, XmitLoad,
       XmitStore, XmitCheck, XmitStop, XmitBell, XmitStopBell, XmitRecheck, Xmit, ints, work,
       outer
<1>2. xmit' \in {"idle", "busy", "write", "publish", "store", "check", "stop", "bell",
                 "stopbell", "recheck"}
  BY Zenon DEF StartXmit, XmitRoom, XmitFull, XmitBusy, XmitWrite, XmitDrop, XmitLoad,
       XmitStore, XmitCheck, XmitStop, XmitBell, XmitStopBell, XmitRecheck, Xmit
<1>3. stopped' \in BOOLEAN /\ overlap' \in BOOLEAN /\ descs' \in Needs \cup {0}
  BY Zenon DEF TypeOK, local, StartXmit, XmitRoom, XmitFull, XmitBusy, XmitWrite, XmitDrop,
               XmitLoad, XmitStore, XmitCheck, XmitStop, XmitBell, XmitStopBell, XmitRecheck
<1>4. /\ cur_tx' \in {cur_tx, next_tx} /\ next_tx' \in {next_tx, 0, Add(cur_tx, descs)}
      /\ sw_tail_ptr' \in {sw_tail_ptr, cur_tx % PtrSpan}
  BY Zenon DEF StartXmit, XmitRoom, XmitFull, XmitBusy, XmitWrite, XmitDrop, XmitLoad,
       XmitStore, XmitCheck, XmitStop, XmitBell, XmitStopBell, XmitRecheck, doorbell, local
<1>5. descs \in 0 .. num_tx_desc
  BY RingAssumption DEF TypeOK, Needs
<1>6. cur_tx' \in Index /\ next_tx' \in Index
  <2>1. 0 \in Index /\ Add(cur_tx, descs) \in Index
    BY <1>5, IndexClosed, RingAssumption DEF TypeOK, Index
  <2> QED BY <1>4, <2>1, Zenon DEF TypeOK
<1>7. sw_tail_ptr' \in 0 .. (PtrSpan - 1)
  BY <1>4, Quotient, RingAssumption DEF TypeOK, Index
<1> QED BY <1>1, <1>2, <1>3, <1>6, <1>7, Zenon DEF TypeOK

(* The handler: what it reclaims is an index further. *)
LEMMA TypeIrq ==
    ASSUME TypeOK, Interrupt \/ IrqEnter \/ MsixEnter \/ MsixLink
    PROVE  TypeOK'
<1>1. UNCHANGED <<cur_tx, sw_tail_ptr, hw_clo_ptr, xmit, descs, next_tx, mask, setup, flaps,
                  carrier, txon, link, task, overlap>>
  BY Zenon DEF Interrupt, IrqReclaim, IrqStore, IrqStopped, IrqRoom, IrqCarrier, IrqStart,
               IrqLeave, IrqToHw, IrqEnter, MsixEnter, MsixLink, Irq, chip, outer, work,
               netdev, ring, local
<1>2. irq' \in {"idle", "reclaim", "stopped?", "room?", "carrier?", "start", "leave", "tohw"}
  BY Zenon DEF TypeOK, Interrupt, IrqReclaim, IrqStore, IrqStopped, IrqRoom, IrqCarrier,
               IrqStart, IrqLeave, IrqToHw, IrqEnter, MsixEnter, MsixLink, Irq
<1>3. /\ isr' \subseteq {"tok", "link", "pcs"} /\ imr' \subseteq {"tok", "link", "pcs"}
      /\ pending' \subseteq {"reset", "linkchg"} /\ {timer', stopped'} \subseteq BOOLEAN
  BY Zenon DEF TypeOK, Interrupt, IrqReclaim, IrqStore, IrqStopped, IrqRoom, IrqCarrier,
               IrqStart, IrqLeave, IrqToHw, IrqEnter, MsixEnter, MsixLink, IntrMask,
               TimerMask, ints, netdev, work
<1>4. \/ keep_intr_cnt' \in {keep_intr_cnt, KEEP_COUNT}
      \/ keep_intr_cnt > 0 /\ keep_intr_cnt' = keep_intr_cnt - 1
  BY Zenon DEF Interrupt, IrqReclaim, IrqStore, IrqStopped, IrqRoom, IrqCarrier, IrqStart,
               IrqLeave, IrqToHw, IrqEnter, MsixEnter, MsixLink, ints
<1>5. keep_intr_cnt' \in 0 .. KEEP_COUNT
  BY <1>4, RingAssumption DEF TypeOK
<1>6. \/ /\ BeginHwDesCloPtr' = Add(BeginHwDesCloPtr, TxLeft(tx_desc_closed))
         /\ reclaimed' = Add(dirty_tx, TxLeft(tx_desc_closed)) /\ dirty_tx' = dirty_tx
      \/ UNCHANGED <<BeginHwDesCloPtr, reclaimed>> /\ dirty_tx' \in {dirty_tx, reclaimed}
  BY Zenon DEF Interrupt, IrqReclaim, IrqStore, IrqStopped, IrqRoom, IrqCarrier, IrqStart,
               IrqLeave, IrqToHw, IrqEnter, MsixEnter, MsixLink, ring
<1>7. TxLeft(tx_desc_closed) \in Index
  <2>1. Sub(hw_clo_ptr, BeginHwDesCloPtr) \in Nat
    BY RingAssumption DEF TypeOK, Index, Sub
  <2>2. tx_desc_closed \in Nat
    BY <2>1, Quotient, RingAssumption DEF tx_desc_closed, fast_mod_mask
  <2>3. Sub(cur_tx, dirty_tx) \in Index
    BY RingAssumption DEF TypeOK, Index, Sub
  <2> QED BY <2>2, <2>3, RingAssumption DEF TxLeft, Index
<1>8. \A a \in Index, k \in Index : Add(a, k) \in Index
  BY RingAssumption DEF Index, Add
<1>9. BeginHwDesCloPtr' \in Index /\ reclaimed' \in Index /\ dirty_tx' \in Index
  BY <1>6, <1>7, <1>8, Zenon DEF TypeOK
<1> QED BY <1>1, <1>2, <1>3, <1>5, <1>9, Zenon DEF TypeOK

(* The chip, the link and the watchdog. *)
LEMMA TypeChip ==
    ASSUME TypeOK, ChipSend \/ ChipTimer \/ LinkDown \/ LinkUp \/ Watchdog
    PROVE  TypeOK'
<1>1. UNCHANGED <<cur_tx, dirty_tx, BeginHwDesCloPtr, reclaimed, sw_tail_ptr, xmit, descs,
                  next_tx, irq, imr, mask, keep_intr_cnt, setup, timer, stopped, carrier, txon,
                  task, overlap>>
  BY Zenon DEF ChipSend, ChipTimer, LinkDown, LinkUp, Watchdog, ring, chip, ints, netdev,
               work, outer, local
<1>2. isr' \subseteq {"tok", "link", "pcs"}
  <2>1. isr' \in {isr, isr \cup {"tok"}, isr \cup {"link"}, isr \cup {"pcs"}}
    BY Zenon DEF ChipSend, ChipTimer, LinkDown, LinkUp, Watchdog, ints
  <2> QED BY <2>1, Zenon DEF TypeOK
<1>3. link' \in BOOLEAN /\ pending' \subseteq {"reset", "linkchg"}
  BY Zenon DEF TypeOK, ChipSend, ChipTimer, LinkDown, LinkUp, Watchdog, work, outer
<1>4. hw_clo_ptr' \in {hw_clo_ptr, (hw_clo_ptr + 1) % PtrSpan}
  BY Zenon DEF ChipSend, ChipTimer, LinkDown, LinkUp, Watchdog, chip
<1>5. hw_clo_ptr' \in 0 .. (PtrSpan - 1)
  BY <1>4, Quotient, RingAssumption DEF TypeOK
<1>6. flaps' = flaps \/ (flaps < MaxFlap /\ flaps' = flaps + 1)
  BY Zenon DEF ChipSend, ChipTimer, LinkDown, LinkUp, Watchdog, outer
<1>7. flaps' \in 0 .. MaxFlap
  BY <1>6, RingAssumption DEF TypeOK
<1>8. {timer, stopped, carrier, txon, link, overlap}' \subseteq BOOLEAN
  BY <1>1, <1>3, Zenon DEF TypeOK
<1> QED BY <1>1, <1>2, <1>3, <1>5, <1>7, <1>8 DEF TypeOK

(* The work items. *)
LEMMA TypeWork ==
    ASSUME TypeOK, Work
    PROVE  TypeOK'
<1>1. UNCHANGED <<xmit, descs, next_tx, irq, keep_intr_cnt, setup, flaps>>
  BY Zenon DEF Work, ResetBegin, TxDisable, Quiesce, QuiesceIrq, HwReset, ClearDirty, ClearCur,
       IndexCur, IndexDirty, EnableLink, SetSpeed, LinkTask, LinkRead, LinkWrite, DownBegin,
       OnReset, OnStart, hw_reset, OnCarrier, OnWake, Task, local
<1>2. task' \in {"idle", "reset/disable", "reset/quiesce", "reset/irq", "reset/chip",
                 "reset/link", "reset/speed", "link/read", "link/write", "down/begin",
                 "down/disable", "down/chip", "down/link", "on/reset", "on/start",
                 "on/carrier", "on/wake"} \cup Clearing
  <2>1. CASE LinkTask
    <3>1. (link = carrier) \/ (link /\ ~carrier) \/ ~((link = carrier) \/ (link /\ ~carrier))
      OBVIOUS
    <3> QED BY <2>1, Zenon DEF LinkTask, Task
  <2>2. CASE ~LinkTask
    BY <2>2, Zenon DEF Work, ResetBegin, TxDisable, Quiesce, QuiesceIrq, HwReset, ClearDirty,
         ClearCur, IndexCur, IndexDirty, EnableLink, SetSpeed, LinkRead, LinkWrite, DownBegin,
         OnReset, OnStart, hw_reset, OnCarrier, OnWake, Task, Clearing
  <2> QED BY <2>1, <2>2
<1>3. /\ isr' \subseteq {"tok", "link", "pcs"} /\ imr' \subseteq {"tok", "link", "pcs"}
      /\ mask' \subseteq {"tok", "link", "pcs"} /\ pending' \subseteq {"reset", "linkchg"}
  BY Zenon DEF TypeOK, IntrMask, Work, ResetBegin, TxDisable, Quiesce, QuiesceIrq, HwReset,
       ClearDirty, ClearCur, IndexCur, IndexDirty, EnableLink, SetSpeed, LinkTask, LinkRead,
       LinkWrite, DownBegin, OnReset, OnStart, hw_reset, OnCarrier, OnWake
<1>4. {timer', stopped', carrier', txon', link', overlap'} \subseteq BOOLEAN
  BY Zenon DEF TypeOK, Work, ResetBegin, TxDisable, Quiesce, QuiesceIrq, HwReset, ClearDirty,
       ClearCur, IndexCur, IndexDirty, EnableLink, SetSpeed, LinkTask, LinkRead, LinkWrite,
       DownBegin, OnReset, OnStart, hw_reset, OnCarrier, OnWake, chip, netdev, Task
<1>5. /\ cur_tx' \in {cur_tx, 0} /\ dirty_tx' \in {dirty_tx, 0}
      /\ BeginHwDesCloPtr' \in {BeginHwDesCloPtr, 0} /\ reclaimed' \in {reclaimed, 0}
      /\ sw_tail_ptr' \in {sw_tail_ptr, 0} /\ hw_clo_ptr' \in {hw_clo_ptr, 0}
  BY Zenon DEF Work, ResetBegin, TxDisable, Quiesce, QuiesceIrq, HwReset, ClearDirty, ClearCur,
       IndexCur, IndexDirty, EnableLink, SetSpeed, LinkTask, LinkRead, LinkWrite, DownBegin,
       OnReset, OnStart, hw_reset, OnCarrier, OnWake, ring, chip
<1>6. 0 \in Index /\ 0 \in 0 .. (PtrSpan - 1)
  BY RingAssumption DEF Index
<1>7. /\ cur_tx' \in Index /\ dirty_tx' \in Index
      /\ BeginHwDesCloPtr' \in Index /\ reclaimed' \in Index
      /\ sw_tail_ptr' \in 0 .. (PtrSpan - 1) /\ hw_clo_ptr' \in 0 .. (PtrSpan - 1)
  BY <1>5, <1>6, Zenon DEF TypeOK
<1> QED BY <1>1, <1>2, <1>3, <1>4, <1>7, Zenon DEF TypeOK

(* In every interleaving, on every chip, the ring, the handler and the work *)
(* items stay in their types: no index leaves its width, no state is lost.  *)
THEOREM RingTypes == Spec => []TypeOK
<1>1. TypeOK /\ [Next]_vars => TypeOK'
  <2>1. ASSUME TypeOK, Next PROVE TypeOK'
    BY <2>1, TypeXmit, TypeIrq, TypeChip, TypeWork, Zenon DEF Next
  <2>2. ASSUME TypeOK, UNCHANGED vars PROVE TypeOK'
    BY <2>2 DEF TypeOK, vars, ring, chip, ints, netdev, work, outer, local
  <2> QED BY <2>1, <2>2, Zenon
<1> QED BY TypeStart, <1>1, PTL DEF Spec

----------------------------------------------------------------------------
(* The invariant *)

LEMMA RingStart == Init => RingInv
<1>1. Init => RingFacts /\ task \notin Clearing
  BY RingAssumption DEF Init, RingFacts, Queued, Sub, Storing, Clearing
<1> QED BY <1>1, Zenon DEF RingInv

(* rtl8125_start_xmit keeps the facts about a ring nobody clears. *)
LEMMA FactsXmit ==
    ASSUME RequireLSOPatch = FALSE, RingData, RingFacts, StartXmit
    PROVE  RingFacts'
<1> USE DEF RingFacts, RingData
<1>0. Queued \in 0 .. num_tx_desc
  BY Reclaims, RingAssumption DEF Queued, Index, Sub
<1>1. CASE XmitRoom
  <2>1. num_tx_desc - Queued > MAX_SKB_FRAGS
    BY <1>0, <1>1, Slots DEF XmitRoom, tx_slots_avail, Queued
  <2>2. xmit = "idle" /\ xmit' = "write"
    BY <1>1 DEF XmitRoom, Xmit
  <2>3. UNCHANGED <<cur_tx, dirty_tx, reclaimed, descs, irq>>
    BY <1>1 DEF XmitRoom, Xmit, local
  <2>4. Queued' = Queued /\ Sub(reclaimed, dirty_tx)' = Sub(reclaimed, dirty_tx)
    BY <2>3 DEF Queued, Sub
  <2> QED BY <1>0, <2>1, <2>2, <2>3, <2>4, RingAssumption DEF Storing
<1>2. CASE XmitWrite
  <2>1. xmit = "write" /\ xmit' = "publish" /\ descs' \in Needs
    BY <1>2 DEF XmitWrite, Xmit
  <2>2. UNCHANGED <<cur_tx, dirty_tx, reclaimed, irq>>
    BY <1>2 DEF XmitWrite, Xmit
  <2>3. descs' \in 1 .. (MAX_SKB_FRAGS + 1)
    BY <2>1, RingAssumption DEF Needs
  <2>4. Queued' = Queued /\ Sub(reclaimed, dirty_tx)' = Sub(reclaimed, dirty_tx)
    BY <2>2 DEF Queued, Sub
  <2>5. Queued' + descs' <= num_tx_desc
    <3>1. Queued + MAX_SKB_FRAGS + 1 <= num_tx_desc
      BY <2>1
    <3> HIDE DEF RingFacts, RingData
    <3>2. \A q \in 0 .. num_tx_desc, d \in 1 .. (MAX_SKB_FRAGS + 1) :
             q + MAX_SKB_FRAGS + 1 <= num_tx_desc => q + d <= num_tx_desc
      BY RingAssumption
    <3> QED BY <1>0, <2>3, <2>4, <3>1, <3>2
  <2> QED BY <2>1, <2>2, <2>4, <2>5 DEF Storing
<1>3. CASE XmitLoad
  <2>1. xmit' = "store" /\ next_tx' = Add(cur_tx, descs)
    BY <1>3 DEF XmitLoad, Xmit
  <2>2. UNCHANGED <<cur_tx, dirty_tx, reclaimed, descs, irq>>
    BY <1>3 DEF XmitLoad, Xmit
  <2>3. /\ Queued' = Queued /\ Sub(reclaimed, dirty_tx)' = Sub(reclaimed, dirty_tx)
        /\ Add(cur_tx, descs)' = Add(cur_tx, descs)
    BY <2>2 DEF Queued, Sub, Add
  <2> QED BY <2>1, <2>2, <2>3 DEF Storing
<1>4. CASE XmitStore
  <2>1. xmit = "store" /\ xmit' = "check" /\ descs' = 0 /\ cur_tx' = Add(cur_tx, descs)
    BY <1>4 DEF XmitStore, Xmit
  <2>2. UNCHANGED <<dirty_tx, reclaimed, irq>>
    BY <1>4 DEF XmitStore, Xmit
  <2>3. Queued' = Queued + descs
    BY <2>1, <2>2, AddHead DEF Queued
  <2>4. Sub(reclaimed, dirty_tx)' = Sub(reclaimed, dirty_tx)
    BY <2>2 DEF Sub
  <2>5. Sub(reclaimed, dirty_tx) \in Nat
    BY RingAssumption DEF Index, Sub
  <2> QED BY <1>0, <2>1, <2>2, <2>3, <2>4, <2>5, RingAssumption DEF Storing
<1>5. CASE \/ XmitFull \/ XmitBusy \/ XmitDrop \/ XmitCheck \/ XmitStop
           \/ XmitBell \/ XmitStopBell \/ XmitRecheck
  <2>1. UNCHANGED <<cur_tx, dirty_tx, reclaimed, irq, descs>>
    BY <1>5 DEF XmitFull, XmitBusy, XmitDrop, XmitCheck, XmitStop, XmitBell, XmitStopBell,
                XmitRecheck, Xmit, local
  <2>2. xmit \notin {"publish", "store"} /\ xmit' \notin {"publish", "store", "write"}
    BY <1>5 DEF XmitFull, XmitBusy, XmitDrop, XmitCheck, XmitStop, XmitBell, XmitStopBell,
                XmitRecheck, Xmit
  <2>3. Queued' = Queued /\ Sub(reclaimed, dirty_tx)' = Sub(reclaimed, dirty_tx)
    BY <2>1 DEF Queued, Sub
  <2> QED BY <2>1, <2>2, <2>3 DEF Storing
<1> QED BY <1>1, <1>2, <1>3, <1>4, <1>5 DEF StartXmit

(* The interrupt handler keeps them. *)
LEMMA FactsIrq ==
    ASSUME RingData, RingFacts, Interrupt
    PROVE  RingFacts'
<1> USE DEF RingFacts, RingData
<1>0. Queued \in 0 .. num_tx_desc /\ TxLeft(tx_desc_closed) \in 0 .. Queued
  BY Reclaims, RingAssumption DEF Queued, Index, Sub
<1>1. UNCHANGED <<cur_tx, descs, next_tx, xmit>>
  BY DEF Interrupt, IrqReclaim, IrqStore, IrqStopped, IrqRoom, IrqCarrier, IrqStart, IrqLeave,
         IrqToHw, Irq, local
<1>2. Add(cur_tx, descs)' = Add(cur_tx, descs)
  BY <1>1 DEF Add
<1>3. CASE IrqReclaim
  <2> DEFINE n == TxLeft(tx_desc_closed)
  <2>1. dirty_tx' = dirty_tx /\ reclaimed' = Add(dirty_tx, n)
    BY <1>3 DEF IrqReclaim
  <2>2. n \in 0 .. num_tx_desc /\ n <= Queued
    BY <1>0, RingAssumption
  <2> HIDE DEF n
  <2>3. Queued' = Queued
    BY <1>1, <2>1 DEF Queued, Sub
  <2>4. Sub(reclaimed, dirty_tx)' = n
    BY <2>1, <2>2, AddTail DEF Sub
  <2> QED BY <1>1, <1>2, <2>2, <2>3, <2>4
<1>4. CASE IrqStore
  <2>1. UNCHANGED <<reclaimed, irq>> /\ irq \in Storing /\ dirty_tx' = reclaimed
    BY <1>4 DEF IrqStore, Storing
  <2>2. Queued' = Queued - Sub(reclaimed, dirty_tx)
    BY <1>1, <2>1, SubSplit DEF Queued
  <2>3. Sub(reclaimed, dirty_tx) \in Nat
    BY RingAssumption DEF Index, Sub
  <2>4. Sub(reclaimed, dirty_tx)' = 0 /\ Queued' \in Nat
    BY <1>0, <2>1, <2>2, <2>3, RingAssumption DEF Index, Sub
  <2> QED BY <1>0, <1>1, <1>2, <2>1, <2>2, <2>3, <2>4, RingAssumption
<1>5. CASE IrqStopped \/ IrqRoom \/ IrqCarrier \/ IrqStart \/ IrqLeave \/ IrqToHw
  <2>1. UNCHANGED <<dirty_tx, reclaimed>>
    BY <1>5 DEF IrqStopped, IrqRoom, IrqCarrier, IrqStart, IrqLeave, IrqToHw
  <2>2. irq' \in Storing => irq \in Storing
    BY <1>5 DEF IrqStopped, IrqRoom, IrqCarrier, IrqStart, IrqLeave, IrqToHw, Irq, Storing
  <2>3. Queued' = Queued /\ Sub(reclaimed, dirty_tx)' = Sub(reclaimed, dirty_tx)
    BY <1>1, <2>1 DEF Queued, Sub
  <2> QED BY <1>1, <1>2, <2>1, <2>2, <2>3
<1> QED BY <1>3, <1>4, <1>5 DEF Interrupt

(* Only work items move between the places of work items ... *)
LEMMA TaskMoves == ASSUME Next, ~Work PROVE task' = task
BY Zenon DEF Next, StartXmit, XmitRoom, XmitFull, XmitBusy, XmitWrite, XmitDrop, XmitLoad,
   XmitStore, XmitCheck, XmitStop, XmitBell, XmitStopBell, XmitRecheck, Xmit, IrqEnter,
   MsixEnter, MsixLink, Interrupt, IrqReclaim, IrqStore, IrqStopped, IrqRoom, IrqCarrier,
   IrqStart, IrqLeave, IrqToHw, Irq, ChipSend, ChipTimer, LinkDown, LinkUp, Watchdog, work

LEMMA TaskLinks == ASSUME LinkTask PROVE task = "idle" /\ task' \notin Clearing
<1>1. (link = carrier) \/ (link /\ ~carrier) \/ ~((link = carrier) \/ (link /\ ~carrier))
  OBVIOUS
<1>2. task = "idle" /\ task' \in {"link/read", "on/reset", "down/begin"}
  BY <1>1, Zenon DEF LinkTask, Task
<1> QED BY <1>2, Zenon DEF Clearing

LEMMA TaskStep == ASSUME Work PROVE \E from, to : Task(from, to)
BY Zenon DEF Work, ResetBegin, TxDisable, Quiesce, QuiesceIrq, HwReset, ClearDirty, ClearCur,
   IndexCur, IndexDirty, EnableLink, SetSpeed, LinkTask, LinkRead, LinkWrite, DownBegin,
   OnReset, OnStart, OnCarrier, OnWake

(* ... and nothing undoes an overlap. *)
LEMMA OverlapStays == ASSUME Next, overlap PROVE overlap'
<1>1. CASE Work
  BY <1>1, TaskStep, Zenon DEF Task
<1>2. CASE ~Work
  BY <1>2, Zenon DEF Next, StartXmit, XmitRoom, XmitFull, XmitBusy, XmitWrite, XmitDrop,
     XmitLoad, XmitStore, XmitCheck, XmitStop, XmitBell, XmitStopBell, XmitRecheck, IrqEnter,
     MsixEnter, MsixLink, Interrupt, IrqReclaim, IrqStore, IrqStopped, IrqRoom, IrqCarrier,
     IrqStart, IrqLeave, IrqToHw, Irq, ChipSend, ChipTimer, LinkDown, LinkUp, Watchdog
<1> QED BY <1>1, <1>2

(* A step of a work item to a place outside a clear is no overlap. *)
LEMMA Overlaps == ASSUME Work, task' \notin Clearing PROVE overlap' <=> overlap
BY TaskStep, Zenon DEF Task

(* Steps that leave the ring and the transmit alone keep them, as long as  *)
(* the handler does not enter its reclaiming half.                         *)
LEMMA FactsSame ==
    ASSUME RingFacts, UNCHANGED <<cur_tx, dirty_tx, reclaimed, xmit, local>>,
           irq' \in Storing => irq \in Storing
    PROVE  RingFacts'
<1>1. UNCHANGED <<descs, next_tx>>
  BY DEF local
<1>2. /\ Queued' = Queued /\ Sub(reclaimed, dirty_tx)' = Sub(reclaimed, dirty_tx)
      /\ Add(cur_tx, descs)' = Add(cur_tx, descs)
  BY <1>1 DEF Queued, Sub, Add
<1> QED BY <1>1, <1>2 DEF RingFacts

(* A transmit that finds the ring being cleared is an overlap; one that is *)
(* refused touches nothing.                                                *)
LEMMA RingXmit ==
    ASSUME RequireLSOPatch = FALSE, TypeOK, RingInv, StartXmit
    PROVE  RingInv'
<1>1. UNCHANGED <<task, dirty_tx, irq, imr>> /\ (overlap => overlap')
  <2>1. UNCHANGED <<task, dirty_tx, irq, imr>>
    BY Zenon DEF StartXmit, XmitRoom, XmitFull, XmitBusy, XmitWrite, XmitDrop, XmitLoad,
       XmitStore, XmitCheck, XmitStop, XmitBell, XmitStopBell, XmitRecheck, Xmit, work, ints
  <2> QED BY <2>1, OverlapStays, Zenon DEF Next
<1>2. CASE overlap'
  BY <1>2, Zenon DEF RingInv, Whole
<1>3. CASE ~overlap' /\ task \in Clearing
  <2>1. ClearFacts
    BY <1>1, <1>3, Zenon DEF RingInv
  <2>2. XmitFull \/ XmitBusy
    BY <1>3, <2>1, Zenon DEF ClearFacts, StartXmit, XmitRoom, XmitFull, XmitBusy, XmitWrite,
       XmitDrop, XmitLoad, XmitStore, XmitCheck, XmitStop, XmitBell, XmitStopBell, XmitRecheck,
       Xmit
  <2>3. UNCHANGED <<cur_tx, descs>> /\ xmit' \in {"idle", "busy"}
    BY <2>2, Zenon DEF XmitFull, XmitBusy, Xmit, local
  <2>4. ClearFacts'
    BY <1>1, <2>1, <2>3, Zenon DEF ClearFacts
  <2> QED BY <1>1, <1>3, <2>4, Zenon DEF RingInv, Whole
<1>4. CASE ~overlap' /\ task \notin Clearing
  <2>1. RingFacts
    BY <1>1, <1>4, Zenon DEF RingInv, Whole
  <2>2. RingFacts'
    BY <2>1, Typed, FactsXmit
  <2> QED BY <1>1, <1>4, <2>2, Zenon DEF RingInv
<1> QED BY <1>2, <1>3, <1>4, Zenon

(* No handler runs while the ring is being cleared: its interrupts are     *)
(* masked.                                                                 *)
LEMMA RingIrq ==
    ASSUME TypeOK, RingInv, Interrupt \/ IrqEnter \/ MsixEnter \/ MsixLink
    PROVE  RingInv'
<1>1. UNCHANGED <<task, overlap>>
  BY Zenon DEF Interrupt, IrqReclaim, IrqStore, IrqStopped, IrqRoom, IrqCarrier, IrqStart,
       IrqLeave, IrqToHw, IrqEnter, MsixEnter, MsixLink, Irq, work
<1>2. CASE overlap
  BY <1>1, <1>2, Zenon DEF RingInv, Whole
<1>3. CASE ~overlap /\ task \in Clearing
  <2>1. irq = "idle" /\ imr = {}
    BY <1>3, Zenon DEF RingInv, ClearFacts
  <2>2. ~Interrupt
    BY <2>1, Zenon DEF Interrupt, IrqReclaim, IrqStore, IrqStopped, IrqRoom, IrqCarrier,
       IrqStart, IrqLeave, IrqToHw, Irq
  <2>3. ~IrqEnter /\ ~MsixEnter /\ ~MsixLink
    BY <2>1, Zenon DEF IrqEnter, MsixEnter, MsixLink
  <2> QED BY <2>2, <2>3, Zenon
<1>4. CASE ~overlap /\ task \notin Clearing
  <2>1. RingFacts
    BY <1>4, Zenon DEF RingInv, Whole
  <2>2. CASE Interrupt
    <3>1. RingFacts'
      BY <2>1, <2>2, Typed, FactsIrq
    <3> QED BY <1>1, <1>4, <3>1, Zenon DEF RingInv
  <2>3. CASE IrqEnter \/ MsixEnter \/ MsixLink
    <3>1. /\ UNCHANGED <<cur_tx, dirty_tx, reclaimed, xmit, local>>
          /\ irq' \in Storing => irq \in Storing
      BY <2>3, Zenon DEF IrqEnter, MsixEnter, MsixLink, Irq, ring, Storing
    <3>2. RingFacts'
      BY <2>1, <3>1, FactsSame, Zenon
    <3> QED BY <1>1, <1>4, <3>2, Zenon DEF RingInv
  <2> QED BY <2>2, <2>3, Zenon
<1> QED BY <1>2, <1>3, <1>4, Zenon

(* The chip, the link, the watchdog, and the work items outside a clear. *)
LEMMA RingAside ==
    ASSUME RingInv,
           \/ ChipSend \/ ChipTimer \/ LinkDown \/ LinkUp \/ Watchdog
           \/ ResetBegin \/ TxDisable \/ Quiesce \/ QuiesceIrq \/ EnableLink \/ SetSpeed
           \/ LinkTask \/ LinkRead \/ LinkWrite \/ DownBegin \/ OnReset \/ OnStart \/ OnCarrier
           \/ OnWake
    PROVE  RingInv'
<1>1. UNCHANGED <<cur_tx, dirty_tx, reclaimed, xmit, local, irq>>
  BY Zenon DEF ChipSend, ChipTimer, LinkDown, LinkUp, Watchdog, ResetBegin, TxDisable, Quiesce,
       QuiesceIrq, EnableLink, SetSpeed, LinkTask, LinkRead, LinkWrite, DownBegin, OnReset,
       OnStart, OnCarrier, OnWake, Task, ring
<1>2. \/ task \notin Clearing /\ task' \notin Clearing /\ (overlap' <=> overlap)
      \/ UNCHANGED <<task, overlap, imr>>
  <2>1. CASE ChipSend \/ ChipTimer \/ LinkDown \/ LinkUp \/ Watchdog
    BY <2>1, Zenon DEF ChipSend, ChipTimer, LinkDown, LinkUp, Watchdog, work, ints
  <2>2. CASE LinkTask
    <3>1. task \notin Clearing /\ task' \notin Clearing
      BY <2>2, TaskLinks, Zenon DEF Clearing
    <3> QED BY <2>2, <3>1, Overlaps, Zenon DEF Work
  <2>3. CASE \/ ResetBegin \/ TxDisable \/ Quiesce \/ QuiesceIrq \/ EnableLink \/ SetSpeed
             \/ LinkRead \/ LinkWrite \/ DownBegin \/ OnReset \/ OnStart \/ OnCarrier \/ OnWake
    BY <2>3, Zenon DEF Clearing, ResetBegin, TxDisable, Quiesce, QuiesceIrq, EnableLink,
       SetSpeed, LinkRead, LinkWrite, DownBegin, OnReset, OnStart, OnCarrier, OnWake, Task
  <2> QED BY <2>1, <2>2, <2>3, Zenon
<1>3. RingFacts => RingFacts'
  BY <1>1, FactsSame, Zenon
<1>4. CASE task \notin Clearing /\ task' \notin Clearing /\ (overlap' <=> overlap)
  BY <1>3, <1>4, Zenon DEF RingInv, Whole
<1>5. CASE UNCHANGED <<task, overlap, imr>>
  <2>1. ClearFacts => ClearFacts'
    BY <1>1, <1>5, Zenon DEF ClearFacts, local
  <2> QED BY <1>3, <1>5, <2>1, Zenon DEF RingInv, Whole
<1> QED BY <1>2, <1>4, <1>5, Zenon

(* The soft reset and the four stores that follow it: with no transmit     *)
(* under way they leave an empty ring.                                     *)
LEMMA RingClear ==
    ASSUME TypeOK, RingInv, HwReset \/ ClearDirty \/ ClearCur \/ IndexCur \/ IndexDirty
    PROVE  RingInv'
<1>1. UNCHANGED <<xmit, descs, irq>> /\ (overlap => overlap')
  BY Zenon DEF HwReset, ClearDirty, ClearCur, IndexCur, IndexDirty, Task, local
<1>2. CASE overlap'
  BY <1>2, Zenon DEF RingInv, Whole
<1>3. CASE ~overlap' /\ HwReset
  <2>1. task \in {"reset/chip", "down/chip"} /\ task' \in {"reset/clear", "down/clear"}
    BY <1>3, Zenon DEF HwReset, Task
  <2>2. task \notin Clearing /\ task' \in Clearing \ (Halved \cup Emptied)
    BY <2>1, Zenon DEF Clearing, Halved, Emptied
  <2>3. xmit \in {"idle", "busy"} /\ irq = "idle" /\ imr' = {}
    BY <1>3, <2>2, Zenon DEF HwReset, hw_reset, Task
  <2>4. descs = 0
    BY <1>1, <1>3, <2>2, <2>3, Zenon DEF RingInv, Whole, RingFacts
  <2>5. ClearFacts'
    BY <1>1, <2>2, <2>3, <2>4, Zenon DEF ClearFacts
  <2> QED BY <2>2, <2>5, Zenon DEF RingInv, Whole
<1>4. CASE ~overlap' /\ (ClearDirty \/ ClearCur \/ IndexCur)
  <2>1. task \in Clearing /\ task' \in Clearing
    BY <1>4, Zenon DEF ClearDirty, ClearCur, IndexCur, Task, Clearing
  <2>2. ClearFacts
    BY <1>1, <1>4, <2>1, Zenon DEF RingInv
  <2>3. imr' = imr
    BY <1>4, Zenon DEF ClearDirty, ClearCur, IndexCur
  <2>4. dirty_tx' = 0
    BY <1>4, <2>2, Zenon DEF ClearFacts, Halved, Emptied, ClearDirty, ClearCur, IndexCur, Task
  <2>5. task' \in Emptied => cur_tx' = 0
    BY <1>4, Zenon DEF Emptied, ClearDirty, ClearCur, IndexCur, Task
  <2>6. ClearFacts'
    BY <1>1, <2>2, <2>3, <2>4, <2>5, Zenon DEF ClearFacts
  <2> QED BY <2>1, <2>6, Zenon DEF RingInv, Whole
<1>5. CASE ~overlap' /\ IndexDirty
  <2>1. task \in Clearing /\ task \in Emptied /\ task' \notin Clearing
    BY <1>5, Zenon DEF IndexDirty, Task, Clearing, Emptied
  <2>2. ClearFacts
    BY <1>1, <1>5, <2>1, Zenon DEF RingInv
  <2>3. cur_tx' = 0 /\ dirty_tx' = 0
    BY <1>5, <2>1, <2>2, Zenon DEF IndexDirty, ClearFacts
  <2>4. Queued' = 0
    BY <2>3 DEF Queued, Sub
  <2>5. xmit' \in {"idle", "busy"} /\ descs' = 0 /\ irq' = "idle"
    BY <1>1, <2>2, Zenon DEF ClearFacts
  <2>6. RingFacts'
    BY <2>4, <2>5, RingAssumption DEF RingFacts, Storing
  <2> QED BY <2>1, <2>6, Zenon DEF RingInv
<1> QED BY <1>2, <1>3, <1>4, <1>5, Zenon

LEMMA RingInductive ==
    ASSUME RequireLSOPatch = FALSE
    PROVE  Spec => []RingInv
<1>1. TypeOK /\ RingInv /\ [Next]_vars => RingInv'
  <2>1. ASSUME TypeOK, RingInv, Next PROVE RingInv'
    BY <2>1, RingXmit, RingIrq, RingAside, RingClear, Zenon DEF Next, Work
  <2>2. ASSUME RingInv, UNCHANGED vars PROVE RingInv'
    <3>1. UNCHANGED <<cur_tx, dirty_tx, reclaimed, xmit, local, irq, task, overlap, imr>>
      BY <2>2, Zenon DEF vars, ring, work, ints
    <3>2. (RingFacts => RingFacts') /\ (ClearFacts => ClearFacts')
      BY <3>1, FactsSame, Zenon DEF ClearFacts, local
    <3> QED BY <2>2, <3>1, <3>2, Zenon DEF RingInv, Whole
  <2> QED BY <2>1, <2>2
<1> QED BY RingTypes, RingStart, <1>1, PTL DEF Spec

(* On every chip without the LSO patch, no interleaving of transmits,      *)
(* handlers with delayed stores, resets and link changes makes             *)
(* rtl8125_start_xmit overwrite a queued descriptor, as long as no         *)
(* transmit has run while a work item was clearing the ring.               *)
THEOREM RingNeverOverrun ==
    ASSUME RequireLSOPatch = FALSE
    PROVE  Spec => []RingBound
<1>1. RingInv => RingBound
  BY DEF RingInv, RingFacts, RingBound
<1> QED BY <1>1, RingInductive, PTL

----------------------------------------------------------------------------
(* The order of the chip's pointers *)

(* Where the handler is in the ring: dirty_tx lags behind it only while    *)
(* its store is under way.                                                 *)
Lag == IF irq \in Storing THEN reclaimed = BeginHwDesCloPtr ELSE dirty_tx = BeginHwDesCloPtr

(* The chip's pointers are s and h descriptors ahead of the handler. *)
Positions(s, h) ==
    /\ h <= s /\ s <= Sub(cur_tx, BeginHwDesCloPtr)
    /\ sw_tail_ptr = (BeginHwDesCloPtr + s) % PtrSpan
    /\ hw_clo_ptr = (BeginHwDesCloPtr + h) % PtrSpan

(* A ring nobody clears.  A chip that is not started has closed nothing. *)
OrderFacts ==
    /\ Lag
    /\ \E s, h \in 0 .. num_tx_desc : Positions(s, h)
    /\ ~txon => (BeginHwDesCloPtr = 0 /\ hw_clo_ptr = 0)

(* A ring being cleared: the chip has been reset. *)
ResetFacts == sw_tail_ptr = 0 /\ hw_clo_ptr = 0 /\ ~txon

(* Without carrier the chip is off, except before the reset that follows   *)
(* the loss of the carrier and after the start that precedes its return.   *)
Raised == {"reset/disable", "reset/quiesce", "reset/irq", "reset/chip", "down/disable",
           "down/chip", "on/carrier"}
Powered ==
    /\ (task = "on/reset") => ~carrier
    /\ (~carrier /\ task \notin Raised) => ~txon

OrderInv ==
    /\ Powered
    /\ Whole => OrderFacts
    /\ (~overlap /\ task \in Clearing) => ResetFacts

(* The head is as far ahead as the driver has queued. *)
LEMMA HeadAhead ==
    ASSUME NEW a \in Index, NEW b \in Index
    PROVE  a % PtrSpan = (b + Sub(a, b)) % PtrSpan
<1>1. a \in Nat /\ b \in Nat /\ CounterSpan \in Nat
  BY RingAssumption DEF Index
<1>2. b + Sub(a, b) = a \/ b + Sub(a, b) = a + CounterSpan
  BY <1>1 DEF Sub
<1> QED BY <1>1, <1>2, Wraps

(* The wrap of an index does not move the pointers. *)
LEMMA TailAhead ==
    ASSUME NEW b \in Index, NEW k \in 0 .. num_tx_desc, NEW m \in Nat
    PROVE  (Add(b, k) + m) % PtrSpan = (b + k + m) % PtrSpan
<1>1. b \in Nat /\ CounterSpan \in Nat /\ k \in Nat
  BY RingAssumption DEF Index
<1>2. CASE b + k < CounterSpan
  BY <1>1, <1>2 DEF Add
<1>3. CASE b + k >= CounterSpan
  <2> DEFINE x == Add(b, k) + m
  <2>1. x \in Nat /\ b + k + m = x + CounterSpan
    BY <1>1, <1>3 DEF Add
  <2> HIDE DEF x
  <2>2. (x + CounterSpan) % PtrSpan = x % PtrSpan
    BY <2>1, Wraps
  <2> QED BY <2>1, <2>2 DEF x
<1> QED BY <1>1, <1>2, <1>3

(* What is queued beyond the handler fits the ring. *)
LEMMA Unreclaimed ==
    ASSUME RingData, RingFacts, Lag
    PROVE  /\ Sub(cur_tx, BeginHwDesCloPtr) \in 0 .. num_tx_desc
           /\ Sub(cur_tx, BeginHwDesCloPtr) <= Queued /\ Queued \in Nat
<1>1. Queued \in 0 .. num_tx_desc
  BY Reclaims, RingAssumption DEF RingFacts, RingData, Queued, Index, Sub
<1>2. CASE irq \in Storing
  <2>1. Sub(reclaimed, dirty_tx) <= Queued
    BY <1>2 DEF RingFacts
  <2>2. Sub(cur_tx, reclaimed) = Queued - Sub(reclaimed, dirty_tx)
    BY <2>1, SubSplit DEF RingData, Queued
  <2>3. Sub(reclaimed, dirty_tx) \in Nat
    BY RingAssumption DEF RingData, Index, Sub
  <2> QED BY <1>1, <1>2, <2>1, <2>2, <2>3, RingAssumption DEF Lag
<1>3. CASE irq \notin Storing
  BY <1>1, <1>3 DEF Lag, Queued
<1> QED BY <1>2, <1>3

(* An empty ring and a chip that was reset are in order. *)
LEMMA Origin ==
    ASSUME NEW c \in Index
    PROVE  /\ 0 = (0 + 0) % PtrSpan /\ 0 \in 0 .. num_tx_desc
           /\ 0 <= 0 /\ 0 <= Sub(c, 0)
<1>1. 0 = PtrSpan * 0 + 0 /\ 0 \in Nat /\ 0 \in 0 .. (PtrSpan - 1)
  BY RingAssumption
<1>2. 0 % PtrSpan = 0
  BY <1>1, Remainder, RingAssumption
<1> QED BY <1>2, RingAssumption DEF Sub, Index

LEMMA OrderStart == Init => OrderInv
<1> SUFFICES ASSUME Init PROVE OrderInv
  OBVIOUS
<1>1. BeginHwDesCloPtr = 0 /\ sw_tail_ptr = 0 /\ hw_clo_ptr = 0 /\ cur_tx \in Index
  BY RingAssumption DEF Init, Index
<1>2. Lag /\ Powered /\ task \notin Clearing /\ txon
  BY Zenon DEF Init, Lag, Powered, Storing, Clearing
<1>3. Positions(0, 0)
  BY <1>1, Origin, Zenon DEF Positions
<1> QED BY <1>1, <1>2, <1>3, Origin, Zenon DEF OrderInv, OrderFacts

(* The carrier and the power of the chip. *)
LEMMA PoweredStep ==
    ASSUME TypeOK, Powered, Next
    PROVE  Powered'
<1>1. CASE Work
  <2>1. CASE LinkTask
    <3>1. (link = carrier) \/ (link /\ ~carrier) \/ ~((link = carrier) \/ (link /\ ~carrier))
      OBVIOUS
    <3>2. task = "idle" /\ UNCHANGED <<carrier, txon>> /\ (task' = "on/reset" => ~carrier)
      BY <2>1, <3>1, Zenon DEF LinkTask, Task, netdev, chip
    <3> QED BY <3>2, Zenon DEF Powered, Raised
  <2>2. CASE HwReset \/ OnReset
    <3>1. txon' = FALSE /\ task' # "on/reset"
      BY <2>2, Zenon DEF HwReset, OnReset, hw_reset, Task
    <3> QED BY <3>1, Zenon DEF Powered
  <2>3. CASE OnStart \/ OnCarrier \/ ResetBegin \/ DownBegin
    BY <2>3, Zenon DEF Powered, Raised, OnStart, OnCarrier, ResetBegin, DownBegin, Task
  <2>4. CASE \/ TxDisable \/ Quiesce \/ QuiesceIrq \/ ClearDirty \/ ClearCur \/ IndexCur
             \/ IndexDirty \/ EnableLink \/ SetSpeed \/ LinkRead \/ LinkWrite \/ OnWake
    <3>1. UNCHANGED <<carrier, txon>> /\ task' # "on/reset"
      BY <2>4, Zenon DEF TxDisable, Quiesce, QuiesceIrq, ClearDirty, ClearCur, IndexCur,
         IndexDirty, EnableLink, SetSpeed, LinkRead, LinkWrite, OnWake, Task, netdev, chip
    <3>2. task \in Raised => task' \in Raised
      BY <2>4, Zenon DEF TxDisable, Quiesce, QuiesceIrq, ClearDirty, ClearCur, IndexCur,
         IndexDirty, EnableLink, SetSpeed, LinkRead, LinkWrite, OnWake, Task, Raised
    <3> QED BY <3>1, <3>2, Zenon DEF Powered
  <2> QED BY <1>1, <2>1, <2>2, <2>3, <2>4, Zenon DEF Work
<1>2. CASE ~Work
  <2>1. UNCHANGED <<task, carrier, txon>>
    BY <1>2, Zenon DEF Next, StartXmit, XmitRoom, XmitFull, XmitBusy, XmitWrite, XmitDrop,
       XmitLoad, XmitStore, XmitCheck, XmitStop, XmitBell, XmitStopBell, XmitRecheck, Xmit,
       IrqEnter, MsixEnter, MsixLink, Interrupt, IrqReclaim, IrqStore, IrqStopped, IrqRoom,
       IrqCarrier, IrqStart, IrqLeave, IrqToHw, Irq, ChipSend, ChipTimer, LinkDown, LinkUp,
       Watchdog, work, chip, netdev
  <2> QED BY <2>1, Zenon DEF Powered
<1> QED BY <1>1, <1>2

(* rtl8125_start_xmit moves the head, and the doorbell moves the tail to it. *)
LEMMA OrderXmit ==
    ASSUME RingData, RingFacts, OrderFacts, StartXmit
    PROVE  OrderFacts'
<1>1. UNCHANGED <<BeginHwDesCloPtr, reclaimed, dirty_tx, hw_clo_ptr, irq, txon>>
  BY Zenon DEF StartXmit, XmitRoom, XmitFull, XmitBusy, XmitWrite, XmitDrop, XmitLoad,
       XmitStore, XmitCheck, XmitStop, XmitBell, XmitStopBell, XmitRecheck, Xmit
<1>2. Lag /\ Lag' /\ (~txon' => (BeginHwDesCloPtr' = 0 /\ hw_clo_ptr' = 0))
  BY <1>1, Zenon DEF OrderFacts, Lag
<1>3. PICK s \in 0 .. num_tx_desc, h \in 0 .. num_tx_desc : Positions(s, h)
  BY Zenon DEF OrderFacts
<1>4. PICK d \in 0 .. num_tx_desc : d = Sub(cur_tx, BeginHwDesCloPtr) /\ d <= Queued
  BY <1>2, Unreclaimed
<1>5. /\ cur_tx \in Index /\ BeginHwDesCloPtr \in Index /\ num_tx_desc \in Nat
      /\ h <= s /\ s <= d /\ h <= d
  <2>1. h <= s /\ s <= d
    BY <1>3, <1>4, Zenon DEF Positions
  <2> QED BY <2>1, RingAssumption DEF RingData
<1>6. \/ cur_tx' = Add(cur_tx, descs) /\ sw_tail_ptr' = sw_tail_ptr
      \/ cur_tx' = cur_tx /\ sw_tail_ptr' \in {sw_tail_ptr, cur_tx % PtrSpan}
  <2>1. CASE XmitStore
    BY <2>1, Zenon DEF XmitStore, Xmit, RingFacts
  <2>2. CASE ~XmitStore
    BY <2>2, Zenon DEF StartXmit, XmitRoom, XmitFull, XmitBusy, XmitWrite, XmitDrop, XmitLoad,
       XmitCheck, XmitStop, XmitBell, XmitStopBell, XmitRecheck, doorbell
  <2> QED BY <2>1, <2>2
<1>7. CASE cur_tx' = Add(cur_tx, descs) /\ sw_tail_ptr' = sw_tail_ptr
  <2>1. descs \in Nat /\ d + descs <= num_tx_desc
    <3>1. Queued \in Nat
      BY <1>2, Unreclaimed
    <3> QED BY <1>4, <1>5, <3>1 DEF RingFacts, RingData
  <2>2. Sub(Add(cur_tx, descs), BeginHwDesCloPtr) = d + descs
    BY <1>4, <1>5, <2>1, AddHead
  <2>3. s <= d + descs
    BY <1>5, <2>1
  <2>4. Positions(s, h)'
    BY <1>1, <1>3, <1>7, <2>2, <2>3, Zenon DEF Positions
  <2> QED BY <1>2, <2>4, Zenon DEF OrderFacts
<1>8. CASE cur_tx' = cur_tx /\ sw_tail_ptr' = sw_tail_ptr
  <2>1. Positions(s, h)'
    BY <1>1, <1>3, <1>8, Zenon DEF Positions, Sub
  <2> QED BY <1>2, <2>1, Zenon DEF OrderFacts
<1>9. CASE cur_tx' = cur_tx /\ sw_tail_ptr' = cur_tx % PtrSpan
  <2>1. cur_tx % PtrSpan = (BeginHwDesCloPtr + d) % PtrSpan
    BY <1>4, <1>5, HeadAhead
  <2>2. d <= d
    BY <1>5
  <2>3. Positions(d, h)'
    BY <1>1, <1>3, <1>4, <1>5, <1>9, <2>1, <2>2, Zenon DEF Positions, Sub
  <2> QED BY <1>2, <1>4, <2>3, Zenon DEF OrderFacts
<1> QED BY <1>6, <1>7, <1>8, <1>9, Zenon

(* Steps that move no pointer of the ring or the chip, start no store of   *)
(* the handler and do not switch the chip off.                             *)
LEMMA OrderSame ==
    ASSUME OrderFacts, ~txon' => ~txon,
           UNCHANGED <<cur_tx, BeginHwDesCloPtr, sw_tail_ptr, hw_clo_ptr>>, Lag'
    PROVE  OrderFacts'
<1>1. PICK s \in 0 .. num_tx_desc, h \in 0 .. num_tx_desc : Positions(s, h)
  BY Zenon DEF OrderFacts
<1>2. Positions(s, h)'
  BY <1>1, Zenon DEF Positions, Sub
<1> QED BY <1>2, Zenon DEF OrderFacts

(* What the handler reclaims is what the chip has closed. *)
LEMMA OrderReclaim ==
    ASSUME RingData, RingFacts, OrderFacts, IrqReclaim
    PROVE  OrderFacts'
<1>1. /\ irq = "reclaim" /\ irq' \in Storing /\ txon' = txon
      /\ UNCHANGED <<cur_tx, sw_tail_ptr, hw_clo_ptr>>
      /\ BeginHwDesCloPtr' = Add(BeginHwDesCloPtr, TxLeft(tx_desc_closed))
      /\ reclaimed' = Add(dirty_tx, TxLeft(tx_desc_closed))
  BY Zenon DEF IrqReclaim, Irq, chip, Storing
<1>2. Lag /\ dirty_tx = BeginHwDesCloPtr
  BY <1>1, Zenon DEF OrderFacts, Lag, Storing
<1>3. Lag'
  BY <1>1, <1>2, Zenon DEF Lag
<1>4. PICK s \in 0 .. num_tx_desc, h \in 0 .. num_tx_desc : Positions(s, h)
  BY Zenon DEF OrderFacts
<1>5. PICK d \in 0 .. num_tx_desc : d = Sub(cur_tx, BeginHwDesCloPtr) /\ d <= Queued
  BY <1>2, Unreclaimed
<1>6. /\ cur_tx \in Index /\ BeginHwDesCloPtr \in Index /\ num_tx_desc \in Nat
      /\ num_tx_desc < PtrSpan /\ PtrSpan \in Nat /\ BeginHwDesCloPtr \in Nat
      /\ h <= s /\ s <= d /\ h <= d
  <2>1. h <= s /\ s <= d
    BY <1>4, <1>5, Zenon DEF Positions
  <2> QED BY <2>1, RingAssumption DEF RingData, Index
<1>7. tx_desc_closed = h
  <2>1. h \in 0 .. (PtrSpan - 1) /\ hw_clo_ptr = (BeginHwDesCloPtr + h) % PtrSpan
    BY <1>4, <1>6 DEF Positions
  <2> QED BY <1>6, <2>1, Ahead DEF tx_desc_closed, fast_mod_mask
<1>8. TxLeft(tx_desc_closed) = h
  BY <1>2, <1>5, <1>6, <1>7 DEF TxLeft
<1> DEFINE b == Add(BeginHwDesCloPtr, h)
<1>9. b \in Index /\ Sub(b, BeginHwDesCloPtr) = h
  BY <1>6, IndexClosed, AddTail
<1>10. Sub(cur_tx, b) = d - h
  <2> HIDE DEF b
  <2>1. Sub(b, BeginHwDesCloPtr) <= Sub(cur_tx, BeginHwDesCloPtr)
    BY <1>5, <1>6, <1>9, Zenon
  <2>2. Sub(cur_tx, b) = Sub(cur_tx, BeginHwDesCloPtr) - Sub(b, BeginHwDesCloPtr)
    BY <1>6, <1>9, <2>1, SubSplit
  <2> QED BY <1>5, <1>9, <2>2, Zenon
<1>11. s - h \in 0 .. num_tx_desc /\ s - h <= d - h /\ 0 <= s - h /\ 0 \in 0 .. num_tx_desc
  BY <1>6
<1>12. (b + (s - h)) % PtrSpan = (BeginHwDesCloPtr + s) % PtrSpan
  <2>1. (b + (s - h)) % PtrSpan = (BeginHwDesCloPtr + h + (s - h)) % PtrSpan
    BY <1>6, <1>11, TailAhead
  <2>2. BeginHwDesCloPtr + h + (s - h) = BeginHwDesCloPtr + s
    BY <1>6
  <2> QED BY <2>1, <2>2
<1>13. (b + 0) % PtrSpan = (BeginHwDesCloPtr + h) % PtrSpan
  <2>1. (b + 0) % PtrSpan = (BeginHwDesCloPtr + h + 0) % PtrSpan
    BY <1>6, TailAhead
  <2>2. BeginHwDesCloPtr + h + 0 = BeginHwDesCloPtr + h
    BY <1>6
  <2> QED BY <2>1, <2>2
<1> HIDE DEF b
<1>14. BeginHwDesCloPtr' = b
  BY <1>1, <1>8 DEF b
<1>15. Sub(cur_tx', BeginHwDesCloPtr') = d - h
  BY <1>1, <1>10, <1>14
<1>16. Positions(s - h, 0)'
  BY <1>1, <1>4, <1>11, <1>12, <1>13, <1>14, <1>15, Zenon DEF Positions
<1>17. ~txon' => (BeginHwDesCloPtr' = 0 /\ hw_clo_ptr' = 0)
  <2>1. ASSUME ~txon' PROVE BeginHwDesCloPtr' = 0 /\ hw_clo_ptr' = 0
    <3>1. BeginHwDesCloPtr = 0 /\ hw_clo_ptr = 0
      BY <1>1, <2>1, Zenon DEF OrderFacts
    <3>2. tx_desc_closed = 0
      <4>1. 0 = PtrSpan * 0 + 0 /\ 0 \in Nat /\ 0 \in 0 .. (PtrSpan - 1)
        BY <1>6
      <4>2. 0 % PtrSpan = 0
        BY <4>1, Remainder
      <4> QED BY <3>1, <4>2 DEF tx_desc_closed, fast_mod_mask, Sub
    <3>3. Add(0, 0) = 0
      BY RingAssumption DEF Add
    <3> QED BY <1>1, <1>7, <1>8, <3>1, <3>2, <3>3
  <2> QED BY <2>1
<1> QED BY <1>3, <1>11, <1>16, <1>17, Zenon DEF OrderFacts

(* The handler: its delayed store catches up with it. *)
LEMMA OrderIrq ==
    ASSUME RingData, RingFacts, OrderFacts, Interrupt \/ IrqEnter \/ MsixEnter \/ MsixLink
    PROVE  OrderFacts'
<1>1. CASE IrqReclaim
  BY <1>1, OrderReclaim, Zenon
<1>2. CASE ~IrqReclaim
  <2>1. UNCHANGED <<cur_tx, BeginHwDesCloPtr, reclaimed, sw_tail_ptr, hw_clo_ptr, txon>>
    BY <1>2, Zenon DEF Interrupt, IrqStore, IrqStopped, IrqRoom, IrqCarrier, IrqStart,
         IrqLeave, IrqToHw, IrqEnter, MsixEnter, MsixLink, Irq, chip, ring
  <2>2. \/ irq \in Storing /\ irq' \in Storing
        \/ irq \in Storing /\ dirty_tx = reclaimed /\ dirty_tx' = dirty_tx
        \/ irq \notin Storing /\ irq' \notin Storing /\ dirty_tx' = dirty_tx
    <3>1. CASE IrqStore \/ IrqStopped \/ IrqRoom \/ IrqCarrier \/ IrqStart \/ IrqLeave
      BY <3>1, Zenon DEF IrqStore, IrqStopped, IrqRoom, IrqCarrier, IrqStart, IrqLeave, Irq,
         Storing
    <3>2. CASE IrqToHw \/ IrqEnter \/ MsixEnter
      BY <3>2, Zenon DEF IrqToHw, IrqEnter, MsixEnter, Irq, Storing
    <3>3. CASE MsixLink
      BY <3>3, Zenon DEF MsixLink, ring
    <3> QED BY <1>2, <3>1, <3>2, <3>3, Zenon DEF Interrupt
  <2>3. Lag'
    BY <2>1, <2>2, Zenon DEF OrderFacts, Lag
  <2> QED BY <2>1, <2>3, OrderSame, Zenon
<1> QED BY <1>1, <1>2

(* The chip closes the next descriptor it was given. *)
LEMMA OrderSend ==
    ASSUME RingData, OrderFacts, ChipSend
    PROVE  OrderFacts'
<1>1. /\ UNCHANGED <<cur_tx, dirty_tx, BeginHwDesCloPtr, reclaimed, irq, sw_tail_ptr>>
      /\ hw_clo_ptr # sw_tail_ptr /\ txon /\ txon'
      /\ hw_clo_ptr' = (hw_clo_ptr + 1) % PtrSpan
  BY Zenon DEF ChipSend, ring
<1>2. PICK s \in 0 .. num_tx_desc, h \in 0 .. num_tx_desc : Positions(s, h)
  BY Zenon DEF OrderFacts
<1>3. h # s
  BY <1>1, <1>2, Zenon DEF Positions
<1>4. /\ num_tx_desc \in Nat /\ BeginHwDesCloPtr \in Nat
      /\ h + 1 \in 0 .. num_tx_desc /\ h + 1 <= s
  BY <1>2, <1>3, RingAssumption DEF Positions, RingData, Index
<1>5. hw_clo_ptr' = (BeginHwDesCloPtr + (h + 1)) % PtrSpan
  <2> DEFINE x == BeginHwDesCloPtr + h
  <2>1. x \in Nat /\ x + 1 = BeginHwDesCloPtr + (h + 1)
    BY <1>4
  <2>2. hw_clo_ptr = x % PtrSpan
    BY <1>2, Zenon DEF Positions
  <2> HIDE DEF x
  <2>3. ((x % PtrSpan) + 1) % PtrSpan = (x + 1) % PtrSpan
    BY <2>1, OneFurther
  <2> QED BY <1>1, <2>1, <2>2, <2>3, Zenon
<1>6. Positions(s, h + 1)'
  BY <1>1, <1>2, <1>4, <1>5, Zenon DEF Positions, Sub
<1>7. Lag'
  BY <1>1, Zenon DEF OrderFacts, Lag
<1> QED BY <1>1, <1>4, <1>6, <1>7, Zenon DEF OrderFacts

(* A work item outside a clear moves no pointer; the reset at link-up       *)
(* finds a chip that has closed nothing since the ring was cleared.         *)
LEMMA OrderWork ==
    ASSUME RingData, Powered, OrderFacts, Work, task \notin Clearing, task' \notin Clearing
    PROVE  OrderFacts'
<1>1. UNCHANGED <<cur_tx, dirty_tx, BeginHwDesCloPtr, reclaimed, irq>>
  BY Zenon DEF Clearing, Work, ResetBegin, TxDisable, Quiesce, QuiesceIrq, HwReset, ClearDirty,
       ClearCur, IndexCur, IndexDirty, EnableLink, SetSpeed, LinkTask, LinkRead, LinkWrite,
       DownBegin, OnReset, OnStart, OnCarrier, OnWake, Task, ring
<1>2. Lag'
  BY <1>1, Zenon DEF OrderFacts, Lag
<1>3. CASE OnReset
  <2>1. task = "on/reset" /\ txon' = FALSE /\ sw_tail_ptr' = 0 /\ hw_clo_ptr' = 0
    BY <1>3, Zenon DEF OnReset, hw_reset, Task
  <2>2. ~txon
    BY <2>1, Zenon DEF Powered, Raised
  <2>3. BeginHwDesCloPtr' = 0
    BY <1>1, <2>2, Zenon DEF OrderFacts
  <2>4. cur_tx' \in Index
    BY <1>1 DEF RingData
  <2>5. Positions(0, 0)'
    BY <2>1, <2>3, <2>4, Origin, Zenon DEF Positions
  <2> QED BY <1>2, <2>1, <2>3, <2>4, <2>5, Origin, Zenon DEF OrderFacts
<1>4. CASE ~OnReset
  <2>1. CASE OnStart
    <3>1. UNCHANGED <<sw_tail_ptr, hw_clo_ptr>> /\ txon'
      BY <2>1, Zenon DEF OnStart
    <3> QED BY <1>1, <1>2, <3>1, OrderSame, Zenon
  <2>2. CASE ~OnStart
    <3>1. UNCHANGED <<sw_tail_ptr, hw_clo_ptr, txon>>
      BY <1>4, <2>2, Zenon DEF Clearing, Work, ResetBegin, TxDisable, Quiesce, QuiesceIrq,
         HwReset, ClearDirty, ClearCur, IndexCur, IndexDirty, EnableLink, SetSpeed, LinkTask,
         LinkRead, LinkWrite, DownBegin, OnCarrier, OnWake, Task, chip
    <3> QED BY <1>1, <1>2, <3>1, OrderSame, Zenon
  <2> QED BY <2>1, <2>2
<1> QED BY <1>3, <1>4

(* The soft reset and the clear that follows it end with an empty ring. *)
LEMMA OrderClear ==
    ASSUME RingInv, OrderInv, Next, ~overlap, ~overlap',
           task \in Clearing \/ task' \in Clearing
    PROVE  (Whole => OrderFacts)' /\ (task' \in Clearing => ResetFacts')
<1>1. CASE task \notin Clearing
  <2>1. HwReset
    <3>1. task' # task
      BY <1>1
    <3>2. Work
      BY <3>1, TaskMoves, Zenon
    <3>3. ~LinkTask
      BY <1>1, TaskLinks, Zenon
    <3> QED BY <1>1, <3>2, <3>3, Zenon DEF Clearing, Work, ResetBegin, TxDisable, Quiesce,
       QuiesceIrq, ClearDirty, ClearCur, IndexCur, IndexDirty, EnableLink, SetSpeed, LinkRead,
       LinkWrite, DownBegin, OnReset, OnStart, OnCarrier, OnWake, Task
  <2>2. task' \in Clearing /\ ResetFacts'
    BY <1>1, <2>1, Zenon DEF HwReset, hw_reset, ResetFacts
  <2> QED BY <2>2, Zenon DEF Whole
<1>2. CASE task \in Clearing
  <2>1. ClearFacts /\ ResetFacts
    BY <1>2, Zenon DEF RingInv, OrderInv
  <2>2. CASE IndexDirty
    <3>1. task \in Emptied /\ task' \notin Clearing
      BY <2>2, Zenon DEF IndexDirty, Task, Emptied, Clearing
    <3>2. /\ cur_tx' = 0 /\ dirty_tx' = 0 /\ BeginHwDesCloPtr' = 0 /\ irq' = "idle"
          /\ sw_tail_ptr' = 0 /\ hw_clo_ptr' = 0
      BY <2>1, <2>2, <3>1, Zenon DEF IndexDirty, Task, ClearFacts, ResetFacts, chip
    <3>3. 0 \in Index
      BY RingAssumption DEF Index
    <3>4. Positions(0, 0)'
      BY <3>2, <3>3, Origin, Zenon DEF Positions
    <3>5. Lag'
      BY <3>2, Zenon DEF Lag, Storing
    <3> QED BY <3>1, <3>2, <3>3, <3>4, <3>5, Origin, Zenon DEF OrderFacts
  <2>3. CASE Work /\ ~IndexDirty
    <3>1. ClearDirty \/ ClearCur \/ IndexCur
      BY <1>2, <2>3, Zenon DEF Clearing, Work, ResetBegin, TxDisable, Quiesce, QuiesceIrq,
         HwReset, EnableLink, SetSpeed, LinkTask, LinkRead, LinkWrite, DownBegin, OnReset,
         OnStart, OnCarrier, OnWake, Task
    <3>2. task' \in Clearing /\ UNCHANGED chip
      BY <3>1, Zenon DEF ClearDirty, ClearCur, IndexCur, Task, Clearing
    <3> QED BY <2>1, <3>2, Zenon DEF Whole, ResetFacts, chip
  <2>4. CASE ~Work
    <3>1. task' = task
      BY <2>4, TaskMoves, Zenon
    <3>2. UNCHANGED <<sw_tail_ptr, hw_clo_ptr, txon>>
      <4>1. CASE StartXmit
        BY <2>1, <4>1, Zenon DEF ClearFacts, StartXmit, XmitRoom, XmitFull, XmitBusy,
             XmitWrite, XmitDrop, XmitLoad, XmitStore, XmitCheck, XmitStop, XmitBell,
             XmitStopBell, XmitRecheck, Xmit
      <4>2. CASE Interrupt \/ IrqEnter \/ MsixEnter \/ MsixLink
        BY <4>2, Zenon DEF Interrupt, IrqReclaim, IrqStore, IrqStopped, IrqRoom, IrqCarrier,
           IrqStart, IrqLeave, IrqToHw, IrqEnter, MsixEnter, MsixLink, Irq, chip
      <4>3. CASE ChipTimer \/ LinkDown \/ LinkUp \/ Watchdog
        BY <4>3, Zenon DEF ChipTimer, LinkDown, LinkUp, Watchdog, chip
      <4>4. ~ChipSend
        BY <2>1, Zenon DEF ChipSend, ResetFacts
      <4> QED BY <2>4, <4>1, <4>2, <4>3, <4>4, Zenon DEF Next
    <3> QED BY <1>2, <2>1, <3>1, <3>2, Zenon DEF Whole, ResetFacts
  <2> QED BY <2>2, <2>3, <2>4, Zenon
<1> QED BY <1>1, <1>2

LEMMA OrderStep ==
    ASSUME TypeOK, RingInv, OrderInv, Next
    PROVE  OrderInv'
<1>1. Powered' /\ (overlap => overlap')
  BY PoweredStep, OverlapStays, Zenon DEF OrderInv
<1>2. CASE overlap'
  BY <1>1, <1>2, Zenon DEF OrderInv, Whole
<1>3. CASE ~overlap' /\ (task \in Clearing \/ task' \in Clearing)
  BY <1>1, <1>3, OrderClear, Zenon DEF OrderInv
<1>4. CASE ~overlap' /\ task \notin Clearing /\ task' \notin Clearing
  <2>1. RingData /\ RingFacts /\ OrderFacts /\ Powered
    BY <1>1, <1>4, Typed, Zenon DEF RingInv, OrderInv, Whole
  <2>2. CASE StartXmit \/ Interrupt \/ IrqEnter \/ MsixEnter \/ MsixLink \/ ChipSend \/ Work
    <3>1. OrderFacts'
      BY <1>4, <2>1, <2>2, OrderXmit, OrderIrq, OrderSend, OrderWork, Zenon
    <3> QED BY <1>1, <1>4, <3>1, Zenon DEF OrderInv
  <2>3. CASE ChipTimer \/ LinkDown \/ LinkUp \/ Watchdog
    <3>1. UNCHANGED <<cur_tx, dirty_tx, reclaimed, BeginHwDesCloPtr, irq, sw_tail_ptr,
                      hw_clo_ptr, txon>>
      BY <2>3, Zenon DEF ChipTimer, LinkDown, LinkUp, Watchdog, ring, chip
    <3>2. OrderFacts'
      BY <2>1, <3>1, OrderSame, Zenon DEF OrderFacts, Lag
    <3> QED BY <1>1, <1>4, <3>2, Zenon DEF OrderInv
  <2> QED BY <2>2, <2>3, Zenon DEF Next
<1> QED BY <1>2, <1>3, <1>4, Zenon

(* The order of positions is the order the driver computes. *)
LEMMA OrderSeen ==
    ASSUME TypeOK, OrderInv
    PROVE  ChipOrder
<1> SUFFICES ASSUME Whole
             PROVE  /\ Sub(hw_clo_ptr, BeginHwDesCloPtr) % PtrSpan
                         <= Sub(sw_tail_ptr, BeginHwDesCloPtr) % PtrSpan
                    /\ Sub(sw_tail_ptr, BeginHwDesCloPtr) % PtrSpan
                         <= Sub(cur_tx, BeginHwDesCloPtr)
  BY Zenon DEF ChipOrder
<1>1. PICK s \in 0 .. num_tx_desc, h \in 0 .. num_tx_desc : Positions(s, h)
  BY Zenon DEF OrderInv, OrderFacts
<1>2. s \in 0 .. (PtrSpan - 1) /\ h \in 0 .. (PtrSpan - 1) /\ BeginHwDesCloPtr \in Index
  BY Typed, RingAssumption DEF RingData
<1>3. /\ Sub((BeginHwDesCloPtr + s) % PtrSpan, BeginHwDesCloPtr) % PtrSpan = s
      /\ Sub((BeginHwDesCloPtr + h) % PtrSpan, BeginHwDesCloPtr) % PtrSpan = h
  BY <1>2, Ahead
<1> QED BY <1>1, <1>3, Zenon DEF Positions

(* On every chip without the LSO patch, also after resets and losses of    *)
(* the link, the handler frees only descriptors the chip has closed, and   *)
(* the chip closes only descriptors the driver has queued, however the     *)
(* indexes and the narrower registers wrap, as long as no transmit has run *)
(* while a work item was clearing the ring.                                *)
THEOREM ChipStaysInOrder ==
    ASSUME RequireLSOPatch = FALSE
    PROVE  Spec => []ChipOrder
<1>1. TypeOK /\ RingInv /\ OrderInv /\ [Next]_vars => OrderInv'
  <2>1. ASSUME TypeOK, RingInv, OrderInv, Next PROVE OrderInv'
    BY <2>1, OrderStep
  <2>2. ASSUME OrderInv, UNCHANGED vars PROVE OrderInv'
    BY <2>2, Zenon DEF vars, ring, chip, ints, netdev, work, outer, OrderInv, OrderFacts,
       ResetFacts, Powered, Whole, Lag, Positions, Sub
  <2> QED BY <2>1, <2>2, Zenon
<1> QED BY <1>1, OrderStart, OrderSeen, RingTypes, RingInductive, PTL DEF Spec

============================================================================
