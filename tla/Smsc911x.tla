------------------------------ MODULE Smsc911x ------------------------------
(***************************************************************************)
(* The SMSC LAN911x/LAN9221 network driver of the attestation device       *)
(* (code/nic-driver/smsc/smsc911x.c): interrupt handler, NAPI poll with    *)
(* the attestation branch, transmit path, receive-filter update and the    *)
(* open/stop entry points, together with the registers of the chip they    *)
(* share.                                                                  *)
(*                                                                         *)
(* The kernel is built for one CPU (linux/.config: no SMP, PREEMPT), so    *)
(* three contexts share it and a lower one runs only between complete runs *)
(* of a higher one:                                                        *)
(*   irq    smsc911x_irqhandler, which nothing but the chip can overtake;  *)
(*   bh     code that runs with bottom halves disabled: the NAPI poll,     *)
(*          hard_start_xmit, set_multicast_list;                           *)
(*   proc   dev_open / dev_close, serialised by the rtnl lock.             *)
(* The chip itself runs concurrently with all of them.                     *)
(***************************************************************************)
EXTENDS Integers, FiniteSets

CONSTANTS
    Generation,   \* pdata->generation: 0..4, decides how the filter is changed
    Shared,       \* TRUE when another device pulls the interrupt line (IRQF_SHARED)
    Vet,          \* TRUE when attestation challenges arrive (ICMP type VET_ICMP_TYPE)
    MemFails,     \* TRUE when netdev_alloc_skb may fail
    Budget,       \* SMSC_NAPI_WEIGHT
    RxCap,        \* packets the RX FIFO holds
    TxSize,       \* bytes of the TX data FIFO
    TxLow,        \* TX_FIFO_LOW_THRESHOLD
    TxWake,       \* TDFA level armed by hard_start_xmit (0x32 * 64 bytes)
    TxPad,        \* the 32 bytes added to every packet's length
    PktLens,      \* packet lengths the stack sends
    ReplyLen,     \* length of the reply to a challenge
    Word,         \* unsigned int wraps at this value
    HashBits,     \* bit numbers of HASHH/HASHL that multicast addresses hash to
    Requests      \* the address modes dev_set_rx_mode asks for

ASSUME FlagsAssumption ==
    /\ Generation \in Nat
    /\ Shared \in BOOLEAN /\ Vet \in BOOLEAN /\ MemFails \in BOOLEAN

ASSUME RxAssumption == Budget \in Nat \ {0} /\ RxCap \in Nat \ {0}

\* A full-size frame and its padding fit below the threshold (1514 + 32 <= 1600),
\* and the wake level is above it.
ASSUME TxAssumption ==
    /\ TxSize \in Nat /\ TxLow \in Nat /\ TxWake \in Nat /\ TxPad \in Nat
    /\ TxLow <= TxWake /\ TxWake < TxSize
    /\ Word \in Nat /\ TxSize < Word
    /\ PktLens \subseteq Nat /\ ReplyLen \in Nat
    /\ \A l \in PktLens : l + TxPad <= TxLow

ASSUME FilterAssumption ==
    Requests \subseteq [promisc : BOOLEAN, allmulti : BOOLEAN, mc : SUBSET HashBits]

VARIABLES
    \* The chip: INT_CFG.IRQ_EN, INT_EN, INT_STS, the RX and TX FIFOs,
    \* FIFO_INT's TX_AVAIL_LEVEL, MAC_CR.RXEN, and whether the receiver runs.
    irqEn, intEn, intSts, rx, txFree, txLevel, rxen, rxActive, maskReg, hashReg,
    \* napi->state (NAPI_STATE_SCHED, NAPI_STATE_DISABLE) and poll_list membership.
    sched, disable, inList,
    \* __QUEUE_STATE_DRV_XOFF and the fields of struct smsc911x_data.
    stopped, signal, pending, mask, hash,
    \* The contexts: where each one is, and its locals.
    irq, irqSts,
    bh, bhRet, bhEn, work, space, len, req,
    proc, procEn

chip == <<irqEn, intEn, intSts, rx, txFree, txLevel, rxen, rxActive, maskReg, hashReg>>
napi == <<sched, disable, inList>>
drv  == <<stopped, signal, pending, mask, hash>>
irqCtx  == <<irq, irqSts>>
bhCtx   == <<bh, bhRet, bhEn, work, space, len, req>>
procCtx == <<proc, procEn>>
vars == <<irqEn, intEn, intSts, rx, txFree, txLevel, rxen, rxActive, maskReg, hashReg,
          sched, disable, inList, stopped, signal, pending, mask, hash,
          irq, irqSts, bh, bhRet, bhEn, work, space, len, req, proc, procEn>>

-----------------------------------------------------------------------------
(* Interrupt sources the driver enables. RXE is acknowledged by the handler *)
(* but never enabled, so its branch is never entered.                       *)
Sources == {"SW", "RXSTOP", "TDFA", "RSFL"}

\* The filter bits of MAC_CR: each branch of set_multicast_list sets one of them
\* and clears the other two, or clears all three.
Masks == {"LOCAL", "PRMS", "MCPAS", "HPFILT"}

\* What set_multicast_list asks of the filter for the device's flags and its
\* multicast list.
FilterFor(r) ==
    [mask |-> IF r.promisc THEN "PRMS"
              ELSE IF r.allmulti THEN "MCPAS"
              ELSE IF r.mc # {} THEN "HPFILT" ELSE "LOCAL",
     hash |-> IF r.promisc \/ r.allmulti THEN {} ELSE r.mc]

NoReq == [mask |-> "LOCAL", hash |-> {}]

\* A TX_AVAIL_LEVEL of 0xFF is above any amount of free space.
TxOff == TxSize

\* Conditions the chip keeps latching into INT_STS for as long as they hold.
Level(r, free, lvl) ==
    {s \in {"RSFL", "TDFA"} : (s = "RSFL" /\ r > 0) \/ (s = "TDFA" /\ free > lvl)}

\* An unsigned subtraction.
Sub(a, b) == IF a >= b THEN a - b ELSE Word + a - b

OpenPcs == {"reset", "sw_read", "sw_write", "sw_wait", "config", "napi",
            "en_read", "en_write", "mac", "start", "opened"}
StopPcs == {"stop_queue", "stop_napi", "stop_wait"}
PollPcs == {"poll", "stack", "ack", "complete", "en_read", "en_write", "ret"}
XmitPcs == {"space", "write", "stopq", "arm"}
McPcs   == {"mc_mask", "mc_hash", "mc_lock"}
IrqPcs  == {"sw", "rxstop", "tdfa", "rsfl"}

TypeOK ==
    /\ irqEn \in BOOLEAN /\ intEn \in SUBSET Sources /\ intSts \in SUBSET Sources
    /\ rx \in 0..RxCap /\ txFree \in 0..TxSize /\ txLevel \in {TxWake, TxOff}
    /\ rxen \in BOOLEAN /\ rxActive \in BOOLEAN
    /\ maskReg \in Masks /\ hashReg \in SUBSET HashBits
    /\ sched \in BOOLEAN /\ disable \in BOOLEAN /\ inList \in BOOLEAN
    /\ stopped \in BOOLEAN /\ signal \in BOOLEAN /\ pending \in BOOLEAN
    /\ mask \in Masks /\ hash \in SUBSET HashBits
    /\ irq \in {"out"} \cup IrqPcs /\ irqSts \in SUBSET Sources
    /\ bh \in {"idle"} \cup PollPcs \cup XmitPcs \cup McPcs
    /\ bhRet \in {"idle", "poll"} /\ bhEn \in SUBSET Sources
    /\ work \in 0..Budget /\ space \in 0..TxSize /\ len \in Nat
    /\ req \in [mask : Masks, hash : SUBSET HashBits]
    /\ proc \in {"down", "up"} \cup OpenPcs \cup StopPcs /\ procEn \in SUBSET Sources

(* After probe: interrupts disabled and acknowledged, the handler installed, *)
(* NAPI added (which sets NAPI_STATE_SCHED), the private data zeroed. The    *)
(* loopback test that ends probe may have left status bits behind.           *)
Init ==
    /\ irqEn = FALSE /\ intEn = {} /\ intSts \in SUBSET {"RXSTOP", "RSFL"}
    /\ rx = 0 /\ txFree = TxSize /\ txLevel = TxOff
    /\ rxen = FALSE /\ rxActive = FALSE /\ maskReg = "LOCAL" /\ hashReg = {}
    /\ sched = TRUE /\ disable = FALSE /\ inList = FALSE
    /\ stopped = FALSE /\ signal = FALSE /\ pending = FALSE
    /\ mask = "LOCAL" /\ hash = {}
    /\ irq = "out" /\ irqSts = {}
    /\ bh = "idle" /\ bhRet = "idle" /\ bhEn = {} /\ work = 0 /\ space = 0 /\ len = 0
    /\ req = NoReq
    /\ proc = "down" /\ procEn = {}

-----------------------------------------------------------------------------
(* The chip.                                                                *)

\* A frame is stored in the RX FIFO (one that finds it full is dropped).
PktArrives ==
    /\ rxActive /\ rx < RxCap
    /\ rx' = rx + 1
    /\ intSts' = intSts \cup {"RSFL"}
    /\ UNCHANGED <<irqEn, intEn, txFree, txLevel, rxen, rxActive, maskReg, hashReg,
                   napi, drv, irqCtx, bhCtx, procCtx>>

\* The transmitter empties part of the TX FIFO.
TxDrains ==
    /\ \E free \in 0..TxSize : txFree < free /\ txFree' = free
    /\ intSts' = intSts \cup Level(rx, txFree', txLevel)
    /\ UNCHANGED <<irqEn, intEn, rx, txLevel, rxen, rxActive, maskReg, hashReg,
                   napi, drv, irqCtx, bhCtx, procCtx>>

\* With RXEN cleared the receiver stops after the frame in progress.
RxStops ==
    /\ ~rxen /\ rxActive
    /\ rxActive' = FALSE
    /\ intSts' = intSts \cup {"RXSTOP"}
    /\ UNCHANGED <<irqEn, intEn, rx, txFree, txLevel, rxen, maskReg, hashReg,
                   napi, drv, irqCtx, bhCtx, procCtx>>

Chip == PktArrives \/ TxDrains \/ RxStops

-----------------------------------------------------------------------------
(* smsc911x_irqhandler.                                                     *)

\* The handler runs for the chip's own line, or for another device's.
IrqEnter ==
    /\ irq = "out"
    /\ Shared \/ (irqEn /\ intSts \cap intEn # {})
    /\ irqSts' = intSts \cap intEn
    /\ irq' = "sw"
    /\ UNCHANGED <<chip, napi, drv, bhCtx, procCtx>>

\* Mutant of MaskSw: SW_INT_EN is left set.
MaskSwKeeps == intEn

\* INT_EN without SW_INT_EN.
MaskSw == intEn \ {"SW"}

\* The interrupt test of open: mask and acknowledge SW_INT, then signal.
IrqSw ==
    /\ irq = "sw" /\ irq' = "rxstop"
    /\ IF "SW" \in irqSts
       THEN /\ intEn' = MaskSw
            /\ intSts' = intSts \ {"SW"}
            /\ signal' = TRUE
       ELSE UNCHANGED <<intEn, intSts, signal>>
    /\ UNCHANGED <<irqEn, rx, txFree, txLevel, rxen, rxActive, maskReg, hashReg, napi,
                   stopped, pending, mask, hash, irqSts, bhCtx, procCtx>>

\* Mutant of MulticastUpdate: HASHH and HASHL are not written.
MulticastUpdateNoHash == maskReg' = mask /\ UNCHANGED hashReg

\* smsc911x_rx_multicast_update: the registers take the driver's values.
MulticastUpdate == maskReg' = mask /\ hashReg' = hash

\* smsc911x_rx_multicast_update_workaround: update, turn reception on again.
MulticastUpdateWorkaround ==
    /\ MulticastUpdate
    /\ rxen' = TRUE /\ rxActive' = TRUE
    /\ pending' = FALSE

\* RXSTOP: acknowledge, and complete a pending filter update.
IrqRxStop ==
    /\ irq = "rxstop" /\ irq' = "tdfa"
    /\ intSts' = intSts \ (irqSts \cap {"RXSTOP"})
    /\ IF "RXSTOP" \in irqSts /\ pending
       THEN MulticastUpdateWorkaround
       ELSE UNCHANGED <<maskReg, hashReg, rxen, rxActive, pending>>
    /\ UNCHANGED <<irqEn, intEn, rx, txFree, txLevel, napi,
                   stopped, signal, mask, hash, irqSts, bhCtx, procCtx>>

\* TDFA: disarm the level, acknowledge, wake the queue.
IrqTdfa ==
    /\ irq = "tdfa" /\ irq' = "rsfl"
    /\ IF "TDFA" \in irqSts
       THEN /\ txLevel' = TxOff
            /\ intSts' = intSts \ {"TDFA"}
            /\ stopped' = FALSE
       ELSE UNCHANGED <<txLevel, intSts, stopped>>
    /\ UNCHANGED <<irqEn, intEn, rx, txFree, rxen, rxActive, maskReg, hashReg, napi,
                   signal, pending, mask, hash, irqSts, bhCtx, procCtx>>

\* napi_schedule_prep: not being disabled, and NAPI_STATE_SCHED was clear.
NapiSchedulePrep == ~disable /\ ~sched

\* Mutant of MaskRsfl: RSFL stays enabled while the poll is scheduled.
MaskRsflKeeps == intEn

\* INT_EN without RSFL_EN.
MaskRsfl == intEn \ {"RSFL"}

\* RSFL: mask it and schedule the poll, unless napi_schedule_prep fails.
IrqRsfl ==
    /\ irq = "rsfl" /\ irq' = "out" /\ irqSts' = {}
    /\ IF "RSFL" \in irqSts /\ NapiSchedulePrep
       THEN /\ intEn' = MaskRsfl
            /\ sched' = TRUE /\ inList' = TRUE
       ELSE UNCHANGED <<intEn, sched, inList>>
    /\ UNCHANGED <<irqEn, intSts, rx, txFree, txLevel, rxen, rxActive, maskReg, hashReg,
                   disable, drv, bhCtx, procCtx>>

IrqHandler == IrqEnter \/ IrqSw \/ IrqRxStop \/ IrqTdfa \/ IrqRsfl

-----------------------------------------------------------------------------
(* Bottom halves: they run while no interrupt handler does.                 *)

BhAt(pc) == irq = "out" /\ bh = pc

\* Mutant of BudgetLeft: one packet too many.
BudgetLeftOneMore == work <= Budget

\* The condition of poll's loop.
BudgetLeft == work < Budget

\* net_rx_action calls smsc911x_poll for an entry of its poll list.
PollStart ==
    /\ BhAt("idle") /\ inList
    /\ bh' = "poll" /\ work' = 0
    /\ UNCHANGED <<chip, napi, drv, irqCtx, bhRet, bhEn, space, len, req, procCtx>>

\* A status word is read and the packet consumed: an error packet is
\* fast-forwarded (the loop goes on at once), any other is handed to the stack.
PollPacket ==
    /\ BhAt("poll") /\ BudgetLeft /\ rx > 0
    /\ rx' = rx - 1 /\ work' = work + 1
    /\ bh' \in {"poll", "stack"}
    /\ UNCHANGED <<irqEn, intEn, intSts, txFree, txLevel, rxen, rxActive, maskReg, hashReg,
                   napi, drv, irqCtx, bhRet, bhEn, space, len, req, procCtx>>

\* netif_receive_skb returns; before that the stack may have called the driver
\* (XmitFromPoll, McFromPoll).
PollStackReturns ==
    /\ BhAt("stack") /\ bh' = "poll"
    /\ UNCHANGED <<chip, napi, drv, irqCtx, bhRet, bhEn, work, space, len, req, procCtx>>

\* No memory for the packet: it is fast-forwarded and the poll ends, without
\* napi_complete and with RSFL still masked.
PollNoMem ==
    /\ MemFails
    /\ BhAt("poll") /\ BudgetLeft /\ rx > 0
    /\ rx' = rx - 1 /\ work' = work + 1
    /\ bh' = "ret"
    /\ UNCHANGED <<irqEn, intEn, intSts, txFree, txLevel, rxen, rxActive, maskReg, hashReg,
                   napi, drv, irqCtx, bhRet, bhEn, space, len, req, procCtx>>

\* A challenge: its checksum is computed (with interrupts off) and the reply
\* goes straight to smsc911x_hard_start_xmit.
PollChallenge ==
    /\ Vet
    /\ BhAt("poll") /\ BudgetLeft /\ rx > 0
    /\ rx' = rx - 1 /\ work' = work + 1
    /\ bh' = "space" /\ bhRet' = "poll" /\ len' = ReplyLen
    /\ UNCHANGED <<irqEn, intEn, intSts, txFree, txLevel, rxen, rxActive, maskReg, hashReg,
                   napi, drv, irqCtx, bhEn, space, req, procCtx>>

\* The budget is used up.
PollBudget ==
    /\ BhAt("poll") /\ ~BudgetLeft
    /\ bh' = "ret"
    /\ UNCHANGED <<chip, napi, drv, irqCtx, bhRet, bhEn, work, space, len, req, procCtx>>

\* The status FIFO reads empty.
PollEmpty ==
    /\ BhAt("poll") /\ BudgetLeft /\ rx = 0
    /\ bh' = "ack"
    /\ UNCHANGED <<chip, napi, drv, irqCtx, bhRet, bhEn, work, space, len, req, procCtx>>

\* Mutant of AckRsfl: the status is not acknowledged.
AckRsflMissing == intSts

\* INT_STS after RSFL is written to it: the chip latches RSFL again if a packet
\* has arrived since.
AckRsfl == (intSts \ {"RSFL"}) \cup Level(rx, txFree, txLevel)

PollAck ==
    /\ BhAt("ack") /\ bh' = "complete"
    /\ intSts' = AckRsfl
    /\ UNCHANGED <<irqEn, intEn, rx, txFree, txLevel, rxen, rxActive, maskReg, hashReg,
                   napi, drv, irqCtx, bhRet, bhEn, work, space, len, req, procCtx>>

\* Mutant of NapiComplete: the poll is never completed.
NapiCompleteMissing == UNCHANGED <<sched, inList>>

\* napi_complete gives up NAPI_STATE_SCHED and the place in the poll list.
NapiComplete == sched' = FALSE /\ inList' = FALSE

PollComplete ==
    /\ BhAt("complete") /\ bh' = "en_read"
    /\ NapiComplete
    /\ UNCHANGED <<chip, disable, drv, irqCtx, bhRet, bhEn, work, space, len, req, procCtx>>

PollEnRead ==
    /\ BhAt("en_read") /\ bh' = "en_write"
    /\ bhEn' = intEn
    /\ UNCHANGED <<chip, napi, drv, irqCtx, bhRet, work, space, len, req, procCtx>>

\* Mutant of UnmaskRsfl: INT_EN is written back as it was read.
UnmaskRsflMissing == bhEn

\* The copy of INT_EN with RSFL_EN.
UnmaskRsfl == bhEn \cup {"RSFL"}

PollEnWrite ==
    /\ BhAt("en_write") /\ bh' = "ret"
    /\ intEn' = UnmaskRsfl /\ bhEn' = {}
    /\ UNCHANGED <<irqEn, intSts, rx, txFree, txLevel, rxen, rxActive, maskReg, hashReg,
                   napi, drv, irqCtx, bhRet, work, space, len, req, procCtx>>

\* Back in net_rx_action: a poll that used its whole budget is completed there
\* if napi_disable waits for it; otherwise it keeps its place in the list.
PollReturn ==
    /\ BhAt("ret") /\ bh' = "idle" /\ work' = 0
    /\ IF work = Budget /\ disable
       THEN NapiComplete
       ELSE UNCHANGED <<sched, inList>>
    /\ UNCHANGED <<chip, disable, drv, irqCtx, bhRet, bhEn, space, len, req, procCtx>>

Poll == PollStart \/ PollPacket \/ PollStackReturns \/ PollNoMem \/ PollChallenge
        \/ PollBudget \/ PollEmpty \/ PollAck \/ PollComplete \/ PollEnRead \/ PollEnWrite \/ PollReturn

-----------------------------------------------------------------------------
(* smsc911x_hard_start_xmit.                                                *)

\* The stack calls it while the interface is up and the queue is not stopped,
\* for a process or from within the poll, to answer a packet it received.
XmitStart(from, ret) ==
    /\ BhAt(from) /\ proc = "up" /\ ~stopped
    /\ \E l \in PktLens : len' = l
    /\ bh' = "space" /\ bhRet' = ret
    /\ UNCHANGED <<chip, napi, drv, irqCtx, bhEn, work, space, req, procCtx>>

\* Read TDFREE.
XmitSpace ==
    /\ BhAt("space") /\ bh' = "write"
    /\ space' = txFree
    /\ UNCHANGED <<chip, napi, drv, irqCtx, bhRet, bhEn, work, len, req, procCtx>>

\* Mutant of QueueMustStop: the packet just written is not counted.
QueueMustStopLate == space < TxLow

\* The estimate of the free space after the packet, in unsigned arithmetic,
\* against the threshold.
QueueMustStop == Sub(space, len + TxPad) < TxLow

\* The two command words and the packet go to the TX data FIFO. What they take
\* depends on alignment and is at most len + TxPad.
XmitWrite ==
    /\ BhAt("write")
    /\ \E used \in len..(len + TxPad) : txFree' = IF txFree >= used THEN txFree - used ELSE 0
    /\ IF QueueMustStop
       THEN bh' = "stopq" /\ UNCHANGED <<bhRet>>
       ELSE bh' = bhRet /\ bhRet' = "idle"
    /\ space' = 0 /\ len' = 0
    /\ UNCHANGED <<irqEn, intEn, intSts, rx, txLevel, rxen, rxActive, maskReg, hashReg,
                   napi, drv, irqCtx, bhEn, work, req, procCtx>>

\* Mutants of TxArmLevel: no level is armed, or one below the threshold.
TxArmLevelOff == TxOff
TxArmLevelLow == TxPad

\* The TX_AVAIL_LEVEL that asks for a wake-up (0x32 units of 64 bytes).
TxArmLevel == TxWake

\* netif_stop_queue ...
XmitStopQueue ==
    /\ BhAt("stopq") /\ bh' = "arm"
    /\ stopped' = TRUE
    /\ UNCHANGED <<chip, napi, signal, pending, mask, hash, irqCtx,
                   bhRet, bhEn, work, space, len, req, procCtx>>

\* ... and only then the level is armed.
XmitArm ==
    /\ BhAt("arm") /\ bh' = bhRet /\ bhRet' = "idle"
    /\ txLevel' = TxArmLevel
    /\ intSts' = intSts \cup Level(rx, txFree, TxArmLevel)
    /\ UNCHANGED <<irqEn, intEn, rx, txFree, rxen, rxActive, maskReg, hashReg,
                   napi, drv, irqCtx, bhEn, work, space, len, req, procCtx>>

XmitFromProcess == XmitStart("idle", "idle")
XmitFromPoll    == XmitStart("stack", "poll")

Xmit == XmitFromProcess \/ XmitFromPoll \/ XmitSpace \/ XmitWrite \/ XmitStopQueue \/ XmitArm

-----------------------------------------------------------------------------
(* smsc911x_set_multicast_list.                                             *)

\* Called for an interface that is IFF_UP, either by a process or from within
\* the poll, by the protocol that received a packet.
McStart(from, ret) ==
    /\ BhAt(from)
    /\ \E r \in Requests : req' = FilterFor(r)
    /\ bh' = "mc_mask" /\ bhRet' = ret
    /\ UNCHANGED <<chip, napi, drv, irqCtx, bhEn, work, space, len, procCtx>>

McFromProcess == proc = "up" /\ McStart("idle", "idle")
McFromPoll    == proc \in {"up"} \cup StopPcs /\ McStart("stack", "poll")

\* set_bits_mask and clear_bits_mask, then hashhi and hashlo, before the lock.
McMask ==
    /\ BhAt("mc_mask") /\ bh' = "mc_hash"
    /\ mask' = req.mask
    /\ UNCHANGED <<chip, napi, stopped, signal, pending, hash, irqCtx,
                   bhRet, bhEn, work, space, len, req, procCtx>>

McHash ==
    /\ BhAt("mc_hash") /\ bh' = "mc_lock"
    /\ hash' = req.hash
    /\ UNCHANGED <<chip, napi, stopped, signal, pending, mask, irqCtx,
                   bhRet, bhEn, work, space, len, req, procCtx>>

\* Mutant of UpdatesAtOnce: generation 1 is taken for a newer one.
UpdatesAtOnceFrom1 == Generation >= 1

\* Newer chips can be written at any time.
UpdatesAtOnce == Generation > 1

\* Under mac_lock with interrupts off: newer chips are updated at once; older
\* ones are asked to stop receiving, unless an update is already pending.
McLocked ==
    /\ BhAt("mc_lock") /\ bh' = bhRet /\ bhRet' = "idle"
    /\ req' = NoReq
    /\ \/ /\ UpdatesAtOnce
          /\ MulticastUpdate
          /\ UNCHANGED <<pending, rxen>>
       \/ /\ ~UpdatesAtOnce /\ ~pending
          /\ pending' = TRUE /\ rxen' = FALSE
          /\ UNCHANGED <<maskReg, hashReg>>
       \/ /\ ~UpdatesAtOnce /\ pending
          /\ UNCHANGED <<pending, rxen, maskReg, hashReg>>
    /\ UNCHANGED <<irqEn, intEn, intSts, rx, txFree, txLevel, rxActive, napi,
                   stopped, signal, mask, hash, irqCtx, bhEn, work, space, len, procCtx>>

SetMulticastList == McFromProcess \/ McFromPoll \/ McMask \/ McHash \/ McLocked

BottomHalf == Poll \/ Xmit \/ SetMulticastList

-----------------------------------------------------------------------------
(* dev_open: smsc911x_open and what the network core does after it.         *)
(* The early returns of open (no PHY yet, invalid address) change nothing.  *)

ProcAt(pc) == irq = "out" /\ bh = "idle" /\ proc = pc

\* The chip after a soft reset.
ChipReset ==
    /\ irqEn' = FALSE /\ intEn' = {} /\ intSts' = {}
    /\ rx' = 0 /\ txFree' = TxSize /\ txLevel' = TxOff
    /\ rxen' = FALSE /\ rxActive' = FALSE /\ maskReg' = "LOCAL" /\ hashReg' = {}

\* smsc911x_soft_reset succeeds ...
OpenReset ==
    /\ ProcAt("down") /\ proc' = "reset"
    /\ ChipReset
    /\ UNCHANGED <<napi, drv, irqCtx, bhCtx, procEn>>

\* ... or fails with -EIO, after it took effect (the PHY's energy-detect mode
\* could not be restored) or before.
OpenResetFails ==
    /\ ProcAt("down")
    /\ ChipReset
    /\ UNCHANGED <<napi, drv, irqCtx, bhCtx, procCtx>>

\* INT_EN = 0, INT_STS = ~0, IRQ_EN set, software_irq_signal = 0.
OpenInitIrqs ==
    /\ ProcAt("reset") /\ proc' = "sw_read"
    /\ intEn' = {} /\ intSts' = Level(rx, txFree, txLevel) /\ irqEn' = TRUE
    /\ signal' = FALSE
    /\ UNCHANGED <<rx, txFree, txLevel, rxen, rxActive, maskReg, hashReg, napi,
                   stopped, pending, mask, hash, irqCtx, bhCtx, procEn>>

OpenSwRead ==
    /\ ProcAt("sw_read") /\ proc' = "sw_write"
    /\ procEn' = intEn
    /\ UNCHANGED <<chip, napi, drv, irqCtx, bhCtx>>

\* Enabling SW_INT raises it.
OpenSwWrite ==
    /\ ProcAt("sw_write") /\ proc' = "sw_wait"
    /\ intEn' = procEn \cup {"SW"} /\ procEn' = {}
    /\ intSts' = intSts \cup {"SW"}
    /\ UNCHANGED <<irqEn, rx, txFree, txLevel, rxen, rxActive, maskReg, hashReg,
                   napi, drv, irqCtx, bhCtx>>

OpenIrqSeen ==
    /\ ProcAt("sw_wait") /\ signal /\ proc' = "config"
    /\ UNCHANGED <<chip, napi, drv, irqCtx, bhCtx, procEn>>

\* A second without the interrupt: -ENODEV, with IRQ_EN and SW_INT left on.
OpenIrqTimeout ==
    /\ ProcAt("sw_wait") /\ ~signal /\ proc' = "down"
    /\ UNCHANGED <<chip, napi, drv, irqCtx, bhCtx, procEn>>

\* phy_start, HW_CFG, FIFO_INT (TX level off, RX level 0), RX_CFG.
OpenConfig ==
    /\ ProcAt("config") /\ proc' = "napi"
    /\ txLevel' = TxOff
    /\ UNCHANGED <<irqEn, intEn, intSts, rx, txFree, rxen, rxActive, maskReg, hashReg,
                   napi, drv, irqCtx, bhCtx, procEn>>

\* napi_enable releases NAPI_STATE_SCHED.
OpenNapiEnable ==
    /\ ProcAt("napi") /\ proc' = "en_read"
    /\ sched' = FALSE
    /\ UNCHANGED <<chip, disable, inList, drv, irqCtx, bhCtx, procEn>>

OpenEnRead ==
    /\ ProcAt("en_read") /\ proc' = "en_write"
    /\ procEn' = intEn
    /\ UNCHANGED <<chip, napi, drv, irqCtx, bhCtx>>

OpenEnWrite ==
    /\ ProcAt("en_write") /\ proc' = "mac"
    /\ intEn' = procEn \cup {"TDFA", "RSFL", "RXSTOP"} /\ procEn' = {}
    /\ UNCHANGED <<irqEn, intSts, rx, txFree, txLevel, rxen, rxActive, maskReg, hashReg,
                   napi, drv, irqCtx, bhCtx>>

\* MAC_CR gains TXEN and RXEN, under mac_lock.
OpenMac ==
    /\ ProcAt("mac") /\ proc' = "start"
    /\ rxen' = TRUE /\ rxActive' = TRUE
    /\ UNCHANGED <<irqEn, intEn, intSts, rx, txFree, txLevel, maskReg, hashReg,
                   napi, drv, irqCtx, bhCtx, procEn>>

\* TX_ON and netif_start_queue.
OpenStartQueue ==
    /\ ProcAt("start") /\ proc' = "opened"
    /\ stopped' = FALSE
    /\ UNCHANGED <<chip, napi, signal, pending, mask, hash, irqCtx, bhCtx, procEn>>

\* The core marks the interface up and calls dev_set_rx_mode.
DevOpen ==
    /\ ProcAt("opened") /\ proc' = "up"
    /\ \E r \in Requests : req' = FilterFor(r)
    /\ bh' = "mc_mask" /\ bhRet' = "idle"
    /\ UNCHANGED <<chip, napi, drv, irqCtx, bhEn, work, space, len, procEn>>

Open == OpenReset \/ OpenResetFails \/ OpenInitIrqs \/ OpenSwRead \/ OpenSwWrite
        \/ OpenIrqSeen \/ OpenIrqTimeout \/ OpenConfig \/ OpenNapiEnable
        \/ OpenEnRead \/ OpenEnWrite \/ OpenMac \/ OpenStartQueue \/ DevOpen

-----------------------------------------------------------------------------
(* smsc911x_stop.                                                           *)

\* IRQ_EN is cleared (nothing else writes INT_CFG in between).
StopIrqs ==
    /\ ProcAt("up") /\ proc' = "stop_queue"
    /\ irqEn' = FALSE
    /\ UNCHANGED <<intEn, intSts, rx, txFree, txLevel, rxen, rxActive, maskReg, hashReg,
                   napi, drv, irqCtx, bhCtx, procEn>>

StopQueue ==
    /\ ProcAt("stop_queue") /\ proc' = "stop_napi"
    /\ stopped' = TRUE
    /\ UNCHANGED <<chip, napi, signal, pending, mask, hash, irqCtx, bhCtx, procEn>>

\* napi_disable: announce it, ...
StopNapiDisable ==
    /\ ProcAt("stop_napi") /\ proc' = "stop_wait"
    /\ disable' = TRUE
    /\ UNCHANGED <<chip, sched, inList, drv, irqCtx, bhCtx, procEn>>

\* Mutant of NapiReleased: napi_disable does not wait.
NapiReleasedAlways == TRUE

\* The owner of NAPI_STATE_SCHED has given it up.
NapiReleased == ~sched

\* ... then wait for NAPI_STATE_SCHED and keep it. What follows (statistics,
\* phy_stop, IFF_UP cleared) is not part of this state.
StopNapiWait ==
    /\ ProcAt("stop_wait") /\ NapiReleased /\ proc' = "down"
    /\ sched' = TRUE /\ disable' = FALSE
    /\ UNCHANGED <<chip, inList, drv, irqCtx, bhCtx, procEn>>

Stop == StopIrqs \/ StopQueue \/ StopNapiDisable \/ StopNapiWait

Process == Open \/ Stop

Next == Chip \/ IrqHandler \/ BottomHalf \/ Process

Spec == Init /\ [][Next]_vars

-----------------------------------------------------------------------------
(* Fairness. The chip raises its line until it is served and the CPU takes  *)
(* the interrupt; code in progress goes on; a raised NET_RX softirq runs;   *)
(* the scheduler gives the opening or closing process its turns (ksoftirqd  *)
(* keeps the poll from starving it); the transmitter sends. Nobody has to   *)
(* open, close, send, ask for a filter or deliver a packet.                 *)
BhGoesOn == bh # "idle" /\ BottomHalf
ProcGoesOn == proc \notin {"down", "up"} /\ Process

Fairness ==
    /\ WF_vars(IrqHandler)
    /\ WF_vars(BhGoesOn)
    /\ SF_vars(PollStart)
    /\ SF_vars(ProcGoesOn)
    /\ WF_vars(TxDrains)
    /\ WF_vars(RxStops)

FairSpec == Spec /\ Fairness

-----------------------------------------------------------------------------
(* Properties.                                                              *)

\* An RSFL interrupt that can reach the CPU can be turned into a poll: while
\* IRQ_EN and RSFL_EN are both set napi_schedule_prep succeeds. Otherwise the
\* handler only warns, leaves RSFL unmasked and is entered again at once, for
\* ever (irqhandler; the order of napi_enable and INT_EN in open, of INT_CFG
\* and napi_disable in stop, of napi_complete and INT_EN in poll).
RsflServiceable == irqEn /\ "RSFL" \in intEn => NapiSchedulePrep

\* No received packet is left behind: while the interface is up a packet in the
\* RX FIFO has a poll that is scheduled, or is about to unmask RSFL, or has an
\* interrupt asserted (poll's acknowledge / complete / unmask sequence).
RxNotStranded ==
    proc = "up" /\ rx > 0 =>
        \/ inList
        \/ bh \in {"en_read", "en_write"}
        \/ irqEn /\ "RSFL" \in intEn /\ "RSFL" \in intSts

\* The poll leaves no stale RSFL status behind: an interface with no poll
\* scheduled and an empty FIFO does not ask for one (poll acknowledges RSFL
\* after, never before, the packets it consumed).
NoStaleRsfl == proc = "up" /\ ~inList /\ rx = 0 => "RSFL" \notin intSts

\* A stopped queue will be woken: once hard_start_xmit is past the arming of
\* the TDFA level, a stopped queue of a running interface has the level armed
\* and the interrupt enabled (hard_start_xmit stops, then arms; the handler
\* disarms, acknowledges, then wakes).
TxWakeArmed ==
    proc = "up" /\ stopped /\ bh # "arm" =>
        irqEn /\ "TDFA" \in intEn /\ txLevel = TxWake

\* A packet never overruns the TX data FIFO: when hard_start_xmit writes it the
\* FIFO has room for it and its padding (TX_FIFO_LOW_THRESHOLD, the queue's
\* stop and wake).
NoTxOverrun == bh = "write" => txFree >= len + TxPad

\* The queue of a running interface is woken only when a packet of any length
\* fits again (the TDFA level of hard_start_xmit).
WokenWithRoom == [][proc = "up" /\ stopped /\ ~stopped' => txFree >= TxLow]_vars

\* The interrupt test of open is over when open goes on: no read-modify-write
\* of INT_EN brings SW_INT_EN back (open waits for software_irq_signal, which
\* the handler sets after masking and acknowledging).
SwTestOver ==
    proc \in {"config", "napi", "en_read", "en_write", "mac", "start", "opened", "up"} =>
        "SW" \notin intEn /\ "SW" \notin intSts

\* NAPI is owned by a closed interface: from the return of napi_disable to
\* napi_enable NAPI_STATE_SCHED is held (napi_enable's BUG_ON), no poll is
\* scheduled and none runs. It says nothing of the chip, which stop leaves
\* sending and receiving.
ClosedIsQuiet ==
    proc \in {"down", "reset", "sw_read", "sw_write", "sw_wait", "config", "napi"} =>
        sched /\ ~disable /\ ~inList /\ bh = "idle"

\* A poll that used its whole budget still owns the NAPI context when it
\* returns to net_rx_action, which then moves or completes it.
FullBudgetKeepsNapi == bh = "ret" /\ work = Budget => sched /\ inList

\* The receive filter is what was last asked for: outside set_multicast_list,
\* when no update is pending, MAC_CR and the hash registers hold the driver's
\* values, even when the handler applied half-written ones in between.
FilterApplied ==
    proc = "up" /\ bh \notin McPcs /\ ~pending => maskReg = mask /\ hashReg = hash

\* Older chips are never reprogrammed while they receive: outside the soft reset
\* a filter register of a generation 0 or 1 chip changes only when the receiver
\* has stopped (rx_multicast_update_workaround: "MAC_CR, HASHH and HASHL should
\* not be modified during Rx").
UpdateOnlyWhenRxStopped ==
    [][Generation <= 1 /\ proc # "down" /\ <<maskReg, hashReg>>' # <<maskReg, hashReg>>
         => ~rxActive]_vars

\* A pending filter update is on its way: the receiver was asked to stop, so an
\* RX_STOP interrupt will come and perform it (set_multicast_list).
PendingWillComplete == proc = "up" /\ pending => ~rxen

\* A full RX FIFO of an interface that stays up is emptied.
RxDrained == (proc = "up" /\ rx = RxCap) ~> (rx < RxCap \/ proc # "up")

\* A stopped queue of an interface that stays up is woken.
TxResumes == (proc = "up" /\ stopped) ~> (~stopped \/ proc # "up")

\* stop returns, however many packets keep arriving (napi_disable waits for a
\* poll that net_rx_action completes when its budget is used up), unless
\* allocations go on failing: a poll that ends for lack of memory neither completes
\* nor uses up its budget, so it is polled again.
StopCompletes ==
    (<>[][~PollNoMem]_vars) => ((proc \in StopPcs) ~> (proc = "down"))

=============================================================================
