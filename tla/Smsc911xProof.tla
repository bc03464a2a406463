--------------------------- MODULE Smsc911xProof ---------------------------
(***************************************************************************)
(* The inductive invariant of Smsc911x and the proofs, for every value of   *)
(* the constants, of its safety properties.                                 *)
(***************************************************************************)
EXTENDS Smsc911x, TLAPS

-----------------------------------------------------------------------------
(* The inductive invariant.                                                 *)

\* From the soft reset to the write of INT_EN no source but SW_INT is live.
Resetting == {"reset", "sw_read", "sw_write", "sw_wait", "config", "napi",
              "en_read", "en_write", "mac"}
\* NAPI has not been enabled yet, or is disabled again.
NapiOff == {"down", "reset", "sw_read", "sw_write", "sw_wait", "config", "napi"}
\* The interrupt sources of normal operation are enabled.
Enabled == {"mac", "start", "opened", "up"}

\* Between samples the handler holds nothing; a sampled source stays enabled,
\* and stays latched, until the branch that serves it.
HandlerInv ==
    /\ irq = "out" => irqSts = {}
    /\ "RSFL" \in irqSts => "RSFL" \in intEn /\ "RSFL" \in intSts
    /\ "SW" \in irqSts /\ irq = "sw" => "SW" \in intEn
    /\ "TDFA" \in irqSts => "TDFA" \in intEn
    /\ "TDFA" \in irqSts /\ irq \in {"sw", "rxstop", "tdfa"} => "TDFA" \in intSts
    /\ "RXSTOP" \in irqSts /\ irq \in {"sw", "rxstop"} => "RXSTOP" \in intSts

\* Who owns NAPI_STATE_SCHED, and that its owner has RSFL masked.
NapiInv ==
    /\ inList => sched /\ "RSFL" \notin intEn
    /\ bh \in {"poll", "stack", "ack", "complete"} => inList
    /\ bh \in XmitPcs \cup McPcs /\ bhRet = "poll" => inList
    /\ bh \in {"en_read", "en_write"} => ~inList /\ ~sched /\ "RSFL" \notin intEn
    /\ bh \in {"ack", "complete", "en_read", "en_write"} => work < Budget
    /\ bh = "ret" /\ work = Budget => inList
    /\ proc \notin NapiOff /\ sched => inList
    /\ disable => proc = "stop_wait"

\* What open and stop have done so far.
LifecycleInv ==
    /\ proc \in NapiOff => sched /\ ~inList
    /\ proc \in NapiOff \cup {"en_read", "en_write", "mac"} => bh = "idle" /\ ~inList
    /\ proc \in StopPcs => ~irqEn
    /\ proc \in Resetting \ {"reset"} => irqEn
    /\ proc \in Resetting =>
         intSts \subseteq {"SW"} /\ rx = 0 /\ ~rxActive /\ txLevel = TxOff
    /\ proc \in {"reset", "sw_read", "sw_write", "config", "napi", "en_read", "en_write"} =>
         intEn = {}
    /\ proc \in {"sw_write", "en_write"} => procEn = {}
    /\ proc \in {"sw_read", "sw_write"} => ~signal
    /\ proc = "sw_wait" => intEn \subseteq {"SW"}
    /\ proc = "sw_wait" /\ signal => intEn = {} /\ intSts = {}

\* A device in operation: sources enabled, except RSFL while a poll owns it.
EnabledInv ==
    proc \in Enabled =>
        /\ irqEn
        /\ "TDFA" \in intEn /\ "RXSTOP" \in intEn
        /\ "RSFL" \in intEn \/ inList \/ bh \in {"en_read", "en_write"}

\* The read-modify-writes of INT_EN are not overtaken.
RmwInv ==
    /\ bh = "en_write" => bhEn = intEn
    /\ proc \in {"config", "napi", "en_read", "en_write"} \cup Enabled \cup StopPcs =>
         "SW" \notin intEn /\ "SW" \notin intSts

\* INT_STS shows every condition that holds, and RSFL nothing else.
LatchInv ==
    /\ rx > 0 => "RSFL" \in intSts
    /\ txFree > txLevel => "TDFA" \in intSts
    /\ bh = "complete" /\ rx = 0 => "RSFL" \notin intSts
    /\ proc \in Enabled /\ ~inList /\ rx = 0 => "RSFL" \notin intSts

\* A stopped queue is armed.
QueueInv == proc \in {"opened", "up"} /\ stopped /\ bh # "arm" => txLevel = TxWake

\* A latched RXSTOP means that the receiver has stopped and stays stopped.
RxStopInv == "RXSTOP" \in intSts => ~rxen /\ ~rxActive

\* Without challenges the stack is the only sender: a queue that is not stopped
\* has room for a packet, and a wake-up is only asked for by a stopped one.
TxInv ==
    ~Vet =>
      /\ proc \in Resetting \cup {"start", "opened"} =>
           txFree = TxSize /\ txLevel = TxOff /\ "TDFA" \notin intSts
      /\ bh \in XmitPcs => proc = "up" /\ txLevel = TxOff /\ "TDFA" \notin intSts
      /\ bh \in {"space", "write"} => ~stopped /\ len \in PktLens
      /\ bh = "arm" => stopped
      /\ bh = "write" => TxLow <= space /\ space <= txFree
      /\ proc = "up" /\ ~stopped /\ bh \notin {"stopq", "arm"} => TxLow <= txFree
      /\ proc = "up" /\ txLevel = TxWake => stopped
      /\ proc = "up" /\ "TDFA" \in intSts => stopped /\ TxWake < txFree

\* The inductive invariant: handler, poll, open and stop never disagree on who
\* owns NAPI, which sources are enabled and latched, and what the queue and the
\* filter wait for (the conjuncts above).
IInv ==
    /\ TypeOK
    /\ HandlerInv
    /\ NapiInv
    /\ LifecycleInv
    /\ EnabledInv
    /\ RmwInv
    /\ LatchInv
    /\ QueueInv
    /\ RsflServiceable
    /\ FilterApplied
    /\ RxStopInv
    /\ TxInv

-----------------------------------------------------------------------------
(* Type correctness.                                                        *)

\* What FilterFor returns is a filter.
LEMMA FilterForType ==
    ASSUME NEW r \in Requests
    PROVE  FilterFor(r) \in [mask : Masks, hash : SUBSET HashBits]
  BY FilterAssumption DEF FilterFor, Masks

\* The interrupt sources, as the typing steps use them.
LEMMA SourcesAre ==
    "SW" \in Sources /\ "RXSTOP" \in Sources /\ "TDFA" \in Sources /\ "RSFL" \in Sources
  BY DEF Sources

\* Level is made of interrupt sources.
LEMMA LevelType ==
    ASSUME NEW r, NEW free, NEW lvl
    PROVE  Level(r, free, lvl) \in SUBSET Sources
  BY DEF Level, Sources

\* Steps of Chip keep the types.
LEMMA TypeOK_Chip == TypeOK /\ Chip => TypeOK'
  <1> SUFFICES ASSUME TypeOK, Chip PROVE TypeOK'
    OBVIOUS
  <1> USE RxAssumption, TxAssumption, LevelType, SourcesAre
           DEF TypeOK, IrqPcs, PollPcs, XmitPcs, McPcs, OpenPcs, StopPcs, TxOff,
               chip, napi, drv, irqCtx, bhCtx, procCtx
  <1>1. CASE PktArrives
    BY <1>1 DEF PktArrives
  <1>2. CASE TxDrains
    BY <1>2 DEF TxDrains
  <1>3. CASE RxStops
    <2> USE <1>3 DEF RxStops
    <2>1. rxActive' \in BOOLEAN
      OBVIOUS
    <2>2. intSts' \in SUBSET Sources
      OBVIOUS
    <2> QED BY <2>1, <2>2
  <1> QED BY <1>1, <1>2, <1>3 DEF Chip

\* Steps of IrqHandler keep the types.
LEMMA TypeOK_IrqHandler == TypeOK /\ IrqHandler => TypeOK'
  <1> SUFFICES ASSUME TypeOK, IrqHandler PROVE TypeOK'
    OBVIOUS
  <1> USE RxAssumption, TxAssumption, LevelType, SourcesAre
           DEF TypeOK, IrqPcs, PollPcs, XmitPcs, McPcs, OpenPcs, StopPcs, TxOff,
               chip, napi, drv, irqCtx, bhCtx, procCtx
  <1>1. CASE IrqEnter
    BY <1>1 DEF IrqEnter
  <1>2. CASE IrqSw
    <2> USE <1>2 DEF IrqSw, MaskSw
    <2>1. intEn' \in SUBSET Sources
      OBVIOUS
    <2>2. intSts' \in SUBSET Sources
      OBVIOUS
    <2>3. signal' \in BOOLEAN
      OBVIOUS
    <2> QED BY <2>1, <2>2, <2>3
  <1>3. CASE IrqRxStop
    <2> USE <1>3 DEF IrqRxStop, MulticastUpdateWorkaround, MulticastUpdate
    <2>1. intSts' \in SUBSET Sources
      OBVIOUS
    <2>2. maskReg' \in Masks
      OBVIOUS
    <2>3. hashReg' \in SUBSET HashBits
      OBVIOUS
    <2>4. rxen' \in BOOLEAN
      OBVIOUS
    <2>5. rxActive' \in BOOLEAN
      OBVIOUS
    <2>6. pending' \in BOOLEAN
      OBVIOUS
    <2> QED BY <2>1, <2>2, <2>3, <2>4, <2>5, <2>6
  <1>4. CASE IrqTdfa
    <2> USE <1>4 DEF IrqTdfa
    <2>1. intSts' \in SUBSET Sources
      OBVIOUS
    <2>2. stopped' \in BOOLEAN
      OBVIOUS
    <2> QED BY <2>1, <2>2
  <1>5. CASE IrqRsfl
    <2> USE <1>5 DEF IrqRsfl, NapiSchedulePrep, MaskRsfl
    <2>1. intEn' \in SUBSET Sources
      OBVIOUS
    <2>2. sched' \in BOOLEAN
      OBVIOUS
    <2>3. inList' \in BOOLEAN
      OBVIOUS
    <2> QED BY <2>1, <2>2, <2>3
  <1> QED BY <1>1, <1>2, <1>3, <1>4, <1>5 DEF IrqHandler

\* Steps of Poll keep the types.
LEMMA TypeOK_Poll == TypeOK /\ Poll => TypeOK'
  <1> SUFFICES ASSUME TypeOK, Poll PROVE TypeOK'
    OBVIOUS
  <1> USE RxAssumption, TxAssumption, LevelType, SourcesAre
           DEF TypeOK, IrqPcs, PollPcs, XmitPcs, McPcs, OpenPcs, StopPcs, TxOff,
               chip, napi, drv, irqCtx, bhCtx, procCtx, BhAt
  <1>1. CASE PollStart
    BY <1>1 DEF PollStart
  <1>2. CASE PollPacket
    BY <1>2 DEF PollPacket, BudgetLeft
  <1>3. CASE PollStackReturns
    BY <1>3 DEF PollStackReturns
  <1>4. CASE PollNoMem
    BY <1>4 DEF PollNoMem, BudgetLeft
  <1>5. CASE PollChallenge
    BY <1>5 DEF PollChallenge, BudgetLeft
  <1>6. CASE PollBudget
    BY <1>6 DEF PollBudget, BudgetLeft
  <1>7. CASE PollEmpty
    BY <1>7 DEF PollEmpty, BudgetLeft
  <1>8. CASE PollAck
    BY <1>8 DEF PollAck, AckRsfl
  <1>9. CASE PollComplete
    <2> USE <1>9 DEF PollComplete, NapiComplete
    <2>1. sched' \in BOOLEAN
      OBVIOUS
    <2>2. inList' \in BOOLEAN
      OBVIOUS
    <2> QED BY <2>1, <2>2
  <1>10. CASE PollEnRead
    BY <1>10 DEF PollEnRead
  <1>11. CASE PollEnWrite
    BY <1>11 DEF PollEnWrite, UnmaskRsfl
  <1>12. CASE PollReturn
    <2> USE <1>12 DEF PollReturn, NapiComplete
    <2>1. sched' \in BOOLEAN
      OBVIOUS
    <2>2. inList' \in BOOLEAN
      OBVIOUS
    <2> QED BY <2>1, <2>2
  <1> QED BY <1>1, <1>2, <1>3, <1>4, <1>5, <1>6, <1>7, <1>8, <1>9,
             <1>10, <1>11, <1>12 DEF Poll

\* Steps of Xmit keep the types.
LEMMA TypeOK_Xmit == TypeOK /\ Xmit => TypeOK'
  <1> SUFFICES ASSUME TypeOK, Xmit PROVE TypeOK'
    OBVIOUS
  <1> USE RxAssumption, TxAssumption, LevelType, SourcesAre
           DEF TypeOK, IrqPcs, PollPcs, XmitPcs, McPcs, OpenPcs, StopPcs, TxOff,
               chip, napi, drv, irqCtx, bhCtx, procCtx, BhAt
  <1>1. CASE XmitFromProcess
    BY <1>1 DEF XmitFromProcess, XmitStart
  <1>2. CASE XmitFromPoll
    BY <1>2 DEF XmitFromPoll, XmitStart
  <1>3. CASE XmitSpace
    BY <1>3 DEF XmitSpace
  <1>4. CASE XmitWrite
    BY <1>4 DEF XmitWrite, QueueMustStop, Sub
  <1>5. CASE XmitStopQueue
    BY <1>5 DEF XmitStopQueue
  <1>6. CASE XmitArm
    BY <1>6 DEF XmitArm, TxArmLevel
  <1> QED BY <1>1, <1>2, <1>3, <1>4, <1>5, <1>6 DEF Xmit

\* Steps of SetMulticastList keep the types.
LEMMA TypeOK_SetMulticastList == TypeOK /\ SetMulticastList => TypeOK'
  <1> SUFFICES ASSUME TypeOK, SetMulticastList PROVE TypeOK'
    OBVIOUS
  <1> USE RxAssumption, TxAssumption, LevelType, SourcesAre
           DEF TypeOK, IrqPcs, PollPcs, XmitPcs, McPcs, OpenPcs, StopPcs, TxOff,
               chip, napi, drv, irqCtx, bhCtx, procCtx, BhAt
  <1>1. CASE McFromProcess
    BY <1>1, FilterForType DEF McFromProcess, McStart, Masks
  <1>2. CASE McFromPoll
    BY <1>2, FilterForType DEF McFromPoll, McStart, Masks
  <1>3. CASE McMask
    BY <1>3 DEF McMask, Masks
  <1>4. CASE McHash
    BY <1>4 DEF McHash, Masks
  <1>5. CASE McLocked
    <2> USE <1>5 DEF McLocked, MulticastUpdate, UpdatesAtOnce, NoReq, Masks
    <2>1. req' \in [mask : Masks, hash : SUBSET HashBits]
      OBVIOUS
    <2>2. pending' \in BOOLEAN
      OBVIOUS
    <2>3. rxen' \in BOOLEAN
      OBVIOUS
    <2>4. maskReg' \in Masks
      OBVIOUS
    <2>5. hashReg' \in SUBSET HashBits
      OBVIOUS
    <2> QED BY <2>1, <2>2, <2>3, <2>4, <2>5
  <1> QED BY <1>1, <1>2, <1>3, <1>4, <1>5 DEF SetMulticastList

\* Steps of Open keep the types.
LEMMA TypeOK_Open == TypeOK /\ Open => TypeOK'
  <1> SUFFICES ASSUME TypeOK, Open PROVE TypeOK'
    OBVIOUS
  <1> USE RxAssumption, TxAssumption, LevelType, SourcesAre
           DEF TypeOK, IrqPcs, PollPcs, XmitPcs, McPcs, OpenPcs, StopPcs, TxOff,
               chip, napi, drv, irqCtx, bhCtx, procCtx, ProcAt
  <1>1. CASE OpenReset
    <2> USE <1>1 DEF OpenReset, ChipReset, Masks
    <2>1. irqEn' \in BOOLEAN
      OBVIOUS
    <2>2. rxen' \in BOOLEAN
      OBVIOUS
    <2>3. rxActive' \in BOOLEAN
      OBVIOUS
    <2> QED BY <2>1, <2>2, <2>3
  <1>2. CASE OpenResetFails
    <2> USE <1>2 DEF OpenResetFails, ChipReset, Masks
    <2>1. irqEn' \in BOOLEAN
      OBVIOUS
    <2>2. rxen' \in BOOLEAN
      OBVIOUS
    <2>3. rxActive' \in BOOLEAN
      OBVIOUS
    <2> QED BY <2>1, <2>2, <2>3
  <1>3. CASE OpenInitIrqs
    <2> USE <1>3 DEF OpenInitIrqs
    <2>1. irqEn' \in BOOLEAN
      OBVIOUS
    <2>2. signal' \in BOOLEAN
      OBVIOUS
    <2> QED BY <2>1, <2>2
  <1>4. CASE OpenSwRead
    BY <1>4 DEF OpenSwRead
  <1>5. CASE OpenSwWrite
    BY <1>5 DEF OpenSwWrite
  <1>6. CASE OpenIrqSeen
    BY <1>6 DEF OpenIrqSeen
  <1>7. CASE OpenIrqTimeout
    BY <1>7 DEF OpenIrqTimeout
  <1>8. CASE OpenConfig
    BY <1>8 DEF OpenConfig
  <1>9. CASE OpenNapiEnable
    <2> USE <1>9 DEF OpenNapiEnable
    <2>1. sched' \in BOOLEAN
      OBVIOUS
    <2> QED BY <2>1
  <1>10. CASE OpenEnRead
    BY <1>10 DEF OpenEnRead
  <1>11. CASE OpenEnWrite
    BY <1>11 DEF OpenEnWrite
  <1>12. CASE OpenMac
    <2> USE <1>12 DEF OpenMac
    <2>1. rxen' \in BOOLEAN
      OBVIOUS
    <2>2. rxActive' \in BOOLEAN
      OBVIOUS
    <2> QED BY <2>1, <2>2
  <1>13. CASE OpenStartQueue
    <2> USE <1>13 DEF OpenStartQueue
    <2>1. stopped' \in BOOLEAN
      OBVIOUS
    <2> QED BY <2>1
  <1>14. CASE DevOpen
    BY <1>14, FilterForType DEF DevOpen, Masks
  <1> QED BY <1>1, <1>2, <1>3, <1>4, <1>5, <1>6, <1>7, <1>8, <1>9,
             <1>10, <1>11, <1>12, <1>13, <1>14 DEF Open

\* Steps of Stop keep the types.
LEMMA TypeOK_Stop == TypeOK /\ Stop => TypeOK'
  <1> SUFFICES ASSUME TypeOK, Stop PROVE TypeOK'
    OBVIOUS
  <1> USE RxAssumption, TxAssumption, LevelType, SourcesAre
           DEF TypeOK, IrqPcs, PollPcs, XmitPcs, McPcs, OpenPcs, StopPcs, TxOff,
               chip, napi, drv, irqCtx, bhCtx, procCtx, ProcAt
  <1>1. CASE StopIrqs
    <2> USE <1>1 DEF StopIrqs
    <2>1. irqEn' \in BOOLEAN
      OBVIOUS
    <2> QED BY <2>1
  <1>2. CASE StopQueue
    <2> USE <1>2 DEF StopQueue
    <2>1. stopped' \in BOOLEAN
      OBVIOUS
    <2> QED BY <2>1
  <1>3. CASE StopNapiDisable
    <2> USE <1>3 DEF StopNapiDisable
    <2>1. disable' \in BOOLEAN
      OBVIOUS
    <2> QED BY <2>1
  <1>4. CASE StopNapiWait
    <2> USE <1>4 DEF StopNapiWait, NapiReleased
    <2>1. sched' \in BOOLEAN
      OBVIOUS
    <2>2. disable' \in BOOLEAN
      OBVIOUS
    <2> QED BY <2>1, <2>2
  <1> QED BY <1>1, <1>2, <1>3, <1>4 DEF Stop


-----------------------------------------------------------------------------
(* The invariant is inductive. Each action has one step for the parts that   *)
(* it preserves on their own, and one for every part that rests on others.   *)

InvParts ==
    /\ HandlerInv /\ NapiInv /\ LifecycleInv /\ EnabledInv /\ RmwInv /\ LatchInv
    /\ QueueInv /\ RsflServiceable /\ FilterApplied /\ RxStopInv /\ TxInv

\* Every step of Chip preserves the invariant.
LEMMA IInv_Chip == IInv /\ Chip => InvParts'
  <1> SUFFICES ASSUME IInv, Chip PROVE InvParts'
    OBVIOUS
  <1> USE DEF IInv, NapiOff, Resetting, Enabled, StopPcs, XmitPcs, McPcs, TxOff, Level,
              NapiSchedulePrep, chip, napi, drv, irqCtx, bhCtx, procCtx
  <1>1. CASE PktArrives
    <2>1. (HandlerInv /\ NapiInv /\ LifecycleInv /\ EnabledInv /\ RmwInv /\ QueueInv /\
       RsflServiceable /\ FilterApplied /\ RxStopInv /\ TxInv)'
      BY <1>1 DEF PktArrives, HandlerInv, NapiInv, LifecycleInv, EnabledInv, RmwInv,
         QueueInv, RsflServiceable, FilterApplied, RxStopInv, TxInv
    <2>2. LatchInv'
      BY <1>1 DEF PktArrives, TypeOK, LatchInv
    <2> QED BY <2>1, <2>2 DEF InvParts
  <1>2. CASE TxDrains
    <2>1. (HandlerInv /\ NapiInv /\ EnabledInv /\ RmwInv /\ LatchInv /\ QueueInv /\
       RsflServiceable /\ FilterApplied /\ RxStopInv)'
      BY <1>2 DEF TxDrains, HandlerInv, NapiInv, EnabledInv, RmwInv, LatchInv, QueueInv,
         RsflServiceable, FilterApplied, RxStopInv
    <2>2. LifecycleInv'
      <3>1. proc \in Resetting => Level(rx, txFree', txLevel) = {}
        BY <1>2, TxAssumption DEF TxDrains, LifecycleInv, TypeOK
      <3>2. proc \in Resetting => intSts' = intSts
        BY <1>2, <3>1 DEF TxDrains
      <3> QED BY <1>2, <3>2 DEF TxDrains, LifecycleInv
    <2>3. TxInv'
      BY <1>2, RxAssumption, TxAssumption DEF TxDrains, TypeOK, TxInv
    <2> QED BY <2>1, <2>2, <2>3 DEF InvParts
  <1>3. CASE RxStops
    <2>1. (HandlerInv /\ NapiInv /\ LifecycleInv /\ EnabledInv /\ RmwInv /\ LatchInv /\
       QueueInv /\ RsflServiceable /\ FilterApplied /\ RxStopInv /\ TxInv)'
      BY <1>3 DEF RxStops, HandlerInv, NapiInv, LifecycleInv, EnabledInv, RmwInv, LatchInv,
         QueueInv, RsflServiceable, FilterApplied, RxStopInv, TxInv
    <2> QED BY <2>1 DEF InvParts
  <1> QED BY <1>1, <1>2, <1>3 DEF Chip

\* Every step of IrqHandler preserves the invariant.
LEMMA IInv_IrqHandler == IInv /\ IrqHandler => InvParts'
  <1> SUFFICES ASSUME IInv, IrqHandler PROVE InvParts'
    OBVIOUS
  <1> USE DEF IInv, NapiOff, Resetting, Enabled, StopPcs, XmitPcs, McPcs, TxOff, Level,
              NapiSchedulePrep, chip, napi, drv, irqCtx, bhCtx, procCtx
  <1>1. CASE IrqEnter
    <2>1. (HandlerInv /\ NapiInv /\ LifecycleInv /\ EnabledInv /\ RmwInv /\ LatchInv /\
       QueueInv /\ RsflServiceable /\ FilterApplied /\ RxStopInv /\ TxInv)'
      BY <1>1 DEF IrqEnter, HandlerInv, NapiInv, LifecycleInv, EnabledInv, RmwInv, LatchInv,
         QueueInv, RsflServiceable, FilterApplied, RxStopInv, TxInv
    <2> QED BY <2>1 DEF InvParts
  <1>2. CASE IrqSw
    <2>1. (HandlerInv /\ NapiInv /\ EnabledInv /\ LatchInv /\ QueueInv /\ RsflServiceable /\
       FilterApplied /\ RxStopInv /\ TxInv)'
      BY <1>2 DEF IrqSw, MaskSw, HandlerInv, NapiInv, EnabledInv, LatchInv, QueueInv,
         RsflServiceable, FilterApplied, RxStopInv, TxInv
    <2>2. LifecycleInv'
      BY <1>2 DEF IrqSw, MaskSw, HandlerInv, LifecycleInv
    <2>3. RmwInv'
      BY <1>2 DEF IrqSw, MaskSw, TypeOK, OpenPcs, Sources, LifecycleInv, RmwInv
    <2> QED BY <2>1, <2>2, <2>3 DEF InvParts
  <1>3. CASE IrqRxStop
    <2>1. (HandlerInv /\ NapiInv /\ EnabledInv /\ RmwInv /\ LatchInv /\ QueueInv /\
       RsflServiceable /\ FilterApplied /\ RxStopInv /\ TxInv)'
      BY <1>3 DEF IrqRxStop, MulticastUpdateWorkaround, MulticastUpdate, HandlerInv, NapiInv,
         EnabledInv, RmwInv, LatchInv, QueueInv, RsflServiceable, FilterApplied, RxStopInv, TxInv
    <2>2. LifecycleInv'
      BY <1>3 DEF IrqRxStop, MulticastUpdateWorkaround, MulticastUpdate, HandlerInv, LifecycleInv
    <2> QED BY <2>1, <2>2 DEF InvParts
  <1>4. CASE IrqTdfa
    <2>1. (HandlerInv /\ NapiInv /\ LifecycleInv /\ EnabledInv /\ RmwInv /\ RsflServiceable
       /\ FilterApplied /\ RxStopInv)'
      BY <1>4 DEF IrqTdfa, HandlerInv, NapiInv, LifecycleInv, EnabledInv, RmwInv,
         RsflServiceable, FilterApplied, RxStopInv
    <2>2. LatchInv'
      BY <1>4, RxAssumption, TxAssumption DEF IrqTdfa, TypeOK, LatchInv
    <2>3. QueueInv'
      BY <1>4, Zenon DEF IrqTdfa, QueueInv
    <2>4. TxInv'
      BY <1>4, TxAssumption DEF IrqTdfa, TypeOK, HandlerInv, TxInv
    <2> QED BY <2>1, <2>2, <2>3, <2>4 DEF InvParts
  <1>5. CASE IrqRsfl
    <2>1. (HandlerInv /\ EnabledInv /\ LatchInv /\ QueueInv /\ RsflServiceable /\
       FilterApplied /\ RxStopInv /\ TxInv)'
      BY <1>5 DEF IrqRsfl, MaskRsfl, HandlerInv, EnabledInv, LatchInv, QueueInv,
         RsflServiceable, FilterApplied, RxStopInv, TxInv
    <2>2. NapiInv'
      BY <1>5 DEF IrqRsfl, MaskRsfl, HandlerInv, NapiInv
    <2>3. LifecycleInv'
      BY <1>5 DEF IrqRsfl, MaskRsfl, HandlerInv, LifecycleInv
    <2>4. RmwInv'
      BY <1>5 DEF IrqRsfl, MaskRsfl, NapiInv, RmwInv
    <2> QED BY <2>1, <2>2, <2>3, <2>4 DEF InvParts
  <1> QED BY <1>1, <1>2, <1>3, <1>4, <1>5 DEF IrqHandler

\* Every step of Poll preserves the invariant.
LEMMA IInv_Poll == IInv /\ Poll => InvParts'
  <1> SUFFICES ASSUME IInv, Poll PROVE InvParts'
    OBVIOUS
  <1> USE DEF IInv, NapiOff, Resetting, Enabled, StopPcs, XmitPcs, McPcs, TxOff, BhAt, Level,
              NapiSchedulePrep, chip, napi, drv, irqCtx, bhCtx, procCtx
  <1>1. CASE PollStart
    <2>1. (HandlerInv /\ NapiInv /\ LifecycleInv /\ EnabledInv /\ RmwInv /\ LatchInv /\
       QueueInv /\ RsflServiceable /\ FilterApplied /\ RxStopInv /\ TxInv)'
      BY <1>1 DEF PollStart, HandlerInv, NapiInv, LifecycleInv, EnabledInv, RmwInv,
         LatchInv, QueueInv, RsflServiceable, FilterApplied, RxStopInv, TxInv
    <2> QED BY <2>1 DEF InvParts
  <1>2. CASE PollPacket
    <2>1. (HandlerInv /\ NapiInv /\ LifecycleInv /\ EnabledInv /\ RmwInv /\ QueueInv /\
       RsflServiceable /\ FilterApplied /\ RxStopInv /\ TxInv)'
      BY <1>2 DEF PollPacket, BudgetLeft, HandlerInv, NapiInv, LifecycleInv, EnabledInv,
         RmwInv, QueueInv, RsflServiceable, FilterApplied, RxStopInv, TxInv
    <2>2. LatchInv'
      BY <1>2 DEF PollPacket, BudgetLeft, NapiInv, LatchInv
    <2> QED BY <2>1, <2>2 DEF InvParts
  <1>3. CASE PollStackReturns
    <2>1. (HandlerInv /\ NapiInv /\ LifecycleInv /\ EnabledInv /\ RmwInv /\ LatchInv /\
       QueueInv /\ RsflServiceable /\ FilterApplied /\ RxStopInv /\ TxInv)'
      BY <1>3 DEF PollStackReturns, HandlerInv, NapiInv, LifecycleInv, EnabledInv, RmwInv,
         LatchInv, QueueInv, RsflServiceable, FilterApplied, RxStopInv, TxInv
    <2> QED BY <2>1 DEF InvParts
  <1>4. CASE PollNoMem
    <2>1. (HandlerInv /\ NapiInv /\ LifecycleInv /\ EnabledInv /\ RmwInv /\ QueueInv /\
       RsflServiceable /\ FilterApplied /\ RxStopInv /\ TxInv)'
      BY <1>4 DEF PollNoMem, BudgetLeft, HandlerInv, NapiInv, LifecycleInv, EnabledInv,
         RmwInv, QueueInv, RsflServiceable, FilterApplied, RxStopInv, TxInv
    <2>2. LatchInv'
      BY <1>4 DEF PollNoMem, BudgetLeft, NapiInv, LatchInv
    <2> QED BY <2>1, <2>2 DEF InvParts
  <1>5. CASE PollChallenge
    <2>1. (HandlerInv /\ NapiInv /\ LifecycleInv /\ EnabledInv /\ RmwInv /\ QueueInv /\
       RsflServiceable /\ FilterApplied /\ RxStopInv /\ TxInv)'
      BY <1>5 DEF PollChallenge, BudgetLeft, HandlerInv, NapiInv, LifecycleInv, EnabledInv,
         RmwInv, QueueInv, RsflServiceable, FilterApplied, RxStopInv, TxInv
    <2>2. LatchInv'
      BY <1>5 DEF PollChallenge, BudgetLeft, NapiInv, LatchInv
    <2> QED BY <2>1, <2>2 DEF InvParts
  <1>6. CASE PollBudget
    <2>1. (HandlerInv /\ NapiInv /\ LifecycleInv /\ EnabledInv /\ RmwInv /\ LatchInv /\
       QueueInv /\ RsflServiceable /\ FilterApplied /\ RxStopInv /\ TxInv)'
      BY <1>6 DEF PollBudget, BudgetLeft, HandlerInv, NapiInv, LifecycleInv, EnabledInv,
         RmwInv, LatchInv, QueueInv, RsflServiceable, FilterApplied, RxStopInv, TxInv
    <2> QED BY <2>1 DEF InvParts
  <1>7. CASE PollEmpty
    <2>1. (HandlerInv /\ NapiInv /\ LifecycleInv /\ EnabledInv /\ RmwInv /\ LatchInv /\
       QueueInv /\ RsflServiceable /\ FilterApplied /\ RxStopInv /\ TxInv)'
      BY <1>7 DEF PollEmpty, BudgetLeft, HandlerInv, NapiInv, LifecycleInv, EnabledInv,
         RmwInv, LatchInv, QueueInv, RsflServiceable, FilterApplied, RxStopInv, TxInv
    <2> QED BY <2>1 DEF InvParts
  <1>8. CASE PollAck
    <2>1. (HandlerInv /\ NapiInv /\ EnabledInv /\ RmwInv /\ LatchInv /\ QueueInv /\
       RsflServiceable /\ FilterApplied /\ RxStopInv)'
      BY <1>8 DEF PollAck, AckRsfl, HandlerInv, NapiInv, EnabledInv, RmwInv, LatchInv,
         QueueInv, RsflServiceable, FilterApplied, RxStopInv
    <2>2. LifecycleInv'
      BY <1>8 DEF PollAck, AckRsfl, LifecycleInv, LatchInv
    <2>3. TxInv'
      BY <1>8, RxAssumption, TxAssumption DEF PollAck, AckRsfl, TypeOK, TxInv
    <2> QED BY <2>1, <2>2, <2>3 DEF InvParts
  <1>9. CASE PollComplete
    <2>1. (HandlerInv /\ NapiInv /\ LifecycleInv /\ EnabledInv /\ RmwInv /\ LatchInv /\
       QueueInv /\ RsflServiceable /\ FilterApplied /\ RxStopInv /\ TxInv)'
      BY <1>9 DEF PollComplete, NapiComplete, HandlerInv, NapiInv, LifecycleInv, EnabledInv,
         RmwInv, LatchInv, QueueInv, RsflServiceable, FilterApplied, RxStopInv, TxInv
    <2> QED BY <2>1 DEF InvParts
  <1>10. CASE PollEnRead
    <2>1. (HandlerInv /\ NapiInv /\ LifecycleInv /\ EnabledInv /\ RmwInv /\ LatchInv /\
       QueueInv /\ RsflServiceable /\ FilterApplied /\ RxStopInv /\ TxInv)'
      BY <1>10 DEF PollEnRead, HandlerInv, NapiInv, LifecycleInv, EnabledInv, RmwInv,
         LatchInv, QueueInv, RsflServiceable, FilterApplied, RxStopInv, TxInv
    <2> QED BY <2>1 DEF InvParts
  <1>11. CASE PollEnWrite
    <2>1. (HandlerInv /\ LifecycleInv /\ RmwInv /\ LatchInv /\ QueueInv /\ FilterApplied /\
       RxStopInv /\ TxInv)'
      BY <1>11 DEF PollEnWrite, UnmaskRsfl, HandlerInv, LifecycleInv, RmwInv, LatchInv,
         QueueInv, FilterApplied, RxStopInv, TxInv
    <2>2. NapiInv'
      BY <1>11 DEF PollEnWrite, UnmaskRsfl, TypeOK, NapiInv
    <2>3. EnabledInv'
      BY <1>11 DEF PollEnWrite, UnmaskRsfl, HandlerInv, EnabledInv, RmwInv
    <2>4. RsflServiceable'
      BY <1>11 DEF PollEnWrite, UnmaskRsfl, NapiInv, LifecycleInv, RsflServiceable
    <2> QED BY <2>1, <2>2, <2>3, <2>4 DEF InvParts
  <1>12. CASE PollReturn
    <2>1. (HandlerInv /\ NapiInv /\ LifecycleInv /\ RmwInv /\ QueueInv /\ RsflServiceable /\
       FilterApplied /\ RxStopInv /\ TxInv)'
      BY <1>12 DEF PollReturn, NapiComplete, HandlerInv, NapiInv, LifecycleInv, RmwInv,
         QueueInv, RsflServiceable, FilterApplied, RxStopInv, TxInv
    <2>2. EnabledInv'
      BY <1>12 DEF PollReturn, NapiComplete, NapiInv, EnabledInv
    <2>3. LatchInv'
      BY <1>12 DEF PollReturn, NapiComplete, NapiInv, LatchInv
    <2> QED BY <2>1, <2>2, <2>3 DEF InvParts
  <1> QED BY <1>1, <1>2, <1>3, <1>4, <1>5, <1>6, <1>7, <1>8, <1>9, <1>10, <1>11, <1>12 DEF
     Poll

\* Every step of Xmit preserves the invariant.
LEMMA IInv_Xmit == IInv /\ Xmit => InvParts'
  <1> SUFFICES ASSUME IInv, Xmit PROVE InvParts'
    OBVIOUS
  <1> USE DEF IInv, NapiOff, Resetting, Enabled, StopPcs, XmitPcs, McPcs, TxOff, BhAt, Level,
              NapiSchedulePrep, chip, napi, drv, irqCtx, bhCtx, procCtx
  <1>1. CASE XmitFromProcess
    <2>1. (HandlerInv /\ NapiInv /\ LifecycleInv /\ EnabledInv /\ RmwInv /\ LatchInv /\
       QueueInv /\ RsflServiceable /\ FilterApplied /\ RxStopInv)'
      BY <1>1 DEF XmitFromProcess, XmitStart, HandlerInv, NapiInv, LifecycleInv, EnabledInv,
         RmwInv, LatchInv, QueueInv, RsflServiceable, FilterApplied, RxStopInv
    <2>2. TxInv'
      BY <1>1 DEF XmitFromProcess, XmitStart, TypeOK, TxInv
    <2> QED BY <2>1, <2>2 DEF InvParts
  <1>2. CASE XmitFromPoll
    <2>1. (HandlerInv /\ NapiInv /\ LifecycleInv /\ EnabledInv /\ RmwInv /\ LatchInv /\
       QueueInv /\ RsflServiceable /\ FilterApplied /\ RxStopInv)'
      BY <1>2 DEF XmitFromPoll, XmitStart, HandlerInv, NapiInv, LifecycleInv, EnabledInv,
         RmwInv, LatchInv, QueueInv, RsflServiceable, FilterApplied, RxStopInv
    <2>2. TxInv'
      BY <1>2 DEF XmitFromPoll, XmitStart, TypeOK, TxInv
    <2> QED BY <2>1, <2>2 DEF InvParts
  <1>3. CASE XmitSpace
    <2>1. (HandlerInv /\ NapiInv /\ LifecycleInv /\ EnabledInv /\ RmwInv /\ LatchInv /\
       QueueInv /\ RsflServiceable /\ FilterApplied /\ RxStopInv)'
      BY <1>3 DEF XmitSpace, HandlerInv, NapiInv, LifecycleInv, EnabledInv, RmwInv,
         LatchInv, QueueInv, RsflServiceable, FilterApplied, RxStopInv
    <2>2. TxInv'
      BY <1>3 DEF XmitSpace, TypeOK, TxInv
    <2> QED BY <2>1, <2>2 DEF InvParts
  <1>4. CASE XmitWrite
    <2>1. (HandlerInv /\ LifecycleInv /\ EnabledInv /\ QueueInv /\ RsflServiceable /\
       FilterApplied /\ RxStopInv)'
      BY <1>4 DEF XmitWrite, QueueMustStop, Sub, HandlerInv, LifecycleInv, EnabledInv,
         QueueInv, RsflServiceable, FilterApplied, RxStopInv
    <2>2. NapiInv'
      BY <1>4 DEF XmitWrite, QueueMustStop, Sub, TypeOK, NapiInv
    <2>3. RmwInv'
      BY <1>4 DEF XmitWrite, QueueMustStop, Sub, TypeOK, RmwInv
    <2>4. LatchInv'
      BY <1>4, RxAssumption, TxAssumption DEF XmitWrite, QueueMustStop, Sub, TypeOK,
         LatchInv
    <2>5. TxInv'
      BY <1>4, RxAssumption, TxAssumption DEF XmitWrite, QueueMustStop, Sub, TypeOK, TxInv
    <2> QED BY <2>1, <2>2, <2>3, <2>4, <2>5 DEF InvParts
  <1>5. CASE XmitStopQueue
    <2>1. (HandlerInv /\ NapiInv /\ LifecycleInv /\ EnabledInv /\ RmwInv /\ LatchInv /\
       QueueInv /\ RsflServiceable /\ FilterApplied /\ RxStopInv /\ TxInv)'
      BY <1>5 DEF XmitStopQueue, HandlerInv, NapiInv, LifecycleInv, EnabledInv, RmwInv,
         LatchInv, QueueInv, RsflServiceable, FilterApplied, RxStopInv, TxInv
    <2> QED BY <2>1 DEF InvParts
  <1>6. CASE XmitArm
    <2>1. (HandlerInv /\ LifecycleInv /\ EnabledInv /\ QueueInv /\ RsflServiceable /\
       FilterApplied /\ RxStopInv)'
      BY <1>6 DEF XmitArm, TxArmLevel, HandlerInv, LifecycleInv, EnabledInv, QueueInv,
         RsflServiceable, FilterApplied, RxStopInv
    <2>2. NapiInv'
      BY <1>6 DEF XmitArm, TxArmLevel, TypeOK, NapiInv
    <2>3. RmwInv'
      BY <1>6 DEF XmitArm, TxArmLevel, TypeOK, RmwInv
    <2>4. LatchInv'
      BY <1>6 DEF XmitArm, TxArmLevel, TypeOK, LatchInv
    <2>5. TxInv'
      BY <1>6 DEF XmitArm, TxArmLevel, TypeOK, TxInv
    <2> QED BY <2>1, <2>2, <2>3, <2>4, <2>5 DEF InvParts
  <1> QED BY <1>1, <1>2, <1>3, <1>4, <1>5, <1>6 DEF Xmit

\* Every step of SetMulticastList preserves the invariant.
LEMMA IInv_SetMulticastList == IInv /\ SetMulticastList => InvParts'
  <1> SUFFICES ASSUME IInv, SetMulticastList PROVE InvParts'
    OBVIOUS
  <1> USE DEF IInv, NapiOff, Resetting, Enabled, StopPcs, XmitPcs, McPcs, TxOff, BhAt, Level,
              NapiSchedulePrep, chip, napi, drv, irqCtx, bhCtx, procCtx
  <1>1. CASE McFromProcess
    <2>1. (HandlerInv /\ NapiInv /\ LifecycleInv /\ EnabledInv /\ RmwInv /\ LatchInv /\
       QueueInv /\ RsflServiceable /\ FilterApplied /\ RxStopInv /\ TxInv)'
      BY <1>1 DEF McFromProcess, McStart, FilterFor, HandlerInv, NapiInv, LifecycleInv,
         EnabledInv, RmwInv, LatchInv, QueueInv, RsflServiceable, FilterApplied, RxStopInv,
         TxInv
    <2> QED BY <2>1 DEF InvParts
  <1>2. CASE McFromPoll
    <2>1. (HandlerInv /\ NapiInv /\ LifecycleInv /\ EnabledInv /\ RmwInv /\ LatchInv /\
       QueueInv /\ RsflServiceable /\ FilterApplied /\ RxStopInv /\ TxInv)'
      BY <1>2 DEF McFromPoll, McStart, FilterFor, HandlerInv, NapiInv, LifecycleInv,
         EnabledInv, RmwInv, LatchInv, QueueInv, RsflServiceable, FilterApplied, RxStopInv,
         TxInv
    <2> QED BY <2>1 DEF InvParts
  <1>3. CASE McMask
    <2>1. (HandlerInv /\ NapiInv /\ LifecycleInv /\ EnabledInv /\ RmwInv /\ LatchInv /\
       QueueInv /\ RsflServiceable /\ FilterApplied /\ RxStopInv /\ TxInv)'
      BY <1>3 DEF McMask, HandlerInv, NapiInv, LifecycleInv, EnabledInv, RmwInv, LatchInv,
         QueueInv, RsflServiceable, FilterApplied, RxStopInv, TxInv
    <2> QED BY <2>1 DEF InvParts
  <1>4. CASE McHash
    <2>1. (HandlerInv /\ NapiInv /\ LifecycleInv /\ EnabledInv /\ RmwInv /\ LatchInv /\
       QueueInv /\ RsflServiceable /\ FilterApplied /\ RxStopInv /\ TxInv)'
      BY <1>4 DEF McHash, HandlerInv, NapiInv, LifecycleInv, EnabledInv, RmwInv, LatchInv,
         QueueInv, RsflServiceable, FilterApplied, RxStopInv, TxInv
    <2> QED BY <2>1 DEF InvParts
  <1>5. CASE McLocked
    <2>1. (HandlerInv /\ LifecycleInv /\ EnabledInv /\ QueueInv /\ RsflServiceable /\
       FilterApplied /\ RxStopInv)'
      BY <1>5 DEF McLocked, MulticastUpdate, UpdatesAtOnce, NoReq, HandlerInv, LifecycleInv,
         EnabledInv, QueueInv, RsflServiceable, FilterApplied, RxStopInv
    <2>2. NapiInv'
      BY <1>5 DEF McLocked, MulticastUpdate, UpdatesAtOnce, NoReq, TypeOK, NapiInv
    <2>3. RmwInv'
      BY <1>5 DEF McLocked, MulticastUpdate, UpdatesAtOnce, NoReq, TypeOK, RmwInv
    <2>4. LatchInv'
      BY <1>5 DEF McLocked, MulticastUpdate, UpdatesAtOnce, NoReq, TypeOK, LatchInv
    <2>5. TxInv'
      BY <1>5 DEF McLocked, MulticastUpdate, UpdatesAtOnce, NoReq, TypeOK, TxInv
    <2> QED BY <2>1, <2>2, <2>3, <2>4, <2>5 DEF InvParts
  <1> QED BY <1>1, <1>2, <1>3, <1>4, <1>5 DEF SetMulticastList

\* Every step of Open preserves the invariant.
LEMMA IInv_Open == IInv /\ Open => InvParts'
  <1> SUFFICES ASSUME IInv, Open PROVE InvParts'
    OBVIOUS
  <1> USE DEF IInv, NapiOff, Resetting, Enabled, StopPcs, XmitPcs, McPcs, TxOff, ProcAt, Level,
              NapiSchedulePrep, chip, napi, drv, irqCtx, bhCtx, procCtx
  <1>1. CASE OpenReset
    <2>1. (HandlerInv /\ NapiInv /\ LifecycleInv /\ EnabledInv /\ RmwInv /\ QueueInv /\
       RsflServiceable /\ FilterApplied /\ RxStopInv /\ TxInv)'
      BY <1>1 DEF OpenReset, ChipReset, HandlerInv, NapiInv, LifecycleInv, EnabledInv,
         RmwInv, QueueInv, RsflServiceable, FilterApplied, RxStopInv, TxInv
    <2>2. LatchInv'
      BY <1>1, RxAssumption, TxAssumption DEF OpenReset, ChipReset, TypeOK, LatchInv
    <2> QED BY <2>1, <2>2 DEF InvParts
  <1>2. CASE OpenResetFails
    <2>1. (HandlerInv /\ NapiInv /\ LifecycleInv /\ EnabledInv /\ RmwInv /\ QueueInv /\
       RsflServiceable /\ FilterApplied /\ RxStopInv /\ TxInv)'
      BY <1>2 DEF OpenResetFails, ChipReset, HandlerInv, NapiInv, LifecycleInv, EnabledInv,
         RmwInv, QueueInv, RsflServiceable, FilterApplied, RxStopInv, TxInv
    <2>2. LatchInv'
      BY <1>2, RxAssumption, TxAssumption DEF OpenResetFails, ChipReset, TypeOK, LatchInv
    <2> QED BY <2>1, <2>2 DEF InvParts
  <1>3. CASE OpenInitIrqs
    <2>1. (HandlerInv /\ NapiInv /\ EnabledInv /\ RmwInv /\ LatchInv /\ QueueInv /\
       RsflServiceable /\ FilterApplied /\ RxStopInv)'
      BY <1>3 DEF OpenInitIrqs, HandlerInv, NapiInv, EnabledInv, RmwInv, LatchInv, QueueInv,
         RsflServiceable, FilterApplied, RxStopInv
    <2>2. LifecycleInv'
      BY <1>3, RxAssumption, TxAssumption DEF OpenInitIrqs, TypeOK, LifecycleInv
    <2>3. TxInv'
      BY <1>3 DEF OpenInitIrqs, TypeOK, TxInv
    <2> QED BY <2>1, <2>2, <2>3 DEF InvParts
  <1>4. CASE OpenSwRead
    <2>1. (HandlerInv /\ NapiInv /\ LifecycleInv /\ EnabledInv /\ RmwInv /\ LatchInv /\
       QueueInv /\ RsflServiceable /\ FilterApplied /\ RxStopInv /\ TxInv)'
      BY <1>4 DEF OpenSwRead, HandlerInv, NapiInv, LifecycleInv, EnabledInv, RmwInv,
         LatchInv, QueueInv, RsflServiceable, FilterApplied, RxStopInv, TxInv
    <2> QED BY <2>1 DEF InvParts
  <1>5. CASE OpenSwWrite
    <2>1. (HandlerInv /\ LifecycleInv /\ EnabledInv /\ RmwInv /\ LatchInv /\ QueueInv /\
       FilterApplied /\ RxStopInv /\ TxInv)'
      BY <1>5 DEF OpenSwWrite, HandlerInv, LifecycleInv, EnabledInv, RmwInv, LatchInv,
         QueueInv, FilterApplied, RxStopInv, TxInv
    <2>2. NapiInv'
      BY <1>5 DEF OpenSwWrite, NapiInv, LifecycleInv
    <2>3. RsflServiceable'
      BY <1>5 DEF OpenSwWrite, LifecycleInv, RsflServiceable
    <2> QED BY <2>1, <2>2, <2>3 DEF InvParts
  <1>6. CASE OpenIrqSeen
    <2>1. (HandlerInv /\ NapiInv /\ LifecycleInv /\ EnabledInv /\ LatchInv /\ QueueInv /\
       RsflServiceable /\ FilterApplied /\ RxStopInv /\ TxInv)'
      BY <1>6 DEF OpenIrqSeen, HandlerInv, NapiInv, LifecycleInv, EnabledInv, LatchInv,
         QueueInv, RsflServiceable, FilterApplied, RxStopInv, TxInv
    <2>2. RmwInv'
      BY <1>6 DEF OpenIrqSeen, LifecycleInv, RmwInv
    <2> QED BY <2>1, <2>2 DEF InvParts
  <1>7. CASE OpenIrqTimeout
    <2>1. (HandlerInv /\ NapiInv /\ LifecycleInv /\ EnabledInv /\ RmwInv /\ LatchInv /\
       QueueInv /\ RsflServiceable /\ FilterApplied /\ RxStopInv /\ TxInv)'
      BY <1>7 DEF OpenIrqTimeout, HandlerInv, NapiInv, LifecycleInv, EnabledInv, RmwInv,
         LatchInv, QueueInv, RsflServiceable, FilterApplied, RxStopInv, TxInv
    <2> QED BY <2>1 DEF InvParts
  <1>8. CASE OpenConfig
    <2>1. (HandlerInv /\ NapiInv /\ LifecycleInv /\ EnabledInv /\ RmwInv /\ QueueInv /\
       RsflServiceable /\ FilterApplied /\ RxStopInv /\ TxInv)'
      BY <1>8 DEF OpenConfig, HandlerInv, NapiInv, LifecycleInv, EnabledInv, RmwInv,
         QueueInv, RsflServiceable, FilterApplied, RxStopInv, TxInv
    <2>2. LatchInv'
      BY <1>8 DEF OpenConfig, LifecycleInv, LatchInv
    <2> QED BY <2>1, <2>2 DEF InvParts
  <1>9. CASE OpenNapiEnable
    <2>1. (HandlerInv /\ LifecycleInv /\ EnabledInv /\ RmwInv /\ LatchInv /\ QueueInv /\
       RsflServiceable /\ FilterApplied /\ RxStopInv /\ TxInv)'
      BY <1>9 DEF OpenNapiEnable, HandlerInv, LifecycleInv, EnabledInv, RmwInv, LatchInv,
         QueueInv, RsflServiceable, FilterApplied, RxStopInv, TxInv
    <2>2. NapiInv'
      BY <1>9 DEF OpenNapiEnable, NapiInv, LifecycleInv
    <2> QED BY <2>1, <2>2 DEF InvParts
  <1>10. CASE OpenEnRead
    <2>1. (HandlerInv /\ NapiInv /\ LifecycleInv /\ EnabledInv /\ RmwInv /\ LatchInv /\
       QueueInv /\ RsflServiceable /\ FilterApplied /\ RxStopInv /\ TxInv)'
      BY <1>10 DEF OpenEnRead, HandlerInv, NapiInv, LifecycleInv, EnabledInv, RmwInv,
         LatchInv, QueueInv, RsflServiceable, FilterApplied, RxStopInv, TxInv
    <2> QED BY <2>1 DEF InvParts
  <1>11. CASE OpenEnWrite
    <2>1. (HandlerInv /\ LifecycleInv /\ QueueInv /\ FilterApplied /\ RxStopInv /\ TxInv)'
      BY <1>11 DEF OpenEnWrite, HandlerInv, LifecycleInv, QueueInv, FilterApplied,
         RxStopInv, TxInv
    <2>2. NapiInv'
      BY <1>11 DEF OpenEnWrite, NapiInv, LifecycleInv
    <2>3. EnabledInv'
      BY <1>11 DEF OpenEnWrite, LifecycleInv, EnabledInv
    <2>4. RmwInv'
      BY <1>11 DEF OpenEnWrite, LifecycleInv, RmwInv
    <2>5. LatchInv'
      BY <1>11 DEF OpenEnWrite, LifecycleInv, LatchInv
    <2>6. RsflServiceable'
      BY <1>11 DEF OpenEnWrite, NapiInv, LifecycleInv, RsflServiceable
    <2> QED BY <2>1, <2>2, <2>3, <2>4, <2>5, <2>6 DEF InvParts
  <1>12. CASE OpenMac
    <2>1. (HandlerInv /\ NapiInv /\ LifecycleInv /\ EnabledInv /\ RmwInv /\ LatchInv /\
       QueueInv /\ RsflServiceable /\ FilterApplied /\ TxInv)'
      BY <1>12 DEF OpenMac, HandlerInv, NapiInv, LifecycleInv, EnabledInv, RmwInv, LatchInv,
         QueueInv, RsflServiceable, FilterApplied, TxInv
    <2>2. RxStopInv'
      BY <1>12 DEF OpenMac, LifecycleInv, RxStopInv
    <2> QED BY <2>1, <2>2 DEF InvParts
  <1>13. CASE OpenStartQueue
    <2>1. (HandlerInv /\ NapiInv /\ LifecycleInv /\ EnabledInv /\ RmwInv /\ LatchInv /\
       QueueInv /\ RsflServiceable /\ FilterApplied /\ RxStopInv /\ TxInv)'
      BY <1>13 DEF OpenStartQueue, HandlerInv, NapiInv, LifecycleInv, EnabledInv, RmwInv,
         LatchInv, QueueInv, RsflServiceable, FilterApplied, RxStopInv, TxInv
    <2> QED BY <2>1 DEF InvParts
  <1>14. CASE DevOpen
    <2>1. (HandlerInv /\ NapiInv /\ LifecycleInv /\ EnabledInv /\ RmwInv /\ LatchInv /\
       QueueInv /\ RsflServiceable /\ FilterApplied /\ RxStopInv)'
      BY <1>14 DEF DevOpen, FilterFor, HandlerInv, NapiInv, LifecycleInv, EnabledInv,
         RmwInv, LatchInv, QueueInv, RsflServiceable, FilterApplied, RxStopInv
    <2>2. TxInv'
      BY <1>14, RxAssumption, TxAssumption DEF DevOpen, FilterFor, TypeOK, TxInv
    <2> QED BY <2>1, <2>2 DEF InvParts
  <1> QED BY <1>1, <1>2, <1>3, <1>4, <1>5, <1>6, <1>7, <1>8, <1>9, <1>10, <1>11, <1>12,
     <1>13, <1>14 DEF Open

\* Every step of Stop preserves the invariant.
LEMMA IInv_Stop == IInv /\ Stop => InvParts'
  <1> SUFFICES ASSUME IInv, Stop PROVE InvParts'
    OBVIOUS
  <1> USE DEF IInv, NapiOff, Resetting, Enabled, StopPcs, XmitPcs, McPcs, TxOff, ProcAt, Level,
              NapiSchedulePrep, chip, napi, drv, irqCtx, bhCtx, procCtx
  <1>1. CASE StopIrqs
    <2>1. (HandlerInv /\ NapiInv /\ LifecycleInv /\ EnabledInv /\ RmwInv /\ LatchInv /\
       QueueInv /\ RsflServiceable /\ FilterApplied /\ RxStopInv /\ TxInv)'
      BY <1>1 DEF StopIrqs, HandlerInv, NapiInv, LifecycleInv, EnabledInv, RmwInv, LatchInv,
         QueueInv, RsflServiceable, FilterApplied, RxStopInv, TxInv
    <2> QED BY <2>1 DEF InvParts
  <1>2. CASE StopQueue
    <2>1. (HandlerInv /\ NapiInv /\ LifecycleInv /\ EnabledInv /\ RmwInv /\ LatchInv /\
       QueueInv /\ RsflServiceable /\ FilterApplied /\ RxStopInv /\ TxInv)'
      BY <1>2 DEF StopQueue, HandlerInv, NapiInv, LifecycleInv, EnabledInv, RmwInv,
         LatchInv, QueueInv, RsflServiceable, FilterApplied, RxStopInv, TxInv
    <2> QED BY <2>1 DEF InvParts
  <1>3. CASE StopNapiDisable
    <2>1. (HandlerInv /\ NapiInv /\ LifecycleInv /\ EnabledInv /\ RmwInv /\ LatchInv /\
       QueueInv /\ FilterApplied /\ RxStopInv /\ TxInv)'
      BY <1>3 DEF StopNapiDisable, HandlerInv, NapiInv, LifecycleInv, EnabledInv, RmwInv,
         LatchInv, QueueInv, FilterApplied, RxStopInv, TxInv
    <2>2. RsflServiceable'
      BY <1>3 DEF StopNapiDisable, LifecycleInv, RsflServiceable
    <2> QED BY <2>1, <2>2 DEF InvParts
  <1>4. CASE StopNapiWait
    <2>1. (HandlerInv /\ NapiInv /\ EnabledInv /\ RmwInv /\ LatchInv /\ QueueInv /\
       FilterApplied /\ RxStopInv /\ TxInv)'
      BY <1>4 DEF StopNapiWait, NapiReleased, HandlerInv, NapiInv, EnabledInv, RmwInv,
         LatchInv, QueueInv, FilterApplied, RxStopInv, TxInv
    <2>2. LifecycleInv'
      BY <1>4 DEF StopNapiWait, NapiReleased, NapiInv, LifecycleInv
    <2>3. RsflServiceable'
      BY <1>4 DEF StopNapiWait, NapiReleased, LifecycleInv, RsflServiceable
    <2> QED BY <2>1, <2>2, <2>3 DEF InvParts
  <1> QED BY <1>1, <1>2, <1>3, <1>4 DEF Stop

-----------------------------------------------------------------------------
(* Theorems.                                                                *)

\* The state after probe satisfies the invariant.
LEMMA InitIInv == Init => IInv
  <1> SUFFICES ASSUME Init PROVE IInv
    OBVIOUS
  <1>1. TypeOK
    <2>1. rx \in 0..RxCap /\ txFree \in 0..TxSize /\ work \in 0..Budget /\ space \in 0..TxSize
      BY RxAssumption, TxAssumption DEF Init
    <2>2. req \in [mask : Masks, hash : SUBSET HashBits]
      BY DEF Init, NoReq, Masks
    <2>3. intSts \in SUBSET Sources
      BY DEF Init, Sources
    <2> QED BY <2>1, <2>2, <2>3 DEF Init, TypeOK, Masks, TxOff
  <1>2. InvParts
    BY TxAssumption DEF Init, InvParts, HandlerInv, NapiInv, LifecycleInv, EnabledInv, RmwInv,
       LatchInv, QueueInv, RsflServiceable, FilterApplied, RxStopInv, TxInv, Resetting,
       NapiOff, Enabled, StopPcs, XmitPcs, McPcs, TxOff
  <1> QED BY <1>1, <1>2 DEF IInv, InvParts

\* Every step preserves the types.
LEMMA NextTypeOK == TypeOK /\ [Next]_vars => TypeOK'
  <1> SUFFICES ASSUME TypeOK, [Next]_vars PROVE TypeOK'
    OBVIOUS
  <1>1. CASE UNCHANGED vars
    BY <1>1 DEF vars, TypeOK
  <1>2. CASE Next
    BY <1>2, TypeOK_Chip, TypeOK_IrqHandler, TypeOK_Poll, TypeOK_Xmit,
       TypeOK_SetMulticastList, TypeOK_Open, TypeOK_Stop DEF Next, BottomHalf, Process
  <1> QED BY <1>1, <1>2

\* Every step preserves the invariant.
LEMMA NextIInv == IInv /\ [Next]_vars => IInv'
  <1> SUFFICES ASSUME IInv, [Next]_vars PROVE IInv'
    OBVIOUS
  <1>1. TypeOK'
    BY NextTypeOK DEF IInv
  <1>2. InvParts'
    <2>1. CASE UNCHANGED vars
      BY <2>1 DEF vars, IInv, InvParts, HandlerInv, NapiInv, LifecycleInv, EnabledInv, RmwInv,
         LatchInv, QueueInv, RsflServiceable, NapiSchedulePrep, FilterApplied, RxStopInv, TxInv
    <2>2. CASE Next
      BY <2>2, IInv_Chip, IInv_IrqHandler, IInv_Poll, IInv_Xmit, IInv_SetMulticastList,
         IInv_Open, IInv_Stop DEF Next, BottomHalf, Process
    <2> QED BY <2>1, <2>2
  <1> QED BY <1>1, <1>2 DEF IInv, InvParts

\* Type correctness: registers, NAPI state, driver data and the locals of every
\* handler keep their types, for every size of FIFO, budget and packet.
THEOREM TypeCorrect == Spec => []TypeOK
  <1>1. Init => TypeOK
    BY InitIInv DEF IInv
  <1>2. TypeOK /\ [Next]_vars => TypeOK'
    BY NextTypeOK
  <1> QED BY <1>1, <1>2, PTL DEF Spec

\* The inductive invariant holds in every reachable state.
THEOREM Invariance == Spec => []IInv
  <1> QED BY InitIInv, NextIInv, PTL DEF Spec

\* No interrupt storm: an RSFL interrupt that can reach the CPU is always turned
\* into a poll (irqhandler against open, stop and poll).
THEOREM RsflAlwaysServiceable == Spec => []RsflServiceable
  <1>1. IInv => RsflServiceable
    BY DEF IInv
  <1> QED BY <1>1, Invariance, PTL

\* No received packet is left without a poll or an interrupt (poll's acknowledge,
\* complete, unmask sequence against packets that arrive in between).
THEOREM NoPacketStranded == Spec => []RxNotStranded
  <1>1. IInv => RxNotStranded
    BY DEF IInv, RxNotStranded, LatchInv, EnabledInv, Enabled
  <1> QED BY <1>1, Invariance, PTL

\* The poll leaves no stale RSFL status behind.
THEOREM RsflNeverStale == Spec => []NoStaleRsfl
  <1>1. IInv => NoStaleRsfl
    BY DEF IInv, NoStaleRsfl, LatchInv, Enabled
  <1> QED BY <1>1, Invariance, PTL

\* No lost wake-up: a stopped transmit queue of a running interface has its TDFA
\* interrupt armed and enabled, replies to challenges included.
THEOREM NoLostWakeup == Spec => []TxWakeArmed
  <1>1. IInv => TxWakeArmed
    BY DEF IInv, TxWakeArmed, QueueInv, EnabledInv, Enabled
  <1> QED BY <1>1, Invariance, PTL

\* No read-modify-write of INT_EN brings SW_INT_EN back after the test in open.
THEOREM SwIntStaysMasked == Spec => []SwTestOver
  <1>1. IInv => SwTestOver
    BY DEF IInv, SwTestOver, RmwInv, Enabled
  <1> QED BY <1>1, Invariance, PTL

\* A closed interface owns its NAPI context, and no poll is scheduled or runs.
THEOREM ClosedStaysQuiet == Spec => []ClosedIsQuiet
  <1>1. IInv => ClosedIsQuiet
    BY DEF IInv, ClosedIsQuiet, LifecycleInv, NapiInv, NapiOff
  <1> QED BY <1>1, Invariance, PTL

\* A poll that returns its whole budget has not touched the NAPI state.
THEOREM FullBudgetContract == Spec => []FullBudgetKeepsNapi
  <1>1. IInv => FullBudgetKeepsNapi
    BY DEF IInv, FullBudgetKeepsNapi, NapiInv
  <1> QED BY <1>1, Invariance, PTL

\* With no update pending the chip filters what was last asked for, on every
\* generation of the chip, although set_multicast_list writes its masks and
\* hashes before it takes the lock.
THEOREM FilterFollows == Spec => []FilterApplied
  <1>1. IInv => FilterApplied
    BY DEF IInv
  <1> QED BY <1>1, Invariance, PTL

\* Generation 0 and 1 chips are reprogrammed only while the receiver is stopped.
THEOREM OldChipsUpdatedStopped == Spec => UpdateOnlyWhenRxStopped
  <1>1. ASSUME IInv, [Next]_vars, Generation <= 1, proc # "down",
               <<maskReg, hashReg>>' # <<maskReg, hashReg>>
        PROVE  ~rxActive
    <2>1. CASE IrqRxStop
      BY <1>1, <2>1 DEF IInv, IrqRxStop, HandlerInv, RxStopInv
    <2>2. CASE McLocked
      BY <1>1, <2>2, FlagsAssumption DEF McLocked, UpdatesAtOnce
    <2>3. CASE OpenReset \/ OpenResetFails
      BY <1>1, <2>3 DEF OpenReset, OpenResetFails, ProcAt
    <2>4. CASE Chip \/ IrqEnter \/ IrqSw \/ IrqTdfa \/ IrqRsfl
      BY <1>1, <2>4 DEF Chip, PktArrives, TxDrains, RxStops, IrqEnter, IrqSw, IrqTdfa, IrqRsfl,
         chip
    <2>5. CASE Poll
      BY <1>1, <2>5 DEF Poll, PollStart, PollPacket, PollStackReturns, PollNoMem, PollChallenge,
         PollBudget, PollEmpty, PollAck, PollComplete, PollEnRead, PollEnWrite, PollReturn, chip
    <2>6. CASE Xmit
      BY <1>1, <2>6 DEF Xmit, XmitFromProcess, XmitFromPoll, XmitStart, XmitSpace, XmitWrite,
         XmitStopQueue, XmitArm, chip
    <2>7. CASE McFromProcess \/ McFromPoll \/ McMask \/ McHash
      BY <1>1, <2>7 DEF McFromProcess, McFromPoll, McStart, McMask, McHash, chip
    <2>8. CASE OpenInitIrqs \/ OpenSwRead \/ OpenSwWrite \/ OpenIrqSeen \/ OpenIrqTimeout
               \/ OpenConfig \/ OpenNapiEnable \/ OpenEnRead \/ OpenEnWrite \/ OpenMac
               \/ OpenStartQueue \/ DevOpen
      BY <1>1, <2>8 DEF OpenInitIrqs, OpenSwRead, OpenSwWrite, OpenIrqSeen, OpenIrqTimeout,
         OpenConfig, OpenNapiEnable, OpenEnRead, OpenEnWrite, OpenMac, OpenStartQueue, DevOpen,
         chip
    <2>9. CASE Stop
      BY <1>1, <2>9 DEF Stop, StopIrqs, StopQueue, StopNapiDisable, StopNapiWait, chip
    <2>10. CASE UNCHANGED vars
      BY <1>1, <2>10 DEF vars
    <2> QED BY <1>1, <2>1, <2>2, <2>3, <2>4, <2>5, <2>6, <2>7, <2>8, <2>9, <2>10
            DEF Next, IrqHandler, BottomHalf, SetMulticastList, Process, Open
  <1>2. IInv /\ [Next]_vars =>
          [Generation <= 1 /\ proc # "down" /\ <<maskReg, hashReg>>' # <<maskReg, hashReg>>
             => ~rxActive]_vars
    BY <1>1
  <1> QED BY <1>2, Invariance, PTL DEF Spec, UpdateOnlyWhenRxStopped

\* Without challenges no packet overruns the TX data FIFO: the threshold, the
\* unsigned estimate of the free space and the queue's stop and wake suffice.
THEOREM StackNeverOverruns ==
    ASSUME ~Vet
    PROVE  Spec => []NoTxOverrun
  <1>1. IInv => NoTxOverrun
    BY TxAssumption DEF IInv, NoTxOverrun, TxInv, TypeOK, XmitPcs
  <1> QED BY <1>1, Invariance, PTL

\* Without challenges a running queue is woken only when a packet of any length
\* fits (the TDFA level against TX_FIFO_LOW_THRESHOLD).
THEOREM WokenOnlyWithRoom ==
    ASSUME ~Vet
    PROVE  Spec => WokenWithRoom
  <1>1. ASSUME IInv, [Next]_vars, proc = "up", stopped, ~stopped'
        PROVE  txFree >= TxLow
    <2>1. CASE IrqTdfa
      <3>1. "TDFA" \in irqSts
        BY <1>1, <2>1, Zenon DEF IrqTdfa
      <3>2. "TDFA" \in intSts
        BY <1>1, <2>1, <3>1 DEF IInv, IrqTdfa, HandlerInv
      <3>3. TxWake < txFree
        BY <1>1, <3>2 DEF IInv, TxInv
      <3> QED BY <1>1, <3>3, TxAssumption DEF IInv, TypeOK
    <2>2. CASE Chip \/ IrqEnter \/ IrqSw \/ IrqRxStop \/ IrqRsfl
      BY <1>1, <2>2 DEF Chip, PktArrives, TxDrains, RxStops, IrqEnter, IrqSw, IrqRxStop, IrqRsfl,
         drv
    <2>3. CASE Poll
      BY <1>1, <2>3 DEF Poll, PollStart, PollPacket, PollStackReturns, PollNoMem, PollChallenge,
         PollBudget, PollEmpty, PollAck, PollComplete, PollEnRead, PollEnWrite, PollReturn, drv
    <2>4. CASE Xmit
      BY <1>1, <2>4 DEF Xmit, XmitFromProcess, XmitFromPoll, XmitStart, XmitSpace, XmitWrite,
         XmitStopQueue, XmitArm, drv
    <2>5. CASE SetMulticastList
      BY <1>1, <2>5 DEF SetMulticastList, McFromProcess, McFromPoll, McStart, McMask, McHash,
         McLocked, drv
    <2>6. CASE Process
      BY <1>1, <2>6 DEF Process, Open, Stop, OpenReset, OpenResetFails, OpenInitIrqs, OpenSwRead,
         OpenSwWrite, OpenIrqSeen, OpenIrqTimeout, OpenConfig, OpenNapiEnable, OpenEnRead,
         OpenEnWrite, OpenMac, OpenStartQueue, DevOpen, StopIrqs, StopQueue, StopNapiDisable,
         StopNapiWait, ProcAt, drv
    <2>7. CASE UNCHANGED vars
      BY <1>1, <2>7 DEF vars
    <2> QED BY <1>1, <2>1, <2>2, <2>3, <2>4, <2>5, <2>6, <2>7
            DEF Next, IrqHandler, BottomHalf
  <1>2. IInv /\ [Next]_vars => [proc = "up" /\ stopped /\ ~stopped' => txFree >= TxLow]_vars
    BY <1>1
  <1> QED BY <1>2, Invariance, PTL DEF Spec, WokenWithRoom

=============================================================================
