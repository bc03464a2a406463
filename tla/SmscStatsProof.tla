--------------------------- MODULE SmscStatsProof ---------------------------
(***************************************************************************)
(* Proofs about the statistics, for any number of callers of get_stats and *)
(* FIFOs of any size.                                                      *)
(***************************************************************************)
EXTENDS SmscStats, TLAPS

-----------------------------------------------------------------------------
(* The inductive invariant.                                                 *)

\* What is still to be sent will need room in the status FIFO as well: a transmit
\* that leaves Drain - 1 statuses behind has filled the TX data FIFO at most.
RoomInv == inFifo + sts <= TxCap + Drain - 1

\* Without a race, one that has seen a status finds it, ...
SeenInv == \A p \in Procs : pc[p] = "pop" => sts > 0

\* ... one that is about to store the counter has loaded its present value, for
\* the one status that is popped and not counted, ...
StoreInv ==
    \A p \in Procs : pc[p] = "store" =>
        /\ copy[p] = counted /\ popped = 1
        /\ \A q \in Procs \ {p} : pc[q] # "store"

NoStoreInv == (\A p \in Procs : pc[p] # "store") => popped = 0

\* ... and the same of rx_dropped and what was read from RX_DROP.
DropInv ==
    \A p \in Procs : InRx(p) =>
        /\ copy[p] = dropped /\ got[p] = taken
        /\ \A q \in Procs \ {p} : ~InRx(q)

NoDropInv == (\A p \in Procs : ~InRx(p)) => taken = 0

TxInv == ~raced => SeenInv /\ StoreInv /\ NoStoreInv

RxInv == ~raced => DropInv /\ NoDropInv

IInv == TypeOK /\ RoomInv /\ TxInv /\ RxInv /\ TxCountExact /\ RxDropExact

-----------------------------------------------------------------------------
(* The invariant is inductive.                                              *)

\* The invariant holds when the driver is loaded.
LEMMA InitIInv == Init => IInv
  <1> SUFFICES ASSUME Init PROVE IInv
    OBVIOUS
  <1>1. TypeOK
    <2>1. raced \in BOOLEAN
      BY Zenon DEF Init
    <2>2. copy \in [Procs -> Nat] /\ got \in [Procs -> Nat]
      BY DEF Init
    <2> QED BY <2>1, <2>2, StatsAssumption DEF Init, TypeOK
  <1>2. RoomInv
    BY StatsAssumption DEF Init, RoomInv
  <1>3. TxInv /\ RxInv
    BY DEF Init, TxInv, RxInv, SeenInv, StoreInv, NoStoreInv, DropInv, NoDropInv, InRx
  <1>4. TxCountExact /\ RxDropExact
    BY DEF Init, TxCountExact, RxDropExact
  <1> QED BY <1>1, <1>2, <1>3, <1>4 DEF IInv

\* Steps of the chip keep the invariant.
LEMMA IInv_Chip == IInv /\ (TxDone \/ RxOverflow) => IInv'
  <1> SUFFICES ASSUME IInv, TxDone \/ RxOverflow PROVE IInv'
    OBVIOUS
  <1> USE StatsAssumption DEF txHist, rxHist
  <1>1. CASE TxDone
    <2>1. TypeOK'
      BY <1>1 DEF IInv, TypeOK, TxDone
    <2>2. RoomInv'
      BY <1>1 DEF IInv, TypeOK, RoomInv, TxDone
    <2>3. TxInv'
      BY <1>1 DEF IInv, TypeOK, TxInv, SeenInv, StoreInv, NoStoreInv, TxDone
    <2>4. RxInv'
      BY <1>1 DEF IInv, RxInv, DropInv, NoDropInv, InRx, TxDone
    <2>5. TxCountExact' /\ RxDropExact'
      BY <1>1 DEF IInv, TypeOK, TxCountExact, RxDropExact, TxDone
    <2> QED BY <2>1, <2>2, <2>3, <2>4, <2>5 DEF IInv
  <1>2. CASE RxOverflow
    <2>1. TypeOK'
      BY <1>2 DEF IInv, TypeOK, RxOverflow
    <2>2. RoomInv'
      BY <1>2 DEF IInv, RoomInv, RxOverflow
    <2>3. TxInv'
      BY <1>2 DEF IInv, TxInv, SeenInv, StoreInv, NoStoreInv, RxOverflow
    <2>4. RxInv'
      BY <1>2 DEF IInv, RxInv, DropInv, NoDropInv, InRx, RxOverflow
    <2>5. TxCountExact' /\ RxDropExact'
      BY <1>2 DEF IInv, TypeOK, TxCountExact, RxDropExact, RxOverflow
    <2> QED BY <2>1, <2>2, <2>3, <2>4, <2>5 DEF IInv
  <1> QED BY <1>1, <1>2

\* hard_start_xmit, the poll and open keep the invariant: they meet no process in
\* the middle of an update, or the race is noted.
LEMMA IInv_Driver == IInv /\ (Xmit \/ PollDrops \/ Open) => IInv'
  <1> SUFFICES ASSUME IInv, Xmit \/ PollDrops \/ Open PROVE IInv'
    OBVIOUS
  <1> USE StatsAssumption DEF txHist, rxHist
  <1>1. CASE Xmit
    <2>1. TypeOK'
      <3>1. raced' \in BOOLEAN
        BY <1>1, Zenon DEF IInv, TypeOK, Xmit
      <3> QED BY <1>1, <3>1 DEF IInv, TypeOK, Xmit
    <2>2. RoomInv'
      BY <1>1 DEF IInv, TypeOK, RoomInv, Xmit, DrainDue
    <2>3. TxInv'
      <3>1. CASE DrainDue
        BY <1>1, <3>1 DEF IInv, TypeOK, TxInv, SeenInv, StoreInv, NoStoreInv, InTx, Xmit
      <3>2. CASE ~DrainDue
        BY <1>1, <3>2 DEF IInv, TxInv, SeenInv, StoreInv, NoStoreInv, Xmit
      <3> QED BY <3>1, <3>2
    <2>4. RxInv'
      BY <1>1 DEF IInv, TypeOK, RxInv, DropInv, NoDropInv, InRx, Xmit
    <2>5. TxCountExact' /\ RxDropExact'
      BY <1>1 DEF IInv, TypeOK, TxCountExact, RxDropExact, Xmit
    <2> QED BY <2>1, <2>2, <2>3, <2>4, <2>5 DEF IInv
  <1>2. CASE PollDrops
    <2>1. TypeOK'
      BY <1>2 DEF IInv, TypeOK, PollDrops
    <2>2. RoomInv'
      BY <1>2 DEF IInv, RoomInv, PollDrops
    <2>3. TxInv'
      BY <1>2 DEF IInv, TypeOK, TxInv, SeenInv, StoreInv, NoStoreInv, PollDrops
    <2>4. RxInv'
      BY <1>2 DEF IInv, TypeOK, RxInv, DropInv, NoDropInv, InRx, PollDrops
    <2>5. TxCountExact' /\ RxDropExact'
      BY <1>2 DEF IInv, TypeOK, TxCountExact, RxDropExact, PollDrops
    <2> QED BY <2>1, <2>2, <2>3, <2>4, <2>5 DEF IInv
  <1>3. CASE Open
    <2>1. TypeOK'
      BY <1>3 DEF IInv, TypeOK, Open
    <2>2. RoomInv'
      BY <1>3 DEF IInv, TypeOK, RoomInv, Open
    <2>3. TxInv'
      BY <1>3 DEF IInv, TypeOK, TxInv, SeenInv, StoreInv, NoStoreInv, InTx, Open
    <2>4. RxInv'
      BY <1>3 DEF IInv, TypeOK, RxInv, DropInv, NoDropInv, InRx, Open
    <2>5. TxCountExact' /\ RxDropExact'
      BY <1>3 DEF IInv, TypeOK, TxCountExact, RxDropExact, Open
    <2> QED BY <2>1, <2>2, <2>3, <2>4, <2>5 DEF IInv
  <1> QED BY <1>1, <1>2, <1>3

\* Entering get_stats or stop, and looking at the status FIFO, keep the invariant.
LEMMA IInv_Enter ==
    ASSUME IInv, NEW p \in Procs, GetStats(p) \/ Stop \/ Check(p)
    PROVE  IInv'
  <1> USE StatsAssumption DEF txHist, rxHist, Goes
  <1>1. CASE GetStats(p)
    <2>1. TypeOK'
      BY <1>1 DEF IInv, TypeOK, GetStats
    <2>2. RoomInv'
      BY <1>1 DEF IInv, RoomInv, GetStats
    <2>3. TxInv'
      BY <1>1 DEF IInv, TypeOK, TxInv, SeenInv, StoreInv, NoStoreInv, GetStats
    <2>4. RxInv'
      BY <1>1 DEF IInv, TypeOK, RxInv, DropInv, NoDropInv, InRx, GetStats
    <2>5. TxCountExact' /\ RxDropExact'
      BY <1>1 DEF IInv, TxCountExact, RxDropExact, GetStats
    <2> QED BY <2>1, <2>2, <2>3, <2>4, <2>5 DEF IInv
  <1>2. CASE Stop
    <2>1. TypeOK'
      BY <1>2 DEF IInv, TypeOK, Stop
    <2>2. RoomInv'
      BY <1>2 DEF IInv, RoomInv, Stop
    <2>3. TxInv'
      BY <1>2 DEF IInv, TypeOK, TxInv, SeenInv, StoreInv, NoStoreInv, Procs, Stop
    <2>4. RxInv'
      BY <1>2 DEF IInv, TypeOK, RxInv, DropInv, NoDropInv, InRx, Procs, Stop
    <2>5. TxCountExact' /\ RxDropExact'
      BY <1>2 DEF IInv, TxCountExact, RxDropExact, Stop
    <2> QED BY <2>1, <2>2, <2>3, <2>4, <2>5 DEF IInv
  <1>3. CASE Check(p)
    <2>1. TypeOK'
      BY <1>3 DEF IInv, TypeOK, Check
    <2>2. RoomInv'
      BY <1>3 DEF IInv, RoomInv, Check
    <2>3. TxInv'
      BY <1>3 DEF IInv, TypeOK, TxInv, SeenInv, StoreInv, NoStoreInv, Check
    <2>4. RxInv'
      BY <1>3 DEF IInv, TypeOK, RxInv, DropInv, NoDropInv, InRx, Check
    <2>5. TxCountExact' /\ RxDropExact'
      BY <1>3 DEF IInv, TxCountExact, RxDropExact, Check
    <2> QED BY <2>1, <2>2, <2>3, <2>4, <2>5 DEF IInv
  <1> QED BY <1>1, <1>2, <1>3

\* Taking a status and counting it keep the invariant.
LEMMA IInv_Tx ==
    ASSUME IInv, NEW p \in Procs, Pop(p) \/ Store(p)
    PROVE  IInv'
  <1> USE StatsAssumption DEF txHist, rxHist, Goes
  <1>1. CASE Pop(p)
    <2>1. TypeOK'
      <3>1. raced' \in BOOLEAN
        BY <1>1, Zenon DEF IInv, TypeOK, Pop
      <3> QED BY <1>1, <3>1 DEF IInv, TypeOK, Pop
    <2>2. RoomInv'
      BY <1>1 DEF IInv, TypeOK, RoomInv, Pop
    <2>3. TxInv'
      <3> SUFFICES ASSUME ~raced' PROVE (SeenInv /\ StoreInv /\ NoStoreInv)'
        BY DEF TxInv
      <3>1. /\ SeenInv /\ StoreInv /\ NoStoreInv
            /\ \A q \in Procs \ {p} : pc[q] \notin {"pop", "store"}
        BY <1>1 DEF IInv, TxInv, InTx, Pop
      <3>2. sts > 0 /\ popped = 0
        BY <1>1, <3>1 DEF SeenInv, NoStoreInv, Pop
      <3>3. popped' = 1 /\ copy'[p] = counted' /\ pc'[p] = "store"
        BY <1>1, <3>2 DEF IInv, TypeOK, Pop
      <3>4. \A q \in Procs \ {p} : pc'[q] \notin {"pop", "store"}
        BY <1>1, <3>1 DEF IInv, TypeOK, Pop
      <3> QED BY <3>3, <3>4 DEF SeenInv, StoreInv, NoStoreInv
    <2>4. RxInv'
      BY <1>1 DEF IInv, TypeOK, RxInv, DropInv, NoDropInv, InRx, Pop
    <2>5. TxCountExact' /\ RxDropExact'
      BY <1>1 DEF IInv, TypeOK, TxCountExact, RxDropExact, Pop
    <2> QED BY <2>1, <2>2, <2>3, <2>4, <2>5 DEF IInv
  <1>2. CASE Store(p)
    <2>1. TypeOK'
      BY <1>2 DEF IInv, TypeOK, Store
    <2>2. RoomInv'
      BY <1>2 DEF IInv, RoomInv, Store
    <2>3. TxInv'
      BY <1>2 DEF IInv, TypeOK, TxInv, SeenInv, StoreInv, NoStoreInv, InTx, Store
    <2>4. RxInv'
      BY <1>2 DEF IInv, TypeOK, RxInv, DropInv, NoDropInv, InRx, Store
    <2>5. TxCountExact' /\ RxDropExact'
      BY <1>2 DEF IInv, TypeOK, TxInv, StoreInv, TxCountExact, RxDropExact, Store
    <2> QED BY <2>1, <2>2, <2>3, <2>4, <2>5 DEF IInv
  <1> QED BY <1>1, <1>2

\* Reading RX_DROP and adding it to the counter keep the invariant.
LEMMA IInv_Rx ==
    ASSUME IInv, NEW p \in Procs, RxRead(p) \/ RxStore(p)
    PROVE  IInv'
  <1> USE StatsAssumption DEF txHist, rxHist, Goes
  <1>1. CASE RxRead(p)
    <2>1. TypeOK'
      <3>1. raced' \in BOOLEAN
        BY <1>1, Zenon DEF IInv, TypeOK, RxRead
      <3> QED BY <1>1, <3>1 DEF IInv, TypeOK, RxRead
    <2>2. RoomInv'
      BY <1>1 DEF IInv, RoomInv, RxRead
    <2>3. TxInv'
      BY <1>1 DEF IInv, TypeOK, TxInv, SeenInv, StoreInv, NoStoreInv, RxRead
    <2>4. RxInv'
      <3> SUFFICES ASSUME ~raced' PROVE (DropInv /\ NoDropInv)'
        BY DEF RxInv
      <3>1. NoDropInv /\ \A q \in Procs \ {p} : pc[q] # "rx_store"
        BY <1>1 DEF IInv, RxInv, InRx, RxRead
      <3>2. taken = 0
        BY <1>1, <3>1 DEF NoDropInv, InRx, RxRead
      <3>3. copy'[p] = dropped' /\ got'[p] = taken' /\ pc'[p] = "rx_store"
        BY <1>1, <3>2 DEF IInv, TypeOK, RxRead
      <3>4. \A q \in Procs \ {p} : pc'[q] # "rx_store"
        BY <1>1, <3>1 DEF IInv, TypeOK, RxRead
      <3> QED BY <3>3, <3>4 DEF DropInv, NoDropInv, InRx
    <2>5. TxCountExact' /\ RxDropExact'
      BY <1>1 DEF IInv, TypeOK, TxCountExact, RxDropExact, RxRead
    <2> QED BY <2>1, <2>2, <2>3, <2>4, <2>5 DEF IInv
  <1>2. CASE RxStore(p)
    <2>1. TypeOK'
      BY <1>2 DEF IInv, TypeOK, RxStore
    <2>2. RoomInv'
      BY <1>2 DEF IInv, RoomInv, RxStore
    <2>3. TxInv'
      BY <1>2 DEF IInv, TypeOK, TxInv, SeenInv, StoreInv, NoStoreInv, RxStore
    <2>4. RxInv'
      BY <1>2 DEF IInv, TypeOK, RxInv, DropInv, NoDropInv, InRx, RxStore
    <2>5. TxCountExact' /\ RxDropExact'
      BY <1>2 DEF IInv, TypeOK, RxInv, DropInv, InRx, TxCountExact, RxDropExact, RxStore
    <2> QED BY <2>1, <2>2, <2>3, <2>4, <2>5 DEF IInv
  <1> QED BY <1>1, <1>2

\* Every step keeps the invariant.
LEMMA NextIInv == IInv /\ [Next]_vars => IInv'
  <1> SUFFICES ASSUME IInv, [Next]_vars PROVE IInv'
    OBVIOUS
  <1>1. CASE UNCHANGED vars
    BY <1>1 DEF vars, IInv, TypeOK, RoomInv, TxInv, RxInv, SeenInv, StoreInv, NoStoreInv,
                DropInv, NoDropInv, InRx, TxCountExact, RxDropExact
  <1>2. CASE Stop
    <2>1. Stopper \in Procs
      BY DEF Procs
    <2> QED BY <1>2, <2>1, IInv_Enter
  <1> QED BY <1>1, <1>2, IInv_Chip, IInv_Driver, IInv_Enter, IInv_Tx, IInv_Rx DEF Next

\* The invariant holds throughout.
THEOREM Invariance == Spec => []IInv
  BY InitIInv, NextIInv, PTL DEF Spec

\* The TX status FIFO never overflows, whatever its size and that of the TX data
\* FIFO, if Drain - 1 statuses and a full data FIFO fit (hard_start_xmit).
THEOREM StatusFifoNeverOverflows == Spec => []StatusFifoHolds
  <1>1. IInv => StatusFifoHolds
    BY StatsAssumption DEF IInv, TypeOK, RoomInv, StatusFifoHolds
  <1> QED BY <1>1, Invariance, PTL

\* Without a race every packet is counted once (tx_update_txcounters and its
\* three callers).
THEOREM PacketsCountedOnce == Spec => []TxCountExact
  <1>1. IInv => TxCountExact
    BY DEF IInv
  <1> QED BY <1>1, Invariance, PTL

\* Without a race every dropped frame is counted once (get_stats, stop, poll).
THEOREM DropsCountedOnce == Spec => []RxDropExact
  <1>1. IInv => RxDropExact
    BY DEF IInv
  <1> QED BY <1>1, Invariance, PTL

=============================================================================
