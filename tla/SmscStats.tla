------------------------------ MODULE SmscStats ------------------------------
(***************************************************************************)
(* The statistics of the SMSC LAN911x driver: packets that the chip has    *)
(* sent leave a word in its TX status FIFO, which hard_start_xmit,         *)
(* get_stats and stop empty into dev->stats; frames that the chip had no   *)
(* room for are in RX_DROP, which is cleared when read, and those that the *)
(* poll drops are added to the same counter.                               *)
(*                                                                         *)
(* Nothing is locked. hard_start_xmit and the poll run with bottom halves  *)
(* disabled and interrupt the processes that call get_stats and stop; the  *)
(* kernel is preemptible, so those interrupt each other. One counter stands *)
(* for all that tx_update_txcounters writes.                               *)
(***************************************************************************)
EXTENDS Naturals

CONSTANTS
    Readers,   \* processes that call get_stats
    Stopper,   \* the process that opens and closes the interface
    TxCap,     \* packets the TX data FIFO can hold
    Drain,     \* statuses that make hard_start_xmit empty the FIFO
    StsSize,   \* statuses the TX status FIFO can hold
    MaxSent,   \* bound: packets handed to the driver
    MaxDrop    \* bound: frames dropped

\* In the code 30 statuses are the limit and 128 fit, so at most 99 packets may be in
\* the 4608 bytes of the TX data FIFO. hard_start_xmit neither pads nor enforces
\* this: it holds for what the stack sends, 42 bytes or more and the
\* command words, and not for raw frames of 14 to 20 bytes, which are left out.
ASSUME StatsAssumption ==
    /\ Stopper \notin Readers
    /\ TxCap \in Nat /\ Drain \in Nat \ {0} /\ StsSize \in Nat
    /\ MaxSent \in Nat /\ MaxDrop \in Nat
    /\ Drain - 1 + TxCap <= StsSize

VARIABLES
    \* The chip.
    inFifo,    \* packets in the TX data FIFO
    sts,       \* words in the TX status FIFO
    rxDrop,    \* RX_DROP
    \* The driver.
    life,      \* "closed", "up" or "stopping"
    counted,   \* dev->stats: packets and errors counted from statuses
    dropped,   \* dev->stats.rx_dropped
    pc,        \* where each process is
    copy,      \* the counter it has loaded and not yet stored
    got,       \* what it has read from RX_DROP
    \* History.
    sent,      \* packets handed to hard_start_xmit
    lost,      \* packets whose status a reset has wiped out
    popped,    \* statuses taken from the FIFO and not yet counted
    drops,     \* frames dropped by the chip or by the poll
    forgotten, \* frames in RX_DROP when a reset cleared it
    taken,     \* frames read from RX_DROP and not yet counted
    raced      \* one context has touched a counter in the middle of another's update

txHist == <<sent, lost>>
rxHist == <<drops, forgotten>>
vars == <<inFifo, sts, rxDrop, life, counted, dropped, pc, copy, got,
          sent, lost, popped, drops, forgotten, taken, raced>>

-----------------------------------------------------------------------------
Procs == Readers \cup {Stopper}

TypeOK ==
    /\ inFifo \in 0..TxCap /\ sts \in Nat /\ rxDrop \in Nat
    /\ life \in {"closed", "up", "stopping"}
    /\ counted \in Nat /\ dropped \in Nat
    /\ pc \in [Procs -> {"idle", "check", "pop", "store", "rx_read", "rx_store"}]
    /\ copy \in [Procs -> Nat] /\ got \in [Procs -> Nat]
    /\ sent \in 0..MaxSent /\ lost \in Nat /\ popped \in Nat
    /\ drops \in 0..MaxDrop /\ forgotten \in Nat /\ taken \in Nat
    /\ raced \in BOOLEAN

Init ==
    /\ inFifo = 0 /\ sts = 0 /\ rxDrop = 0
    /\ life = "closed" /\ counted = 0 /\ dropped = 0
    /\ pc = [p \in Procs |-> "idle"]
    /\ copy = [p \in Procs |-> 0] /\ got = [p \in Procs |-> 0]
    /\ sent = 0 /\ lost = 0 /\ popped = 0
    /\ drops = 0 /\ forgotten = 0 /\ taken = 0
    /\ raced = FALSE

\* Processes between looking at the status FIFO and storing the counter, and
\* between loading rx_dropped and storing it.
InTx(p) == pc[p] \in {"pop", "store"}
InRx(p) == pc[p] = "rx_store"

-----------------------------------------------------------------------------
(* The chip.                                                                *)

\* A packet has been sent. stop does not turn the transmitter off.
TxDone ==
    /\ inFifo > 0
    /\ inFifo' = inFifo - 1 /\ sts' = sts + 1
    /\ UNCHANGED <<rxDrop, life, counted, dropped, pc, copy, got, txHist, popped, rxHist,
                   taken, raced>>

\* A frame finds no room. stop does not turn the receiver off either.
RxOverflow ==
    /\ drops < MaxDrop
    /\ rxDrop' = rxDrop + 1 /\ drops' = drops + 1
    /\ UNCHANGED <<inFifo, sts, life, counted, dropped, pc, copy, got, txHist, popped,
                   forgotten, taken, raced>>

-----------------------------------------------------------------------------
(* Bottom halves: a process sees none of their intermediate states.         *)

\* Mutant of DrainDue: an off-by-one that never drains a small FIFO.
DrainDueNever == sts > StsSize

\* tx_get_txstatcount(pdata) >= 30.
DrainDue == sts >= Drain

\* smsc911x_hard_start_xmit hands over a packet and may empty the status FIFO.
Xmit ==
    /\ life = "up" /\ inFifo < TxCap /\ sent < MaxSent
    /\ inFifo' = inFifo + 1 /\ sent' = sent + 1
    /\ IF DrainDue
       THEN /\ counted' = counted + sts /\ sts' = 0
            /\ raced' = (raced \/ \E p \in Procs : InTx(p))
       ELSE UNCHANGED <<counted, sts, raced>>
    /\ UNCHANGED <<rxDrop, life, dropped, pc, copy, got, lost, popped, rxHist, taken>>

\* smsc911x_poll drops a frame with an error or for lack of memory.
PollDrops ==
    /\ life = "up" /\ drops < MaxDrop
    /\ dropped' = dropped + 1 /\ drops' = drops + 1
    /\ raced' = (raced \/ \E p \in Procs : InRx(p))
    /\ UNCHANGED <<inFifo, sts, rxDrop, life, counted, pc, copy, got, txHist, popped,
                   forgotten, taken>>

-----------------------------------------------------------------------------
(* smsc911x_get_stats empties the status FIFO, then reads RX_DROP;          *)
(* smsc911x_stop does it the other way round.                               *)

Goes(p, to) == pc' = [pc EXCEPT ![p] = to]

GetStats(p) ==
    /\ p \in Readers /\ pc[p] = "idle" /\ Goes(p, "check")
    /\ UNCHANGED <<inFifo, sts, rxDrop, life, counted, dropped, copy, got, txHist, popped,
                   rxHist, taken, raced>>

\* IRQ_EN cleared, the queue stopped, napi_disable: neither transmit nor poll.
Stop ==
    /\ life = "up" /\ life' = "stopping"
    /\ pc[Stopper] = "idle" /\ Goes(Stopper, "rx_read")
    /\ UNCHANGED <<inFifo, sts, rxDrop, counted, dropped, copy, got, txHist, popped,
                   rxHist, taken, raced>>

\* tx_get_txstatus reads TX_FIFO_INF; no status ends the loop.
Check(p) ==
    /\ pc[p] = "check"
    /\ \/ sts > 0 /\ Goes(p, "pop") /\ UNCHANGED life
       \/ sts = 0 /\ p \in Readers /\ Goes(p, "rx_read") /\ UNCHANGED life
       \/ sts = 0 /\ p = Stopper /\ Goes(p, "idle") /\ life' = "closed"
    /\ UNCHANGED <<inFifo, sts, rxDrop, counted, dropped, copy, got, txHist, popped,
                   rxHist, taken, raced>>

\* Mutant of Pop: the status is read twice.
PopTwice(p) ==
    /\ pc[p] = "pop" /\ sts > 0 /\ Goes(p, "store")
    /\ sts' = IF sts > 1 THEN sts - 2 ELSE 0
    /\ popped' = popped + 1
    /\ copy' = [copy EXCEPT ![p] = counted]
    /\ raced' = (raced \/ \E q \in Procs \ {p} : InTx(q))
    /\ UNCHANGED <<inFifo, rxDrop, life, counted, dropped, got, txHist, rxHist, taken>>

\* ... reads TX_STATUS_FIFO, and the counter is loaded. Of an empty FIFO the
\* chip returns nothing or the word it returned last.
Pop(p) ==
    /\ pc[p] = "pop"
    /\ \/ /\ sts > 0 /\ Goes(p, "store")
          /\ sts' = sts - 1 /\ popped' = popped + 1
          /\ copy' = [copy EXCEPT ![p] = counted]
       \/ /\ sts = 0 /\ Goes(p, "store")
          /\ copy' = [copy EXCEPT ![p] = counted]
          /\ UNCHANGED <<sts, popped>>
       \/ /\ sts = 0 /\ Goes(p, "check")
          /\ UNCHANGED <<sts, popped, copy>>
    /\ raced' = (raced \/ \E q \in Procs \ {p} : InTx(q))
    /\ UNCHANGED <<inFifo, rxDrop, life, counted, dropped, got, txHist, rxHist, taken>>

\* The counter is stored.
Store(p) ==
    /\ pc[p] = "store" /\ Goes(p, "check")
    /\ counted' = copy[p] + 1
    /\ copy' = [copy EXCEPT ![p] = 0]
    /\ popped' = IF popped > 0 THEN popped - 1 ELSE 0
    /\ raced' = (raced \/ \E q \in Procs \ {p} : InTx(q))
    /\ UNCHANGED <<inFifo, sts, rxDrop, life, dropped, got, txHist, rxHist, taken>>

\* RX_DROP is read, which clears it, and rx_dropped is loaded ...
RxRead(p) ==
    /\ pc[p] = "rx_read" /\ Goes(p, "rx_store")
    /\ got' = [got EXCEPT ![p] = rxDrop] /\ rxDrop' = 0
    /\ taken' = taken + rxDrop
    /\ copy' = [copy EXCEPT ![p] = dropped]
    /\ raced' = (raced \/ \E q \in Procs \ {p} : InRx(q))
    /\ UNCHANGED <<inFifo, sts, life, counted, dropped, txHist, popped, rxHist>>

\* Mutant of RxStore: the register replaces the counter.
RxStoreAssigns(p) ==
    /\ pc[p] = "rx_store" /\ Goes(p, IF p = Stopper THEN "check" ELSE "idle")
    /\ dropped' = got[p]
    /\ taken' = IF taken >= got[p] THEN taken - got[p] ELSE 0
    /\ copy' = [copy EXCEPT ![p] = 0] /\ got' = [got EXCEPT ![p] = 0]
    /\ raced' = (raced \/ \E q \in Procs \ {p} : InRx(q))
    /\ UNCHANGED <<inFifo, sts, rxDrop, life, counted, txHist, popped, rxHist>>

\* ... and stored with it.
RxStore(p) ==
    /\ pc[p] = "rx_store" /\ Goes(p, IF p = Stopper THEN "check" ELSE "idle")
    /\ dropped' = copy[p] + got[p]
    /\ taken' = IF taken >= got[p] THEN taken - got[p] ELSE 0
    /\ copy' = [copy EXCEPT ![p] = 0] /\ got' = [got EXCEPT ![p] = 0]
    /\ raced' = (raced \/ \E q \in Procs \ {p} : InRx(q))
    /\ UNCHANGED <<inFifo, sts, rxDrop, life, counted, txHist, popped, rxHist>>

\* smsc911x_open: the soft reset clears FIFOs and counters of the chip; the
\* interrupt test that follows may fail.
Open ==
    /\ life = "closed" /\ life' \in {"up", "closed"}
    /\ inFifo' = 0 /\ sts' = 0 /\ lost' = lost + inFifo + sts
    /\ rxDrop' = 0 /\ forgotten' = forgotten + rxDrop
    /\ raced' = (raced \/ \E p \in Procs : InTx(p))
    /\ UNCHANGED <<counted, dropped, pc, copy, got, sent, popped, drops, taken>>

Next ==
    \/ TxDone \/ RxOverflow \/ Xmit \/ PollDrops \/ Open \/ Stop
    \/ \E p \in Procs : GetStats(p) \/ Check(p) \/ Pop(p) \/ Store(p) \/ RxRead(p) \/ RxStore(p)

Spec == Init /\ [][Next]_vars

-----------------------------------------------------------------------------
(* Properties.                                                              *)

\* The TX status FIFO does not overflow, whoever reads it (hard_start_xmit's
\* limit of 30 against the packets that may still be under way).
StatusFifoHolds == sts <= StsSize

\* Every packet is counted once: as long as no context runs in the middle of
\* another's update of the counters, what was sent is counted, or waits to
\* be counted, or was wiped out by the reset of the next open.
TxCountExact == ~raced => counted + popped + sts + inFifo + lost = sent

\* The same of frames dropped: by the chip, read from a register that
\* forgets, and by the poll.
RxDropExact == ~raced => dropped + taken + rxDrop + forgotten = drops

=============================================================================
