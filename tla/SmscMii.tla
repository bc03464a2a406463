------------------------------- MODULE SmscMii -------------------------------
(***************************************************************************)
(* The two layers of indirect register access: a MAC register is reached   *)
(* through MAC_CSR_CMD and MAC_CSR_DATA (smsc911x_mac_read, mac_write), a   *)
(* PHY register through the MAC registers MII_ACC and MII_DATA              *)
(* (smsc911x_mii_read, mii_write). Both layers start a transaction of the   *)
(* chip, poll its BUSY bit a bounded number of times and give up; mac_write *)
(* has no way to say so, and mac_read says so by 0xFFFFFFFF.                *)
(*                                                                         *)
(* mac_lock is taken with interrupts off on one CPU, so one call runs at a *)
(* time; the chip runs concurrently with it.                               *)
(***************************************************************************)
EXTENDS Integers

CONSTANTS
    PhyRegs, Values, Bits, CrOps,   \* as in MdioBus
    MacTries,   \* the 40 reads of mac_complete
    MiiTries,   \* the 100 rounds of mii_read and mii_write
    MacSlow     \* TRUE when a MAC access may outlast mac_complete

ASSUME MiiAssumption ==
    /\ MacTries \in Nat \ {0} /\ MiiTries \in Nat \ {0} /\ MacSlow \in BOOLEAN
    /\ CrOps \subseteq [set : SUBSET Bits, clear : SUBSET Bits]

VARIABLES
    \* The chip: MAC_CSR_CMD (BUSY, R_NOT_W, offset), MAC_CSR_DATA, MAC_CR,
    \* the MII transaction in progress, MII_DATA, and the PHY's registers.
    csrBusy, csrRead, csrOff, csrData, cr, miiOp, miiIdx, miiData, phy,
    \* The call in progress and where it is; rounds of its MII loop.
    op, at, rounds,
    \* The mac_read or mac_write it is in: its offset, value and reads.
    mac, macOff, macVal, tries,
    \* The result, and what the call has done to the PHY or MAC_CR (history).
    ret, val, done

csr == <<csrBusy, csrRead, csrOff, csrData>>
mii == <<miiOp, miiIdx, miiData, phy>>
inner == <<mac, macOff, macVal, tries>>
result == <<ret, val, done>>
vars == <<csrBusy, csrRead, csrOff, csrData, cr, miiOp, miiIdx, miiData, phy,
          op, at, rounds, mac, macOff, macVal, tries, ret, val, done>>

-----------------------------------------------------------------------------
NoOp == [kind |-> "none"]
Ops == [kind : {"read"}, idx : PhyRegs]
       \cup [kind : {"write"}, idx : PhyRegs, val : Values]
       \cup {[kind |-> "cr", set |-> o.set, clear |-> o.clear] : o \in CrOps}

Offsets == {"MAC_CR", "MII_ACC", "MII_DATA"}

\* What a MAC register holds or is written with. Reading MII_ACC shows its BUSY
\* bit, writing it starts a transaction.
RegValues == [cr : SUBSET Bits] \cup [busy : BOOLEAN]
             \cup [dir : {"read", "write"}, idx : PhyRegs] \cup [data : Values]

\* 0xFFFFFFFF.
Ones == [ones |-> TRUE]

MiiPcs == {"m_check", "m_data", "m_start", "m_poll", "m_val"}
CrPcs == {"cr_read", "cr_write"}

TypeOK ==
    /\ csrBusy \in BOOLEAN /\ csrRead \in BOOLEAN /\ csrOff \in Offsets
    /\ csrData \in RegValues
    /\ cr \in SUBSET Bits
    /\ miiOp \in {"none", "read", "write"} /\ miiIdx \in PhyRegs /\ miiData \in Values
    /\ phy \in [PhyRegs -> Values]
    /\ op \in Ops \cup {NoOp} /\ at \in {"idle", "ret"} \cup MiiPcs \cup CrPcs
    /\ rounds \in 0..MiiTries
    /\ mac \in {"r_entry", "r_wait", "w_entry", "w_wait", "done"}
    /\ macOff \in Offsets /\ macVal \in RegValues \cup {Ones} /\ tries \in 0..MacTries
    /\ ret \in {"none", "ok", "error"} /\ val \in Values
    /\ done \in [kind : {"read", "write"}, idx : PhyRegs, val : Values]
               \cup {NoOp, [kind |-> "cr"]}

Init ==
    /\ csrBusy = FALSE /\ csrRead = FALSE /\ csrOff = "MAC_CR"
    /\ csrData = [cr |-> {}] /\ cr = {}
    /\ miiOp = "none" /\ miiIdx \in PhyRegs /\ miiData \in Values
    /\ phy \in [PhyRegs -> Values]
    /\ op = NoOp /\ at = "idle" /\ rounds = 0
    /\ mac = "done" /\ macOff = "MAC_CR" /\ macVal = Ones /\ tries = 0
    /\ ret = "none" /\ val \in Values /\ done = NoOp

-----------------------------------------------------------------------------
(* The chip.                                                                *)

Register(off) ==
    CASE off = "MAC_CR"   -> [cr |-> cr]
      [] off = "MII_ACC"  -> [busy |-> miiOp # "none"]
      [] off = "MII_DATA" -> [data |-> miiData]

CsrReads ==
    /\ csrBusy /\ csrRead /\ csrBusy' = FALSE
    /\ csrData' = Register(csrOff)
    /\ UNCHANGED <<csrRead, csrOff, cr, mii, op, at, rounds, inner, result>>

CsrWrites ==
    /\ csrBusy /\ ~csrRead /\ csrBusy' = FALSE
    /\ \/ /\ csrOff = "MAC_CR" /\ cr' = csrData.cr
          /\ done' = IF at = "cr_write" THEN [kind |-> "cr"] ELSE done
          /\ UNCHANGED <<miiOp, miiIdx, miiData>>
       \/ /\ csrOff = "MII_ACC" /\ miiOp' = csrData.dir /\ miiIdx' = csrData.idx
          /\ UNCHANGED <<cr, miiData, done>>
       \/ /\ csrOff = "MII_DATA" /\ miiData' = csrData.data
          /\ UNCHANGED <<cr, miiOp, miiIdx, done>>
    /\ UNCHANGED <<csrRead, csrOff, csrData, phy, op, at, rounds, inner, ret, val>>

\* The MII transaction completes.
MiiDone ==
    /\ miiOp # "none" /\ miiOp' = "none"
    /\ \/ miiOp = "read" /\ miiData' = phy[miiIdx] /\ UNCHANGED phy
       \/ miiOp = "write" /\ phy' = [phy EXCEPT ![miiIdx] = miiData] /\ UNCHANGED miiData
    /\ done' = IF at \in {"m_start", "m_poll"}
               THEN [kind |-> miiOp, idx |-> miiIdx, val |-> miiData'] ELSE done
    /\ UNCHANGED <<csr, cr, miiIdx, op, at, rounds, inner, ret, val>>

\* The PHY changes a register of its own: the link comes and goes.
PhyChanges ==
    /\ \E r \in PhyRegs, v \in Values : phy' = [phy EXCEPT ![r] = v]
    /\ UNCHANGED <<csr, cr, miiOp, miiIdx, miiData, op, at, rounds, inner, result>>

Chip == CsrReads \/ CsrWrites \/ MiiDone \/ PhyChanges

-----------------------------------------------------------------------------
(* smsc911x_mac_read, smsc911x_mac_write and smsc911x_mac_complete.          *)

\* mac_read refuses a busy MAC and starts the access otherwise.
MacReadEntry ==
    /\ mac = "r_entry"
    /\ IF csrBusy
       THEN mac' = "done" /\ macVal' = Ones /\ UNCHANGED <<csrBusy, csrRead, csrOff, tries>>
       ELSE /\ mac' = "r_wait" /\ tries' = 0 /\ UNCHANGED macVal
            /\ csrBusy' = TRUE /\ csrRead' = TRUE /\ csrOff' = macOff
    /\ UNCHANGED <<csrData, cr, mii, op, at, rounds, macOff, result>>

\* mac_write gives up, silently, when the MAC is busy.
MacWriteEntry ==
    /\ mac = "w_entry"
    /\ IF csrBusy
       THEN mac' = "done" /\ UNCHANGED <<csr, tries>>
       ELSE /\ mac' = "w_wait" /\ tries' = 0
            /\ csrBusy' = TRUE /\ csrRead' = FALSE /\ csrOff' = macOff /\ csrData' = macVal
    /\ UNCHANGED <<cr, mii, op, at, rounds, macOff, macVal, result>>

\* Mutant of MacBusy: the reads are not counted.
MacBusyUncounted ==
    /\ mac \in {"r_wait", "w_wait"} /\ csrBusy
    /\ tries < MacTries
    /\ UNCHANGED vars

\* mac_complete finds the MAC busy once more. A MAC that is not slow is done
\* when it looks for the last time.
MacBusy ==
    /\ mac \in {"r_wait", "w_wait"} /\ csrBusy
    /\ tries < MacTries - (IF MacSlow THEN 0 ELSE 1)
    /\ tries' = tries + 1
    /\ UNCHANGED <<csr, cr, mii, op, at, rounds, mac, macOff, macVal, result>>

\* mac_complete times out.
MacTimeout ==
    /\ mac \in {"r_wait", "w_wait"} /\ tries = MacTries
    /\ mac' = "done"
    /\ macVal' = IF mac = "r_wait" THEN Ones ELSE macVal
    /\ UNCHANGED <<csr, cr, mii, op, at, rounds, macOff, tries, result>>

\* mac_complete succeeds, and mac_read fetches the value.
MacDone ==
    /\ mac \in {"r_wait", "w_wait"} /\ ~csrBusy /\ tries < MacTries
    /\ mac' = "done"
    /\ macVal' = IF mac = "r_wait" THEN csrData ELSE macVal
    /\ UNCHANGED <<csr, cr, mii, op, at, rounds, macOff, tries, result>>

MacAccess == MacReadEntry \/ MacWriteEntry \/ MacBusy \/ MacTimeout \/ MacDone

StartRead(off) == mac' = "r_entry" /\ macOff' = off /\ UNCHANGED <<macVal, tries>>
StartWrite(off, v) == mac' = "w_entry" /\ macOff' = off /\ macVal' = v /\ UNCHANGED tries

\* The access made at pc has returned.
Back(pc) == at = pc /\ mac = "done"

-----------------------------------------------------------------------------
(* smsc911x_mii_read and smsc911x_mii_write.                                *)

\* Mutant of AccBusy: 0xFFFFFFFF is taken for a free MII.
AccBusyNotOnes == macVal # Ones /\ macVal.busy

\* The BUSY bit of the MII_ACC just read; 0xFFFFFFFF has it too.
AccBusy == macVal # Ones => macVal.busy

MiiCall ==
    /\ at = "idle" /\ at' = "m_check"
    /\ \E o \in Ops : o.kind \in {"read", "write"} /\ op' = o
    /\ StartRead("MII_ACC")
    /\ UNCHANGED <<csr, cr, mii, rounds, result>>

\* Mutant of MiiCheck: the check of BUSY is left out.
MiiCheckNone ==
    /\ Back("m_check")
    /\ IF op.kind = "write"
       THEN at' = "m_data" /\ StartWrite("MII_DATA", [data |-> op.val])
       ELSE at' = "m_start" /\ StartWrite("MII_ACC", [dir |-> "read", idx |-> op.idx])
    /\ UNCHANGED <<csr, cr, mii, op, rounds, result>>

\* "Confirm MII not busy".
MiiCheck ==
    /\ Back("m_check")
    /\ \/ AccBusy /\ at' = "ret" /\ ret' = "error" /\ UNCHANGED inner
       \/ ~AccBusy /\ op.kind = "write" /\ at' = "m_data"
          /\ StartWrite("MII_DATA", [data |-> op.val]) /\ UNCHANGED ret
       \/ ~AccBusy /\ op.kind = "read" /\ at' = "m_start"
          /\ StartWrite("MII_ACC", [dir |-> "read", idx |-> op.idx]) /\ UNCHANGED ret
    /\ UNCHANGED <<csr, cr, mii, op, rounds, val, done>>

\* The value is in MII_DATA: start the transaction.
MiiStartWrite ==
    /\ Back("m_data") /\ at' = "m_start"
    /\ StartWrite("MII_ACC", [dir |-> "write", idx |-> op.idx])
    /\ UNCHANGED <<csr, cr, mii, op, rounds, result>>

MiiStarted ==
    /\ Back("m_start") /\ at' = "m_poll" /\ rounds' = 0
    /\ StartRead("MII_ACC")
    /\ UNCHANGED <<csr, cr, mii, op, result>>

\* The condition of the wait loop.
RoundsLeft == rounds + 1 < MiiTries

\* One round of the wait loop.
MiiPoll ==
    /\ Back("m_poll")
    /\ \/ /\ AccBusy /\ RoundsLeft
          /\ rounds' = rounds + 1
          /\ StartRead("MII_ACC") /\ UNCHANGED <<at, ret>>
       \/ AccBusy /\ ~RoundsLeft /\ at' = "ret" /\ ret' = "error" /\ UNCHANGED <<rounds, inner>>
       \/ ~AccBusy /\ op.kind = "read" /\ at' = "m_val"
          /\ StartRead("MII_DATA") /\ UNCHANGED <<rounds, ret>>
       \/ ~AccBusy /\ op.kind = "write" /\ at' = "ret" /\ ret' = "ok"
          /\ UNCHANGED <<rounds, inner>>
    /\ UNCHANGED <<csr, cr, mii, op, val, done>>

\* The value read is returned; 0xFFFFFFFF is negative, an error to the caller.
MiiValue ==
    /\ Back("m_val") /\ at' = "ret"
    /\ IF macVal = Ones THEN ret' = "error" /\ UNCHANGED val
                        ELSE ret' = "ok" /\ val' = macVal.data
    /\ UNCHANGED <<csr, cr, mii, op, rounds, inner, done>>

-----------------------------------------------------------------------------
(* The read-modify-writes of MAC_CR: smsc911x_open, set_multicast_list,      *)
(* rx_multicast_update and its workaround, phy_adjust_link.                 *)

CrCall ==
    /\ at = "idle" /\ at' = "cr_read"
    /\ \E o \in Ops : o.kind = "cr" /\ op' = o
    /\ StartRead("MAC_CR")
    /\ UNCHANGED <<csr, cr, mii, rounds, result>>

\* Mutant of CrModify: the bits to clear are forgotten.
CrModifyNoClear(old) == old \cup op.set

CrModify(old) == (old \cup op.set) \ op.clear

CrRead ==
    /\ Back("cr_read") /\ at' = "cr_write"
    /\ StartWrite("MAC_CR", [cr |-> CrModify(IF macVal = Ones THEN Bits ELSE macVal.cr)])
    /\ UNCHANGED <<csr, cr, mii, op, rounds, result>>

CrWritten ==
    /\ Back("cr_write") /\ at' = "ret" /\ ret' = "ok"
    /\ UNCHANGED <<csr, cr, mii, op, rounds, inner, val, done>>

\* The lock is released.
Return ==
    /\ at = "ret" /\ at' = "idle"
    /\ op' = NoOp /\ ret' = "none" /\ done' = NoOp
    /\ UNCHANGED <<csr, cr, mii, rounds, inner, val>>

GoesOn == MacAccess \/ MiiCheck \/ MiiStartWrite \/ MiiStarted \/ MiiPoll \/ MiiValue
          \/ CrRead \/ CrWritten \/ Return

Next == Chip \/ MiiCall \/ CrCall \/ GoesOn

Spec == Init /\ [][Next]_vars

\* The CPU runs the call; nothing is assumed of the chip.
FairSpec == Spec /\ WF_vars(GoesOn)

-----------------------------------------------------------------------------
(* Properties.                                                              *)

\* A read that succeeds returns what the PHY's register held during the call,
\* however slow the MAC is: no stale MII_DATA, no other register's value, no
\* value of an earlier call that timed out (smsc911x_mii_read).
MiiReadHonest ==
    at = "ret" /\ op.kind = "read" /\ ret = "ok" =>
        done = [kind |-> "read", idx |-> op.idx, val |-> val]

\* MII_ACC and MII_DATA are never written during a transaction, not even by the
\* next call after one that gave up (the check of BUSY in mii_read, mii_write).
MiiAccRespected ==
    csrBusy /\ ~csrRead /\ csrOff \in {"MII_ACC", "MII_DATA"} => miiOp = "none"

\* mac_lock is always released: a call returns whatever the chip does (the
\* bounded loops of mac_complete, mii_read and mii_write).
CallReturns == at # "idle" ~> at = "idle"

\* The transaction that a call left behind.
Late ==
    IF at \in {"m_data", "m_start", "m_poll", "m_val"} \/ miiOp = "none" THEN NoOp
    ELSE IF miiOp = "read" THEN [kind |-> "read", idx |-> miiIdx]
    ELSE [kind |-> "write", idx |-> miiIdx, val |-> miiData]

Bus == INSTANCE MdioBus WITH call <- op, late <- Late

\* With a MAC that answers in time every call is atomic, for the PHY and for
\* MAC_CR: the two polling layers implement MdioBus.
ImplementsBus == Bus!Spec
=============================================================================
