---------------------------- MODULE SmscMiiProof ----------------------------
(***************************************************************************)
(* Proofs about the indirect register access, for any PHY, any number of    *)
(* tries and a MAC of any speed.                                            *)
(***************************************************************************)
EXTENDS SmscMii, TLAPS

-----------------------------------------------------------------------------
(* The inductive invariant.                                                 *)

CrRegs   == [cr : SUBSET Bits]
AccReads == [busy : BOOLEAN]
AccCmds  == [dir : {"read", "write"}, idx : PhyRegs]
DataRegs == [data : Values]

\* What reading a register yields and what writing it takes.
ReadType(off) == IF off = "MAC_CR" THEN CrRegs ELSE IF off = "MII_ACC" THEN AccReads
                 ELSE DataRegs
WriteType(off) == IF off = "MAC_CR" THEN CrRegs ELSE IF off = "MII_ACC" THEN AccCmds
                  ELSE DataRegs

\* Which access is made at which statement.
AccessInv ==
    /\ at \in {"idle", "ret"} => mac = "done"
    /\ at \in {"m_check", "m_poll", "m_val", "cr_read"} => mac \in {"r_entry", "r_wait", "done"}
    /\ at \in {"m_data", "m_start", "cr_write"} => mac \in {"w_entry", "w_wait", "done"}
    /\ at \in {"m_check", "m_poll", "m_start"} => macOff = "MII_ACC"
    /\ at \in {"m_data", "m_val"} => macOff = "MII_DATA"
    /\ at \in CrPcs => macOff = "MAC_CR"
    /\ at = "idle" => op = NoOp
    /\ at \in MiiPcs => op.kind \in {"read", "write"}
    /\ at = "m_data" => op.kind = "write"
    /\ at = "m_val" => op.kind = "read"
    /\ at \in CrPcs => op.kind = "cr"

\* The access in the chip is the one in progress, and its value fits it.
DataInv ==
    /\ mac = "r_wait" => csrRead /\ csrOff = macOff
    /\ mac = "w_wait" => ~csrRead /\ csrOff = macOff
    /\ csrBusy /\ ~csrRead => csrData \in WriteType(csrOff)
    /\ mac = "r_wait" /\ ~csrBusy => csrData \in ReadType(macOff)
    /\ mac \in {"w_entry", "w_wait"} => macVal \in WriteType(macOff)
    /\ mac = "done" /\ at \in {"m_check", "m_poll", "m_val", "cr_read"} =>
         macVal \in ReadType(macOff) \cup {Ones}

\* The MII is free from the moment MII_ACC shows it until it is written.
FreeInv ==
    /\ at = "m_check" /\ mac = "r_wait" /\ ~csrBusy /\ csrData = [busy |-> FALSE] =>
         miiOp = "none"
    /\ at = "m_check" /\ mac = "done" /\ macVal = [busy |-> FALSE] =>
         miiOp = "none" /\ ~csrBusy
    /\ at = "m_data" => miiOp = "none" /\ (csrBusy => ~csrRead /\ csrOff = "MII_DATA")
    /\ at = "m_start" /\ mac = "w_entry" =>
         miiOp = "none" /\ (csrBusy => ~csrRead /\ csrOff = "MII_DATA" /\ op.kind = "write")

\* A read's transaction has been performed ...
ReadDone ==
    /\ miiOp = "none" /\ (csrBusy => csrRead)
    /\ done = [kind |-> "read", idx |-> op.idx, val |-> miiData]

\* ... or is in progress, or still on its way through the MAC.
ReadRuns ==
    /\ miiOp = "read" /\ miiIdx = op.idx /\ (csrBusy => csrRead)

ReadSent ==
    /\ csrBusy /\ ~csrRead /\ csrOff = "MII_ACC" /\ miiOp = "none"
    /\ csrData = [dir |-> "read", idx |-> op.idx]

ReadInv ==
    op.kind = "read" =>
      /\ at = "m_start" /\ mac = "w_entry" =>
           macVal = [dir |-> "read", idx |-> op.idx]
      /\ at = "m_start" /\ mac # "w_entry" => ReadSent \/ ReadRuns \/ ReadDone
      /\ at = "m_poll" => ReadSent \/ ReadRuns \/ ReadDone
      /\ at = "m_poll" /\ mac = "r_wait" /\ ~csrBusy /\ csrData = [busy |-> FALSE] => ReadDone
      /\ at = "m_poll" /\ mac = "done" /\ macVal = [busy |-> FALSE] => ReadDone
      /\ at = "m_val" => ReadDone
      /\ at = "m_val" /\ mac = "r_wait" /\ ~csrBusy => csrData = [data |-> miiData]
      /\ at = "m_val" /\ mac = "done" => macVal \in {Ones, [data |-> miiData]}

\* The inductive invariant: which access is under way, what its value is, and
\* where the transaction of a read is.
IInv == TypeOK /\ AccessInv /\ DataInv /\ FreeInv /\ ReadInv /\ MiiAccRespected /\ MiiReadHonest

-----------------------------------------------------------------------------
(* The invariant is inductive: one step per action, one per conjunct.       *)

\* Steps of Chip keep the invariant.
LEMMA IInv_Chip == IInv /\ (CsrReads \/ CsrWrites \/ MiiDone \/ PhyChanges) => IInv'
  <1> SUFFICES ASSUME IInv, CsrReads \/ CsrWrites \/ MiiDone \/ PhyChanges PROVE IInv'
    OBVIOUS
  <1> USE MiiAssumption DEF csr, mii, inner, result
  <1>1. CASE CsrReads
    <2> USE <1>1 DEF CsrReads, Register
    <2>1. TypeOK'
      <3>1. csrBusy' \in BOOLEAN
        BY DEF IInv, TypeOK
      <3>2. csrData' \in RegValues
        BY DEF IInv, TypeOK, RegValues, Offsets
      <3> QED BY <3>1, <3>2 DEF IInv, TypeOK, Offsets, RegValues, MiiPcs, CrPcs, Ops, NoOp,
                                Ones
    <2>2. AccessInv'
      BY DEF IInv, TypeOK, AccessInv, MiiPcs, CrPcs, NoOp, Ops
    <2>3. DataInv'
      BY DEF IInv, TypeOK, AccessInv, DataInv, ReadType, WriteType, CrRegs, AccReads,
             AccCmds, DataRegs, MiiPcs, CrPcs, Offsets, Ones, Ops, NoOp
    <2>4. FreeInv'
      BY DEF IInv, TypeOK, AccessInv, DataInv, FreeInv, MiiAccRespected, ReadType,
             WriteType, CrRegs, AccReads, AccCmds, DataRegs, MiiPcs, CrPcs, Ones
    <2>5. ReadInv'
      BY DEF IInv, TypeOK, AccessInv, DataInv, FreeInv, ReadInv, ReadDone, ReadRuns,
             ReadSent, ReadType, WriteType, CrRegs, AccReads, AccCmds, DataRegs, MiiPcs,
             CrPcs, Ones, NoOp
    <2>6. MiiAccRespected'
      BY DEF IInv, TypeOK, AccessInv, DataInv, FreeInv, MiiAccRespected, MiiPcs, CrPcs
    <2>7. MiiReadHonest'
      BY DEF IInv, TypeOK, AccessInv, ReadInv, ReadDone, MiiReadHonest, MiiPcs, CrPcs, NoOp,
             Ones
    <2> QED BY <2>1, <2>2, <2>3, <2>4, <2>5, <2>6, <2>7 DEF IInv
  <1>2. CASE CsrWrites
    <2> USE <1>2 DEF CsrWrites
    <2>1. TypeOK'
      <3>1. csrBusy' \in BOOLEAN
        BY DEF IInv, TypeOK
      <3>2. cr' \in SUBSET Bits
        BY DEF IInv, TypeOK, DataInv, AccessInv, RegValues, Offsets, WriteType, ReadType,
               CrRegs, AccReads, AccCmds, DataRegs, Ones, MiiPcs, CrPcs
      <3>3. miiOp' \in {"none", "read", "write"} /\ miiIdx' \in PhyRegs
        BY DEF IInv, TypeOK, DataInv, AccessInv, RegValues, Offsets, WriteType, ReadType,
               CrRegs, AccReads, AccCmds, DataRegs, Ones, MiiPcs, CrPcs
      <3>4. miiData' \in Values
        BY DEF IInv, TypeOK, DataInv, AccessInv, RegValues, Offsets, WriteType, ReadType,
               CrRegs, AccReads, AccCmds, DataRegs, Ones, MiiPcs, CrPcs
      <3>5. done' \in {done, [kind |-> "cr"]}
        OBVIOUS
      <3> QED BY <3>1, <3>2, <3>3, <3>4, <3>5 DEF IInv, TypeOK, Offsets, RegValues, MiiPcs,
                                                  CrPcs, Ops, NoOp, Ones
    <2>2. AccessInv'
      BY DEF IInv, TypeOK, AccessInv, MiiPcs, CrPcs, NoOp, Ops
    <2>3. DataInv'
      BY DEF IInv, TypeOK, AccessInv, DataInv, ReadType, WriteType, CrRegs, AccReads,
             AccCmds, DataRegs, MiiPcs, CrPcs, Offsets, Ones, Ops, NoOp
    <2>4. FreeInv'
      BY DEF IInv, TypeOK, AccessInv, DataInv, FreeInv, MiiAccRespected, ReadType,
             WriteType, CrRegs, AccReads, AccCmds, DataRegs, MiiPcs, CrPcs, Ones
    <2>5. ReadInv'
      BY DEF IInv, TypeOK, AccessInv, DataInv, FreeInv, ReadInv, ReadDone, ReadRuns,
             ReadSent, ReadType, WriteType, CrRegs, AccReads, AccCmds, DataRegs, MiiPcs,
             CrPcs, Ones, NoOp
    <2>6. MiiAccRespected'
      BY DEF IInv, TypeOK, AccessInv, DataInv, FreeInv, MiiAccRespected, MiiPcs, CrPcs
    <2>7. MiiReadHonest'
      BY DEF IInv, TypeOK, AccessInv, ReadInv, ReadDone, MiiReadHonest, MiiPcs, CrPcs, NoOp,
             Ones
    <2> QED BY <2>1, <2>2, <2>3, <2>4, <2>5, <2>6, <2>7 DEF IInv
  <1>3. CASE MiiDone
    <2> USE <1>3 DEF MiiDone
    <2>1. TypeOK'
      BY DEF IInv, TypeOK, Offsets, RegValues, MiiPcs, CrPcs, Ops, NoOp, Ones
    <2>2. AccessInv'
      BY DEF IInv, TypeOK, AccessInv, MiiPcs, CrPcs, NoOp, Ops
    <2>3. DataInv'
      BY DEF IInv, TypeOK, AccessInv, DataInv, ReadType, WriteType, CrRegs, AccReads,
             AccCmds, DataRegs, MiiPcs, CrPcs, Offsets, Ones, Ops, NoOp
    <2>4. FreeInv'
      BY DEF IInv, TypeOK, AccessInv, DataInv, FreeInv, MiiAccRespected, ReadType,
             WriteType, CrRegs, AccReads, AccCmds, DataRegs, MiiPcs, CrPcs, Ones
    <2>5. ReadInv'
      BY DEF IInv, TypeOK, AccessInv, DataInv, FreeInv, ReadInv, ReadDone, ReadRuns,
             ReadSent, ReadType, WriteType, CrRegs, AccReads, AccCmds, DataRegs, MiiPcs,
             CrPcs, Ones, NoOp
    <2>6. MiiAccRespected'
      BY DEF IInv, TypeOK, AccessInv, DataInv, FreeInv, MiiAccRespected, MiiPcs, CrPcs
    <2>7. MiiReadHonest'
      BY DEF IInv, TypeOK, AccessInv, ReadInv, ReadDone, MiiReadHonest, MiiPcs, CrPcs, NoOp,
             Ones
    <2> QED BY <2>1, <2>2, <2>3, <2>4, <2>5, <2>6, <2>7 DEF IInv
  <1>4. CASE PhyChanges
    <2> USE <1>4 DEF PhyChanges
    <2>1. TypeOK'
      BY DEF IInv, TypeOK, Offsets, RegValues, MiiPcs, CrPcs, Ops, NoOp, Ones
    <2>2. AccessInv'
      BY DEF IInv, TypeOK, AccessInv, MiiPcs, CrPcs, NoOp, Ops
    <2>3. DataInv'
      BY DEF IInv, TypeOK, AccessInv, DataInv, ReadType, WriteType, CrRegs, AccReads,
             AccCmds, DataRegs, MiiPcs, CrPcs, Offsets, Ones, Ops, NoOp
    <2>4. FreeInv'
      BY DEF IInv, TypeOK, AccessInv, DataInv, FreeInv, MiiAccRespected, ReadType,
             WriteType, CrRegs, AccReads, AccCmds, DataRegs, MiiPcs, CrPcs, Ones
    <2>5. ReadInv'
      BY DEF IInv, TypeOK, AccessInv, DataInv, FreeInv, ReadInv, ReadDone, ReadRuns,
             ReadSent, ReadType, WriteType, CrRegs, AccReads, AccCmds, DataRegs, MiiPcs,
             CrPcs, Ones, NoOp
    <2>6. MiiAccRespected'
      BY DEF IInv, TypeOK, AccessInv, DataInv, FreeInv, MiiAccRespected, MiiPcs, CrPcs
    <2>7. MiiReadHonest'
      BY DEF IInv, TypeOK, AccessInv, ReadInv, ReadDone, MiiReadHonest, MiiPcs, CrPcs, NoOp,
             Ones
    <2> QED BY <2>1, <2>2, <2>3, <2>4, <2>5, <2>6, <2>7 DEF IInv
  <1> QED BY <1>1, <1>2, <1>3, <1>4

\* Steps of MacAccess keep the invariant.
LEMMA IInv_MacAccess == IInv /\ (MacReadEntry \/ MacWriteEntry \/ MacBusy \/ MacTimeout \/ MacDone) => IInv'
  <1> SUFFICES ASSUME IInv, MacReadEntry \/ MacWriteEntry \/ MacBusy \/ MacTimeout \/ MacDone PROVE IInv'
    OBVIOUS
  <1> USE MiiAssumption DEF csr, mii, inner, result
  <1>1. CASE MacReadEntry
    <2> USE <1>1 DEF MacReadEntry
    <2>1. TypeOK'
      <3>1. csrBusy' \in BOOLEAN /\ csrRead' \in BOOLEAN
        BY DEF IInv, TypeOK
      <3>2. macVal' \in RegValues \cup {Ones}
        BY DEF IInv, TypeOK
      <3> QED BY <3>1, <3>2 DEF IInv, TypeOK, Offsets, RegValues, MiiPcs, CrPcs, Ops, NoOp,
                                Ones
    <2>2. AccessInv'
      BY DEF IInv, TypeOK, AccessInv, MiiPcs, CrPcs, NoOp, Ops
    <2>3. DataInv'
      BY DEF IInv, TypeOK, AccessInv, DataInv, ReadType, WriteType, CrRegs, AccReads,
             AccCmds, DataRegs, MiiPcs, CrPcs, Offsets, Ones, Ops, NoOp
    <2>4. FreeInv'
      BY DEF IInv, TypeOK, AccessInv, DataInv, FreeInv, MiiAccRespected, ReadType,
             WriteType, CrRegs, AccReads, AccCmds, DataRegs, MiiPcs, CrPcs, Ones
    <2>5. ReadInv'
      BY DEF IInv, TypeOK, AccessInv, DataInv, FreeInv, ReadInv, ReadDone, ReadRuns,
             ReadSent, ReadType, WriteType, CrRegs, AccReads, AccCmds, DataRegs, MiiPcs,
             CrPcs, Ones, NoOp
    <2>6. MiiAccRespected'
      BY DEF IInv, TypeOK, AccessInv, DataInv, FreeInv, MiiAccRespected, MiiPcs, CrPcs
    <2>7. MiiReadHonest'
      BY DEF IInv, TypeOK, AccessInv, ReadInv, ReadDone, MiiReadHonest, MiiPcs, CrPcs, NoOp,
             Ones
    <2> QED BY <2>1, <2>2, <2>3, <2>4, <2>5, <2>6, <2>7 DEF IInv
  <1>2. CASE MacWriteEntry
    <2> USE <1>2 DEF MacWriteEntry
    <2>1. TypeOK'
      <3>1. csrBusy' \in BOOLEAN /\ csrRead' \in BOOLEAN
        BY DEF IInv, TypeOK
      <3>2. csrData' \in RegValues
        BY DEF IInv, TypeOK, DataInv, AccessInv, RegValues, Offsets, WriteType, ReadType,
               CrRegs, AccReads, AccCmds, DataRegs, Ones, MiiPcs, CrPcs
      <3> QED BY <3>1, <3>2 DEF IInv, TypeOK, Offsets, RegValues, MiiPcs, CrPcs, Ops, NoOp,
                                Ones
    <2>2. AccessInv'
      BY DEF IInv, TypeOK, AccessInv, MiiPcs, CrPcs, NoOp, Ops
    <2>3. DataInv'
      BY DEF IInv, TypeOK, AccessInv, DataInv, ReadType, WriteType, CrRegs, AccReads,
             AccCmds, DataRegs, MiiPcs, CrPcs, Offsets, Ones, Ops, NoOp
    <2>4. FreeInv'
      BY DEF IInv, TypeOK, AccessInv, DataInv, FreeInv, MiiAccRespected, ReadType,
             WriteType, CrRegs, AccReads, AccCmds, DataRegs, MiiPcs, CrPcs, Ones
    <2>5. ReadInv'
      BY DEF IInv, TypeOK, AccessInv, DataInv, FreeInv, ReadInv, ReadDone, ReadRuns,
             ReadSent, ReadType, WriteType, CrRegs, AccReads, AccCmds, DataRegs, MiiPcs,
             CrPcs, Ones, NoOp
    <2>6. MiiAccRespected'
      BY DEF IInv, TypeOK, AccessInv, DataInv, FreeInv, MiiAccRespected, MiiPcs, CrPcs
    <2>7. MiiReadHonest'
      BY DEF IInv, TypeOK, AccessInv, ReadInv, ReadDone, MiiReadHonest, MiiPcs, CrPcs, NoOp,
             Ones
    <2> QED BY <2>1, <2>2, <2>3, <2>4, <2>5, <2>6, <2>7 DEF IInv
  <1>3. CASE MacBusy
    <2> USE <1>3 DEF MacBusy
    <2>1. TypeOK'
      BY DEF IInv, TypeOK, Offsets, RegValues, MiiPcs, CrPcs, Ops, NoOp, Ones
    <2>2. AccessInv'
      BY DEF IInv, TypeOK, AccessInv, MiiPcs, CrPcs, NoOp, Ops
    <2>3. DataInv'
      BY DEF IInv, TypeOK, AccessInv, DataInv, ReadType, WriteType, CrRegs, AccReads,
             AccCmds, DataRegs, MiiPcs, CrPcs, Offsets, Ones, Ops, NoOp
    <2>4. FreeInv'
      BY DEF IInv, TypeOK, AccessInv, DataInv, FreeInv, MiiAccRespected, ReadType,
             WriteType, CrRegs, AccReads, AccCmds, DataRegs, MiiPcs, CrPcs, Ones
    <2>5. ReadInv'
      BY DEF IInv, TypeOK, AccessInv, DataInv, FreeInv, ReadInv, ReadDone, ReadRuns,
             ReadSent, ReadType, WriteType, CrRegs, AccReads, AccCmds, DataRegs, MiiPcs,
             CrPcs, Ones, NoOp
    <2>6. MiiAccRespected'
      BY DEF IInv, TypeOK, AccessInv, DataInv, FreeInv, MiiAccRespected, MiiPcs, CrPcs
    <2>7. MiiReadHonest'
      BY DEF IInv, TypeOK, AccessInv, ReadInv, ReadDone, MiiReadHonest, MiiPcs, CrPcs, NoOp,
             Ones
    <2> QED BY <2>1, <2>2, <2>3, <2>4, <2>5, <2>6, <2>7 DEF IInv
  <1>4. CASE MacTimeout
    <2> USE <1>4 DEF MacTimeout
    <2>1. TypeOK'
      BY DEF IInv, TypeOK, Offsets, RegValues, MiiPcs, CrPcs, Ops, NoOp, Ones
    <2>2. AccessInv'
      BY DEF IInv, TypeOK, AccessInv, MiiPcs, CrPcs, NoOp, Ops
    <2>3. DataInv'
      BY DEF IInv, TypeOK, AccessInv, DataInv, ReadType, WriteType, CrRegs, AccReads,
             AccCmds, DataRegs, MiiPcs, CrPcs, Offsets, Ones, Ops, NoOp
    <2>4. FreeInv'
      BY DEF IInv, TypeOK, AccessInv, DataInv, FreeInv, MiiAccRespected, ReadType,
             WriteType, CrRegs, AccReads, AccCmds, DataRegs, MiiPcs, CrPcs, Ones
    <2>5. ReadInv'
      BY DEF IInv, TypeOK, AccessInv, DataInv, FreeInv, ReadInv, ReadDone, ReadRuns,
             ReadSent, ReadType, WriteType, CrRegs, AccReads, AccCmds, DataRegs, MiiPcs,
             CrPcs, Ones, NoOp
    <2>6. MiiAccRespected'
      BY DEF IInv, TypeOK, AccessInv, DataInv, FreeInv, MiiAccRespected, MiiPcs, CrPcs
    <2>7. MiiReadHonest'
      BY DEF IInv, TypeOK, AccessInv, ReadInv, ReadDone, MiiReadHonest, MiiPcs, CrPcs, NoOp,
             Ones
    <2> QED BY <2>1, <2>2, <2>3, <2>4, <2>5, <2>6, <2>7 DEF IInv
  <1>5. CASE MacDone
    <2> USE <1>5 DEF MacDone
    <2>1. TypeOK'
      BY DEF IInv, TypeOK, Offsets, RegValues, MiiPcs, CrPcs, Ops, NoOp, Ones
    <2>2. AccessInv'
      BY DEF IInv, TypeOK, AccessInv, MiiPcs, CrPcs, NoOp, Ops
    <2>3. DataInv'
      BY DEF IInv, TypeOK, AccessInv, DataInv, ReadType, WriteType, CrRegs, AccReads,
             AccCmds, DataRegs, MiiPcs, CrPcs, Offsets, Ones, Ops, NoOp
    <2>4. FreeInv'
      BY DEF IInv, TypeOK, AccessInv, DataInv, FreeInv, MiiAccRespected, ReadType,
             WriteType, CrRegs, AccReads, AccCmds, DataRegs, MiiPcs, CrPcs, Ones
    <2>5. ReadInv'
      BY DEF IInv, TypeOK, AccessInv, DataInv, FreeInv, ReadInv, ReadDone, ReadRuns,
             ReadSent, ReadType, WriteType, CrRegs, AccReads, AccCmds, DataRegs, MiiPcs,
             CrPcs, Ones, NoOp
    <2>6. MiiAccRespected'
      BY DEF IInv, TypeOK, AccessInv, DataInv, FreeInv, MiiAccRespected, MiiPcs, CrPcs
    <2>7. MiiReadHonest'
      BY DEF IInv, TypeOK, AccessInv, ReadInv, ReadDone, MiiReadHonest, MiiPcs, CrPcs, NoOp,
             Ones
    <2> QED BY <2>1, <2>2, <2>3, <2>4, <2>5, <2>6, <2>7 DEF IInv
  <1> QED BY <1>1, <1>2, <1>3, <1>4, <1>5

\* Steps of Mii keep the invariant.
LEMMA IInv_Mii == IInv /\ (MiiCall \/ MiiCheck \/ MiiStartWrite \/ MiiStarted \/ MiiPoll \/ MiiValue) => IInv'
  <1> SUFFICES ASSUME IInv, MiiCall \/ MiiCheck \/ MiiStartWrite \/ MiiStarted \/ MiiPoll \/ MiiValue PROVE IInv'
    OBVIOUS
  <1> USE MiiAssumption DEF csr, mii, inner, result
  <1>1. CASE MiiCall
    <2> USE <1>1 DEF MiiCall, StartRead, Ops
    <2>1. TypeOK'
      BY DEF IInv, TypeOK, Offsets, RegValues, MiiPcs, CrPcs, Ops, NoOp, Ones
    <2>2. AccessInv'
      BY DEF IInv, TypeOK, AccessInv, MiiPcs, CrPcs, NoOp, Ops
    <2>3. DataInv'
      BY DEF IInv, TypeOK, AccessInv, DataInv, ReadType, WriteType, CrRegs, AccReads,
             AccCmds, DataRegs, MiiPcs, CrPcs, Offsets, Ones, Ops, NoOp
    <2>4. FreeInv'
      BY DEF IInv, TypeOK, AccessInv, DataInv, FreeInv, MiiAccRespected, ReadType,
             WriteType, CrRegs, AccReads, AccCmds, DataRegs, MiiPcs, CrPcs, Ones
    <2>5. ReadInv'
      BY DEF IInv, TypeOK, AccessInv, DataInv, FreeInv, ReadInv, ReadDone, ReadRuns,
             ReadSent, ReadType, WriteType, CrRegs, AccReads, AccCmds, DataRegs, MiiPcs,
             CrPcs, Ones, NoOp
    <2>6. MiiAccRespected'
      BY DEF IInv, TypeOK, AccessInv, DataInv, FreeInv, MiiAccRespected, MiiPcs, CrPcs
    <2>7. MiiReadHonest'
      BY DEF IInv, TypeOK, AccessInv, ReadInv, ReadDone, MiiReadHonest, MiiPcs, CrPcs, NoOp,
             Ones
    <2> QED BY <2>1, <2>2, <2>3, <2>4, <2>5, <2>6, <2>7 DEF IInv
  <1>2. CASE MiiCheck
    <2> USE <1>2 DEF MiiCheck, Back, AccBusy, StartWrite
    <2>1. TypeOK'
      BY DEF IInv, TypeOK, Offsets, RegValues, MiiPcs, CrPcs, Ops, NoOp, Ones
    <2>2. AccessInv'
      BY DEF IInv, TypeOK, AccessInv, MiiPcs, CrPcs, NoOp, Ops
    <2>3. DataInv'
      BY DEF IInv, TypeOK, AccessInv, DataInv, ReadType, WriteType, CrRegs, AccReads,
             AccCmds, DataRegs, MiiPcs, CrPcs, Offsets, Ones, Ops, NoOp
    <2>4. FreeInv'
      BY DEF IInv, TypeOK, AccessInv, DataInv, FreeInv, MiiAccRespected, ReadType,
             WriteType, CrRegs, AccReads, AccCmds, DataRegs, MiiPcs, CrPcs, Ones
    <2>5. ReadInv'
      BY DEF IInv, TypeOK, AccessInv, DataInv, FreeInv, ReadInv, ReadDone, ReadRuns,
             ReadSent, ReadType, WriteType, CrRegs, AccReads, AccCmds, DataRegs, MiiPcs,
             CrPcs, Ones, NoOp
    <2>6. MiiAccRespected'
      BY DEF IInv, TypeOK, AccessInv, DataInv, FreeInv, MiiAccRespected, MiiPcs, CrPcs
    <2>7. MiiReadHonest'
      BY DEF IInv, TypeOK, AccessInv, ReadInv, ReadDone, MiiReadHonest, MiiPcs, CrPcs, NoOp,
             Ones
    <2> QED BY <2>1, <2>2, <2>3, <2>4, <2>5, <2>6, <2>7 DEF IInv
  <1>3. CASE MiiStartWrite
    <2> USE <1>3 DEF MiiStartWrite, Back, StartWrite
    <2>1. TypeOK'
      <3>1. macVal' \in RegValues
        BY DEF IInv, TypeOK, AccessInv, Ops, NoOp, RegValues, MiiPcs, CrPcs
      <3> QED BY <3>1 DEF IInv, TypeOK, Offsets, RegValues, MiiPcs, CrPcs, Ops, NoOp, Ones
    <2>2. AccessInv'
      BY DEF IInv, TypeOK, AccessInv, MiiPcs, CrPcs, NoOp, Ops
    <2>3. DataInv'
      BY DEF IInv, TypeOK, AccessInv, DataInv, ReadType, WriteType, CrRegs, AccReads,
             AccCmds, DataRegs, MiiPcs, CrPcs, Offsets, Ones, Ops, NoOp
    <2>4. FreeInv'
      BY DEF IInv, TypeOK, AccessInv, DataInv, FreeInv, MiiAccRespected, ReadType,
             WriteType, CrRegs, AccReads, AccCmds, DataRegs, MiiPcs, CrPcs, Ones
    <2>5. ReadInv'
      BY DEF IInv, TypeOK, AccessInv, DataInv, FreeInv, ReadInv, ReadDone, ReadRuns,
             ReadSent, ReadType, WriteType, CrRegs, AccReads, AccCmds, DataRegs, MiiPcs,
             CrPcs, Ones, NoOp
    <2>6. MiiAccRespected'
      BY DEF IInv, TypeOK, AccessInv, DataInv, FreeInv, MiiAccRespected, MiiPcs, CrPcs
    <2>7. MiiReadHonest'
      BY DEF IInv, TypeOK, AccessInv, ReadInv, ReadDone, MiiReadHonest, MiiPcs, CrPcs, NoOp,
             Ones
    <2> QED BY <2>1, <2>2, <2>3, <2>4, <2>5, <2>6, <2>7 DEF IInv
  <1>4. CASE MiiStarted
    <2> USE <1>4 DEF MiiStarted, Back, StartRead
    <2>1. TypeOK'
      BY DEF IInv, TypeOK, Offsets, RegValues, MiiPcs, CrPcs, Ops, NoOp, Ones
    <2>2. AccessInv'
      BY DEF IInv, TypeOK, AccessInv, MiiPcs, CrPcs, NoOp, Ops
    <2>3. DataInv'
      BY DEF IInv, TypeOK, AccessInv, DataInv, ReadType, WriteType, CrRegs, AccReads,
             AccCmds, DataRegs, MiiPcs, CrPcs, Offsets, Ones, Ops, NoOp
    <2>4. FreeInv'
      BY DEF IInv, TypeOK, AccessInv, DataInv, FreeInv, MiiAccRespected, ReadType,
             WriteType, CrRegs, AccReads, AccCmds, DataRegs, MiiPcs, CrPcs, Ones
    <2>5. ReadInv'
      BY DEF IInv, TypeOK, AccessInv, DataInv, FreeInv, ReadInv, ReadDone, ReadRuns,
             ReadSent, ReadType, WriteType, CrRegs, AccReads, AccCmds, DataRegs, MiiPcs,
             CrPcs, Ones, NoOp
    <2>6. MiiAccRespected'
      BY DEF IInv, TypeOK, AccessInv, DataInv, FreeInv, MiiAccRespected, MiiPcs, CrPcs
    <2>7. MiiReadHonest'
      BY DEF IInv, TypeOK, AccessInv, ReadInv, ReadDone, MiiReadHonest, MiiPcs, CrPcs, NoOp,
             Ones
    <2> QED BY <2>1, <2>2, <2>3, <2>4, <2>5, <2>6, <2>7 DEF IInv
  <1>5. CASE MiiPoll
    <2> USE <1>5 DEF MiiPoll, Back, AccBusy, RoundsLeft, StartRead
    <2>1. TypeOK'
      BY DEF IInv, TypeOK, Offsets, RegValues, MiiPcs, CrPcs, Ops, NoOp, Ones
    <2>2. AccessInv'
      BY DEF IInv, TypeOK, AccessInv, MiiPcs, CrPcs, NoOp, Ops
    <2>3. DataInv'
      BY DEF IInv, TypeOK, AccessInv, DataInv, ReadType, WriteType, CrRegs, AccReads,
             AccCmds, DataRegs, MiiPcs, CrPcs, Offsets, Ones, Ops, NoOp
    <2>4. FreeInv'
      BY DEF IInv, TypeOK, AccessInv, DataInv, FreeInv, MiiAccRespected, ReadType,
             WriteType, CrRegs, AccReads, AccCmds, DataRegs, MiiPcs, CrPcs, Ones
    <2>5. ReadInv'
      BY DEF IInv, TypeOK, AccessInv, DataInv, FreeInv, ReadInv, ReadDone, ReadRuns,
             ReadSent, ReadType, WriteType, CrRegs, AccReads, AccCmds, DataRegs, MiiPcs,
             CrPcs, Ones, NoOp
    <2>6. MiiAccRespected'
      BY DEF IInv, TypeOK, AccessInv, DataInv, FreeInv, MiiAccRespected, MiiPcs, CrPcs
    <2>7. MiiReadHonest'
      BY DEF IInv, TypeOK, AccessInv, ReadInv, ReadDone, MiiReadHonest, MiiPcs, CrPcs, NoOp,
             Ones
    <2> QED BY <2>1, <2>2, <2>3, <2>4, <2>5, <2>6, <2>7 DEF IInv
  <1>6. CASE MiiValue
    <2> USE <1>6 DEF MiiValue, Back
    <2>1. TypeOK'
      <3>1. val' \in Values
        BY DEF IInv, TypeOK, DataInv, AccessInv, RegValues, Offsets, WriteType, ReadType,
               CrRegs, AccReads, AccCmds, DataRegs, Ones, MiiPcs, CrPcs
      <3> QED BY <3>1 DEF IInv, TypeOK, Offsets, RegValues, MiiPcs, CrPcs, Ops, NoOp, Ones
    <2>2. AccessInv'
      BY DEF IInv, TypeOK, AccessInv, MiiPcs, CrPcs, NoOp, Ops
    <2>3. DataInv'
      BY DEF IInv, TypeOK, AccessInv, DataInv, ReadType, WriteType, CrRegs, AccReads,
             AccCmds, DataRegs, MiiPcs, CrPcs, Offsets, Ones, Ops, NoOp
    <2>4. FreeInv'
      BY DEF IInv, TypeOK, AccessInv, DataInv, FreeInv, MiiAccRespected, ReadType,
             WriteType, CrRegs, AccReads, AccCmds, DataRegs, MiiPcs, CrPcs, Ones
    <2>5. ReadInv'
      BY DEF IInv, TypeOK, AccessInv, DataInv, FreeInv, ReadInv, ReadDone, ReadRuns,
             ReadSent, ReadType, WriteType, CrRegs, AccReads, AccCmds, DataRegs, MiiPcs,
             CrPcs, Ones, NoOp
    <2>6. MiiAccRespected'
      BY DEF IInv, TypeOK, AccessInv, DataInv, FreeInv, MiiAccRespected, MiiPcs, CrPcs
    <2>7. MiiReadHonest'
      BY DEF IInv, TypeOK, AccessInv, ReadInv, ReadDone, MiiReadHonest, MiiPcs, CrPcs, NoOp,
             Ones
    <2> QED BY <2>1, <2>2, <2>3, <2>4, <2>5, <2>6, <2>7 DEF IInv
  <1> QED BY <1>1, <1>2, <1>3, <1>4, <1>5, <1>6

\* Steps of Cr keep the invariant.
LEMMA IInv_Cr == IInv /\ (CrCall \/ CrRead \/ CrWritten \/ Return) => IInv'
  <1> SUFFICES ASSUME IInv, CrCall \/ CrRead \/ CrWritten \/ Return PROVE IInv'
    OBVIOUS
  <1> USE MiiAssumption DEF csr, mii, inner, result
  <1>1. CASE CrCall
    <2> USE <1>1 DEF CrCall, StartRead, Ops
    <2>1. TypeOK'
      BY DEF IInv, TypeOK, Offsets, RegValues, MiiPcs, CrPcs, Ops, NoOp, Ones
    <2>2. AccessInv'
      BY DEF IInv, TypeOK, AccessInv, MiiPcs, CrPcs, NoOp, Ops
    <2>3. DataInv'
      BY DEF IInv, TypeOK, AccessInv, DataInv, ReadType, WriteType, CrRegs, AccReads,
             AccCmds, DataRegs, MiiPcs, CrPcs, Offsets, Ones, Ops, NoOp
    <2>4. FreeInv'
      BY DEF IInv, TypeOK, AccessInv, DataInv, FreeInv, MiiAccRespected, ReadType,
             WriteType, CrRegs, AccReads, AccCmds, DataRegs, MiiPcs, CrPcs, Ones
    <2>5. ReadInv'
      BY DEF IInv, TypeOK, AccessInv, DataInv, FreeInv, ReadInv, ReadDone, ReadRuns,
             ReadSent, ReadType, WriteType, CrRegs, AccReads, AccCmds, DataRegs, MiiPcs,
             CrPcs, Ones, NoOp
    <2>6. MiiAccRespected'
      BY DEF IInv, TypeOK, AccessInv, DataInv, FreeInv, MiiAccRespected, MiiPcs, CrPcs
    <2>7. MiiReadHonest'
      BY DEF IInv, TypeOK, AccessInv, ReadInv, ReadDone, MiiReadHonest, MiiPcs, CrPcs, NoOp,
             Ones
    <2> QED BY <2>1, <2>2, <2>3, <2>4, <2>5, <2>6, <2>7 DEF IInv
  <1>2. CASE CrRead
    <2> USE <1>2 DEF CrRead, Back, StartWrite, CrModify
    <2>1. TypeOK'
      <3>1. op.set \in SUBSET Bits /\ op.clear \in SUBSET Bits
        BY DEF IInv, TypeOK, AccessInv, Ops, NoOp, RegValues, MiiPcs, CrPcs
      <3>2. macVal # Ones => macVal.cr \in SUBSET Bits
        BY DEF IInv, TypeOK, DataInv, AccessInv, RegValues, Offsets, WriteType, ReadType,
               CrRegs, AccReads, AccCmds, DataRegs, Ones, MiiPcs, CrPcs
      <3>3. macVal' \in RegValues
        BY <3>1, <3>2 DEF RegValues
      <3> QED BY <3>1, <3>2, <3>3 DEF IInv, TypeOK, Offsets, RegValues, MiiPcs, CrPcs, Ops,
                                      NoOp, Ones
    <2>2. AccessInv'
      BY DEF IInv, TypeOK, AccessInv, MiiPcs, CrPcs, NoOp, Ops
    <2>3. DataInv'
      BY DEF IInv, TypeOK, AccessInv, DataInv, ReadType, WriteType, CrRegs, AccReads,
             AccCmds, DataRegs, MiiPcs, CrPcs, Offsets, Ones, Ops, NoOp
    <2>4. FreeInv'
      BY DEF IInv, TypeOK, AccessInv, DataInv, FreeInv, MiiAccRespected, ReadType,
             WriteType, CrRegs, AccReads, AccCmds, DataRegs, MiiPcs, CrPcs, Ones
    <2>5. ReadInv'
      BY DEF IInv, TypeOK, AccessInv, DataInv, FreeInv, ReadInv, ReadDone, ReadRuns,
             ReadSent, ReadType, WriteType, CrRegs, AccReads, AccCmds, DataRegs, MiiPcs,
             CrPcs, Ones, NoOp
    <2>6. MiiAccRespected'
      BY DEF IInv, TypeOK, AccessInv, DataInv, FreeInv, MiiAccRespected, MiiPcs, CrPcs
    <2>7. MiiReadHonest'
      BY DEF IInv, TypeOK, AccessInv, ReadInv, ReadDone, MiiReadHonest, MiiPcs, CrPcs, NoOp,
             Ones
    <2> QED BY <2>1, <2>2, <2>3, <2>4, <2>5, <2>6, <2>7 DEF IInv
  <1>3. CASE CrWritten
    <2> USE <1>3 DEF CrWritten, Back
    <2>1. TypeOK'
      BY DEF IInv, TypeOK, Offsets, RegValues, MiiPcs, CrPcs, Ops, NoOp, Ones
    <2>2. AccessInv'
      BY DEF IInv, TypeOK, AccessInv, MiiPcs, CrPcs, NoOp, Ops
    <2>3. DataInv'
      BY DEF IInv, TypeOK, AccessInv, DataInv, ReadType, WriteType, CrRegs, AccReads,
             AccCmds, DataRegs, MiiPcs, CrPcs, Offsets, Ones, Ops, NoOp
    <2>4. FreeInv'
      BY DEF IInv, TypeOK, AccessInv, DataInv, FreeInv, MiiAccRespected, ReadType,
             WriteType, CrRegs, AccReads, AccCmds, DataRegs, MiiPcs, CrPcs, Ones
    <2>5. ReadInv'
      BY DEF IInv, TypeOK, AccessInv, DataInv, FreeInv, ReadInv, ReadDone, ReadRuns,
             ReadSent, ReadType, WriteType, CrRegs, AccReads, AccCmds, DataRegs, MiiPcs,
             CrPcs, Ones, NoOp
    <2>6. MiiAccRespected'
      BY DEF IInv, TypeOK, AccessInv, DataInv, FreeInv, MiiAccRespected, MiiPcs, CrPcs
    <2>7. MiiReadHonest'
      BY DEF IInv, TypeOK, AccessInv, ReadInv, ReadDone, MiiReadHonest, MiiPcs, CrPcs, NoOp,
             Ones
    <2> QED BY <2>1, <2>2, <2>3, <2>4, <2>5, <2>6, <2>7 DEF IInv
  <1>4. CASE Return
    <2> USE <1>4 DEF Return
    <2>1. TypeOK'
      BY DEF IInv, TypeOK, Offsets, RegValues, MiiPcs, CrPcs, Ops, NoOp, Ones
    <2>2. AccessInv'
      BY DEF IInv, TypeOK, AccessInv, MiiPcs, CrPcs, NoOp, Ops
    <2>3. DataInv'
      BY DEF IInv, TypeOK, AccessInv, DataInv, ReadType, WriteType, CrRegs, AccReads,
             AccCmds, DataRegs, MiiPcs, CrPcs, Offsets, Ones, Ops, NoOp
    <2>4. FreeInv'
      BY DEF IInv, TypeOK, AccessInv, DataInv, FreeInv, MiiAccRespected, ReadType,
             WriteType, CrRegs, AccReads, AccCmds, DataRegs, MiiPcs, CrPcs, Ones
    <2>5. ReadInv'
      BY DEF IInv, TypeOK, AccessInv, DataInv, FreeInv, ReadInv, ReadDone, ReadRuns,
             ReadSent, ReadType, WriteType, CrRegs, AccReads, AccCmds, DataRegs, MiiPcs,
             CrPcs, Ones, NoOp
    <2>6. MiiAccRespected'
      BY DEF IInv, TypeOK, AccessInv, DataInv, FreeInv, MiiAccRespected, MiiPcs, CrPcs
    <2>7. MiiReadHonest'
      BY DEF IInv, TypeOK, AccessInv, ReadInv, ReadDone, MiiReadHonest, MiiPcs, CrPcs, NoOp,
             Ones
    <2> QED BY <2>1, <2>2, <2>3, <2>4, <2>5, <2>6, <2>7 DEF IInv
  <1> QED BY <1>1, <1>2, <1>3, <1>4

-----------------------------------------------------------------------------
(* The theorems.                                                            *)

\* Initially the MAC and the MII are idle.
LEMMA InitIInv == Init => IInv
  <1> SUFFICES ASSUME Init PROVE IInv
    OBVIOUS
  <1>1. TypeOK
    <2>1. csrData \in RegValues
      BY DEF Init, RegValues
    <2>2. csrBusy \in BOOLEAN /\ csrRead \in BOOLEAN
      BY DEF Init
    <2> QED BY <2>1, <2>2, MiiAssumption DEF Init, TypeOK, Offsets, NoOp, Ones
  <1>2. AccessInv /\ DataInv
    BY DEF Init, AccessInv, DataInv, MiiPcs, CrPcs
  <1>3. FreeInv /\ ReadInv
    BY DEF Init, FreeInv, ReadInv, NoOp
  <1>4. MiiAccRespected /\ MiiReadHonest
    BY DEF Init, MiiAccRespected, MiiReadHonest
  <1> QED BY <1>1, <1>2, <1>3, <1>4 DEF IInv

\* Every step keeps the invariant.
LEMMA NextIInv == IInv /\ [Next]_vars => IInv'
  <1> SUFFICES ASSUME IInv, [Next]_vars PROVE IInv'
    OBVIOUS
  <1>1. CASE UNCHANGED vars
    BY <1>1 DEF vars, IInv, TypeOK, AccessInv, DataInv, FreeInv, ReadInv, ReadDone,
                ReadRuns,
                ReadSent, MiiAccRespected, MiiReadHonest
  <1> QED BY <1>1, IInv_Chip, IInv_MacAccess, IInv_Mii, IInv_Cr
          DEF Next, Chip, GoesOn, MacAccess

\* The invariant holds throughout.
THEOREM Invariance == Spec => []IInv
  BY InitIInv, NextIInv, PTL DEF Spec

\* A successful mii_read returns what the PHY's register held during the call,
\* for any number of tries and however slow the MAC is.
THEOREM ReadsAlwaysHonest == Spec => []MiiReadHonest
  <1>1. IInv => MiiReadHonest
    BY DEF IInv
  <1> QED BY <1>1, Invariance, PTL

\* MII_ACC and MII_DATA are never written during a transaction.
THEOREM TransactionsNeverOverlap == Spec => []MiiAccRespected
  <1>1. IInv => MiiAccRespected
    BY DEF IInv
  <1> QED BY <1>1, Invariance, PTL

-----------------------------------------------------------------------------
(* The refinement of MdioBus, with a MAC that is not slow.                  *)

\* Every access of the MAC is over when the next begins, and has succeeded.
FastInv ==
    /\ mac \in {"r_wait", "w_wait"} => tries < MacTries
    /\ csrBusy => mac \in {"r_wait", "w_wait"}
    /\ mac = "done" /\ at \in {"m_check", "m_poll", "m_val", "cr_read"} => macVal # Ones

\* A call has its effect in its last statements only.
EffectInv ==
    /\ at = "ret" <=> ret # "none"
    /\ at \in {"idle", "m_check", "m_data", "cr_read"} => done = NoOp

\* Nobody else writes MAC_CR between the read and the write of it.
CrInv ==
    /\ at = "cr_read" /\ mac = "r_wait" /\ ~csrBusy => csrData = [cr |-> cr]
    /\ at = "cr_read" /\ mac = "done" => macVal = [cr |-> cr]
    /\ at = "cr_write" /\ mac = "w_entry" => macVal = [cr |-> CrModify(cr)] /\ done = NoOp
    /\ at = "cr_write" /\ csrBusy => csrData = [cr |-> CrModify(cr)] /\ done = NoOp
    /\ at = "cr_write" /\ mac # "w_entry" /\ ~csrBusy => done = [kind |-> "cr"]

\* The call's transaction is on its way through the MAC, in progress, or over.
CallSent ==
    /\ csrBusy /\ ~csrRead /\ miiOp = "none" /\ done = NoOp
    /\ csrData = [dir |-> op.kind, idx |-> op.idx]

CallRuns ==
    /\ csrBusy => csrRead
    /\ miiOp = op.kind /\ miiIdx = op.idx /\ done = NoOp

CallOver ==
    /\ csrBusy => csrRead
    /\ miiOp = "none" /\ done = [kind |-> op.kind, idx |-> op.idx, val |-> miiData]

CallInv ==
    /\ at = "m_start" /\ mac = "w_entry" =>
         miiOp = "none" /\ done = NoOp /\ macVal = [dir |-> op.kind, idx |-> op.idx]
    /\ (at = "m_start" /\ mac # "w_entry") \/ at = "m_poll" => CallSent \/ CallRuns \/ CallOver
    /\ at = "m_poll" /\ mac = "r_wait" /\ ~csrBusy /\ csrData = [busy |-> FALSE] => CallOver
    /\ at = "m_poll" /\ mac = "done" /\ macVal = [busy |-> FALSE] => CallOver
    /\ at = "m_val" => CallOver

\* The value of a write reaches MII_DATA before the transaction starts, and stays.
ValueInv ==
    op.kind = "write" =>
      /\ at = "m_data" /\ mac = "w_entry" => macVal = [data |-> op.val]
      /\ at = "m_data" /\ csrBusy => csrData = [data |-> op.val]
      /\ at = "m_data" /\ mac # "w_entry" /\ ~csrBusy => miiData = op.val
      /\ at \in {"m_start", "m_poll"} => miiData = op.val

BusInv == FastInv /\ EffectInv /\ CrInv /\ CallInv /\ ValueInv

\* The invariant of the refinement holds at first.
LEMMA InitBusInv == Init => BusInv
  BY MiiAssumption DEF Init, BusInv, FastInv, EffectInv, CrInv, CallInv, ValueInv, NoOp

\* Accesses remain fast.
LEMMA NextFast == IInv /\ BusInv /\ ~MacSlow /\ [Next]_vars => FastInv'
  <1> SUFFICES ASSUME IInv, BusInv, ~MacSlow, [Next]_vars PROVE FastInv'
    OBVIOUS
  <1> USE MiiAssumption DEF csr, mii, inner, result
  <1>1. CASE CsrReads
    BY <1>1 DEF IInv, TypeOK, AccessInv, DataInv, BusInv, FastInv, MiiPcs, CrPcs, Ones,
                ReadType, WriteType, CrRegs, AccReads, AccCmds, DataRegs, CsrReads, Register
  <1>2. CASE CsrWrites
    BY <1>2 DEF IInv, TypeOK, AccessInv, DataInv, BusInv, FastInv, MiiPcs, CrPcs, Ones,
                ReadType, WriteType, CrRegs, AccReads, AccCmds, DataRegs, CsrWrites
  <1>3. CASE MiiDone
    BY <1>3 DEF IInv, TypeOK, AccessInv, DataInv, BusInv, FastInv, MiiPcs, CrPcs, Ones,
                ReadType, WriteType, CrRegs, AccReads, AccCmds, DataRegs, MiiDone
  <1>4. CASE PhyChanges
    BY <1>4 DEF IInv, TypeOK, AccessInv, DataInv, BusInv, FastInv, MiiPcs, CrPcs, Ones,
                ReadType, WriteType, CrRegs, AccReads, AccCmds, DataRegs, PhyChanges
  <1>5. CASE MacReadEntry
    BY <1>5 DEF IInv, TypeOK, AccessInv, DataInv, BusInv, FastInv, MiiPcs, CrPcs, Ones,
                ReadType, WriteType, CrRegs, AccReads, AccCmds, DataRegs, MacReadEntry
  <1>6. CASE MacWriteEntry
    BY <1>6 DEF IInv, TypeOK, AccessInv, DataInv, BusInv, FastInv, MiiPcs, CrPcs, Ones,
                ReadType, WriteType, CrRegs, AccReads, AccCmds, DataRegs, MacWriteEntry
  <1>7. CASE MacBusy
    BY <1>7 DEF IInv, TypeOK, AccessInv, DataInv, BusInv, FastInv, MiiPcs, CrPcs, Ones,
                ReadType, WriteType, CrRegs, AccReads, AccCmds, DataRegs, MacBusy
  <1>8. CASE MacTimeout
    BY <1>8 DEF IInv, TypeOK, AccessInv, DataInv, BusInv, FastInv, MiiPcs, CrPcs, Ones,
                ReadType, WriteType, CrRegs, AccReads, AccCmds, DataRegs, MacTimeout
  <1>9. CASE MacDone
    BY <1>9 DEF IInv, TypeOK, AccessInv, DataInv, BusInv, FastInv, MiiPcs, CrPcs, Ones,
                ReadType, WriteType, CrRegs, AccReads, AccCmds, DataRegs, MacDone
  <1>10. CASE MiiCall
    BY <1>10 DEF IInv, TypeOK, AccessInv, DataInv, BusInv, FastInv, MiiPcs, CrPcs, Ones,
                 ReadType, WriteType, CrRegs, AccReads, AccCmds, DataRegs, MiiCall,
                 StartRead
  <1>11. CASE MiiCheck
    BY <1>11 DEF IInv, TypeOK, AccessInv, DataInv, BusInv, FastInv, MiiPcs, CrPcs, Ones,
                 ReadType, WriteType, CrRegs, AccReads, AccCmds, DataRegs, MiiCheck,
                 StartWrite, Back, AccBusy
  <1>12. CASE MiiStartWrite
    BY <1>12 DEF IInv, TypeOK, AccessInv, DataInv, BusInv, FastInv, MiiPcs, CrPcs, Ones,
                 ReadType, WriteType, CrRegs, AccReads, AccCmds, DataRegs, MiiStartWrite,
                 StartWrite, Back
  <1>13. CASE MiiStarted
    BY <1>13 DEF IInv, TypeOK, AccessInv, DataInv, BusInv, FastInv, MiiPcs, CrPcs, Ones,
                 ReadType, WriteType, CrRegs, AccReads, AccCmds, DataRegs, MiiStarted,
                 StartRead, Back
  <1>14. CASE MiiPoll
    BY <1>14 DEF IInv, TypeOK, AccessInv, DataInv, BusInv, FastInv, MiiPcs, CrPcs, Ones,
                 ReadType, WriteType, CrRegs, AccReads, AccCmds, DataRegs, MiiPoll,
                 StartRead, Back, AccBusy, RoundsLeft
  <1>15. CASE MiiValue
    BY <1>15 DEF IInv, TypeOK, AccessInv, DataInv, BusInv, FastInv, MiiPcs, CrPcs, Ones,
                 ReadType, WriteType, CrRegs, AccReads, AccCmds, DataRegs, MiiValue, Back
  <1>16. CASE CrCall
    BY <1>16 DEF IInv, TypeOK, AccessInv, DataInv, BusInv, FastInv, MiiPcs, CrPcs, Ones,
                 ReadType, WriteType, CrRegs, AccReads, AccCmds, DataRegs, CrCall, StartRead
  <1>17. CASE CrRead
    BY <1>17 DEF IInv, TypeOK, AccessInv, DataInv, BusInv, FastInv, MiiPcs, CrPcs, Ones,
                 ReadType, WriteType, CrRegs, AccReads, AccCmds, DataRegs, CrRead,
                 StartWrite, Back
  <1>18. CASE CrWritten
    BY <1>18 DEF IInv, TypeOK, AccessInv, DataInv, BusInv, FastInv, MiiPcs, CrPcs, Ones,
                 ReadType, WriteType, CrRegs, AccReads, AccCmds, DataRegs, CrWritten, Back
  <1>19. CASE Return
    BY <1>19 DEF IInv, TypeOK, AccessInv, DataInv, BusInv, FastInv, MiiPcs, CrPcs, Ones,
                 ReadType, WriteType, CrRegs, AccReads, AccCmds, DataRegs, Return
  <1>20. CASE UNCHANGED vars
    BY <1>20 DEF IInv, TypeOK, AccessInv, DataInv, BusInv, FastInv, MiiPcs, CrPcs, Ones,
                 ReadType, WriteType, CrRegs, AccReads, AccCmds, DataRegs, vars
  <1> QED BY <1>1, <1>2, <1>3, <1>4, <1>5, <1>6, <1>7, <1>8, <1>9, <1>10, <1>11, <1>12,
             <1>13, <1>14, <1>15, <1>16, <1>17, <1>18, <1>19, <1>20
         DEF Next, Chip, GoesOn, MacAccess

\* Effects remain late.
LEMMA NextEffect == IInv /\ BusInv /\ ~MacSlow /\ [Next]_vars => EffectInv'
  <1> SUFFICES ASSUME IInv, BusInv, ~MacSlow, [Next]_vars PROVE EffectInv'
    OBVIOUS
  <1> USE MiiAssumption DEF csr, mii, inner, result
  <1>1. CASE CsrReads
    BY <1>1 DEF IInv, TypeOK, AccessInv, BusInv, EffectInv, CrInv, CallInv, CallOver, NoOp,
                MiiPcs, CrPcs, CsrReads, Register
  <1>2. CASE CsrWrites
    BY <1>2 DEF IInv, TypeOK, AccessInv, BusInv, EffectInv, CrInv, CallInv, CallOver, NoOp,
                MiiPcs, CrPcs, CsrWrites
  <1>3. CASE MiiDone
    BY <1>3 DEF IInv, TypeOK, AccessInv, BusInv, EffectInv, CrInv, CallInv, CallOver, NoOp,
                MiiPcs, CrPcs, MiiDone
  <1>4. CASE PhyChanges
    BY <1>4 DEF IInv, TypeOK, AccessInv, BusInv, EffectInv, CrInv, CallInv, CallOver, NoOp,
                MiiPcs, CrPcs, PhyChanges
  <1>5. CASE MacReadEntry
    BY <1>5 DEF IInv, TypeOK, AccessInv, BusInv, EffectInv, CrInv, CallInv, CallOver, NoOp,
                MiiPcs, CrPcs, MacReadEntry
  <1>6. CASE MacWriteEntry
    BY <1>6 DEF IInv, TypeOK, AccessInv, BusInv, EffectInv, CrInv, CallInv, CallOver, NoOp,
                MiiPcs, CrPcs, MacWriteEntry
  <1>7. CASE MacBusy
    BY <1>7 DEF IInv, TypeOK, AccessInv, BusInv, EffectInv, CrInv, CallInv, CallOver, NoOp,
                MiiPcs, CrPcs, MacBusy
  <1>8. CASE MacTimeout
    BY <1>8 DEF IInv, TypeOK, AccessInv, BusInv, EffectInv, CrInv, CallInv, CallOver, NoOp,
                MiiPcs, CrPcs, MacTimeout
  <1>9. CASE MacDone
    BY <1>9 DEF IInv, TypeOK, AccessInv, BusInv, EffectInv, CrInv, CallInv, CallOver, NoOp,
                MiiPcs, CrPcs, MacDone
  <1>10. CASE MiiCall
    BY <1>10 DEF IInv, TypeOK, AccessInv, BusInv, EffectInv, CrInv, CallInv, CallOver, NoOp,
                 MiiPcs, CrPcs, MiiCall, StartRead
  <1>11. CASE MiiCheck
    BY <1>11 DEF IInv, TypeOK, AccessInv, BusInv, EffectInv, CrInv, CallInv, CallOver, NoOp,
                 MiiPcs, CrPcs, MiiCheck, StartWrite, Back, AccBusy
  <1>12. CASE MiiStartWrite
    BY <1>12 DEF IInv, TypeOK, AccessInv, BusInv, EffectInv, CrInv, CallInv, CallOver, NoOp,
                 MiiPcs, CrPcs, MiiStartWrite, StartWrite, Back
  <1>13. CASE MiiStarted
    BY <1>13 DEF IInv, TypeOK, AccessInv, BusInv, EffectInv, CrInv, CallInv, CallOver, NoOp,
                 MiiPcs, CrPcs, MiiStarted, StartRead, Back
  <1>14. CASE MiiPoll
    BY <1>14 DEF IInv, TypeOK, AccessInv, BusInv, EffectInv, CrInv, CallInv, CallOver, NoOp,
                 MiiPcs, CrPcs, MiiPoll, StartRead, Back, AccBusy, RoundsLeft
  <1>15. CASE MiiValue
    BY <1>15 DEF IInv, TypeOK, AccessInv, BusInv, EffectInv, CrInv, CallInv, CallOver, NoOp,
                 MiiPcs, CrPcs, MiiValue, Back
  <1>16. CASE CrCall
    BY <1>16 DEF IInv, TypeOK, AccessInv, BusInv, EffectInv, CrInv, CallInv, CallOver, NoOp,
                 MiiPcs, CrPcs, CrCall, StartRead
  <1>17. CASE CrRead
    BY <1>17 DEF IInv, TypeOK, AccessInv, BusInv, EffectInv, CrInv, CallInv, CallOver, NoOp,
                 MiiPcs, CrPcs, CrRead, StartWrite, Back
  <1>18. CASE CrWritten
    BY <1>18 DEF IInv, TypeOK, AccessInv, BusInv, EffectInv, CrInv, CallInv, CallOver, NoOp,
                 MiiPcs, CrPcs, CrWritten, Back
  <1>19. CASE Return
    BY <1>19 DEF IInv, TypeOK, AccessInv, BusInv, EffectInv, CrInv, CallInv, CallOver, NoOp,
                 MiiPcs, CrPcs, Return
  <1>20. CASE UNCHANGED vars
    BY <1>20 DEF IInv, TypeOK, AccessInv, BusInv, EffectInv, CrInv, CallInv, CallOver, NoOp,
                 MiiPcs, CrPcs, vars
  <1> QED BY <1>1, <1>2, <1>3, <1>4, <1>5, <1>6, <1>7, <1>8, <1>9, <1>10, <1>11, <1>12,
             <1>13, <1>14, <1>15, <1>16, <1>17, <1>18, <1>19, <1>20
         DEF Next, Chip, GoesOn, MacAccess

\* MAC_CR is read and written by one at a time.
LEMMA NextCr == IInv /\ BusInv /\ ~MacSlow /\ [Next]_vars => CrInv'
  <1> SUFFICES ASSUME IInv, BusInv, ~MacSlow, [Next]_vars PROVE CrInv'
    OBVIOUS
  <1> USE MiiAssumption DEF csr, mii, inner, result
  <1>1. CASE CsrReads
    BY <1>1 DEF IInv, TypeOK, AccessInv, DataInv, BusInv, FastInv, EffectInv, CrInv,
                CrModify, MiiPcs, CrPcs, Ones, NoOp, ReadType, WriteType, CrRegs, AccReads,
                AccCmds, DataRegs, CsrReads, Register
  <1>2. CASE CsrWrites
    BY <1>2 DEF IInv, TypeOK, AccessInv, DataInv, BusInv, FastInv, EffectInv, CrInv,
                CrModify, MiiPcs, CrPcs, Ones, NoOp, ReadType, WriteType, CrRegs, AccReads,
                AccCmds, DataRegs, CsrWrites
  <1>3. CASE MiiDone
    BY <1>3 DEF IInv, TypeOK, AccessInv, DataInv, BusInv, FastInv, EffectInv, CrInv,
                CrModify, MiiPcs, CrPcs, Ones, NoOp, ReadType, WriteType, CrRegs, AccReads,
                AccCmds, DataRegs, MiiDone
  <1>4. CASE PhyChanges
    BY <1>4 DEF IInv, TypeOK, AccessInv, DataInv, BusInv, FastInv, EffectInv, CrInv,
                CrModify, MiiPcs, CrPcs, Ones, NoOp, ReadType, WriteType, CrRegs, AccReads,
                AccCmds, DataRegs, PhyChanges
  <1>5. CASE MacReadEntry
    BY <1>5 DEF IInv, TypeOK, AccessInv, DataInv, BusInv, FastInv, EffectInv, CrInv,
                CrModify, MiiPcs, CrPcs, Ones, NoOp, ReadType, WriteType, CrRegs, AccReads,
                AccCmds, DataRegs, MacReadEntry
  <1>6. CASE MacWriteEntry
    BY <1>6 DEF IInv, TypeOK, AccessInv, DataInv, BusInv, FastInv, EffectInv, CrInv,
                CrModify, MiiPcs, CrPcs, Ones, NoOp, ReadType, WriteType, CrRegs, AccReads,
                AccCmds, DataRegs, MacWriteEntry
  <1>7. CASE MacBusy
    BY <1>7 DEF IInv, TypeOK, AccessInv, DataInv, BusInv, FastInv, EffectInv, CrInv,
                CrModify, MiiPcs, CrPcs, Ones, NoOp, ReadType, WriteType, CrRegs, AccReads,
                AccCmds, DataRegs, MacBusy
  <1>8. CASE MacTimeout
    BY <1>8 DEF IInv, TypeOK, AccessInv, DataInv, BusInv, FastInv, EffectInv, CrInv,
                CrModify, MiiPcs, CrPcs, Ones, NoOp, ReadType, WriteType, CrRegs, AccReads,
                AccCmds, DataRegs, MacTimeout
  <1>9. CASE MacDone
    BY <1>9 DEF IInv, TypeOK, AccessInv, DataInv, BusInv, FastInv, EffectInv, CrInv,
                CrModify, MiiPcs, CrPcs, Ones, NoOp, ReadType, WriteType, CrRegs, AccReads,
                AccCmds, DataRegs, MacDone
  <1>10. CASE MiiCall
    BY <1>10 DEF IInv, TypeOK, AccessInv, DataInv, BusInv, FastInv, EffectInv, CrInv,
                 CrModify, MiiPcs, CrPcs, Ones, NoOp, ReadType, WriteType, CrRegs, AccReads,
                 AccCmds, DataRegs, MiiCall, StartRead
  <1>11. CASE MiiCheck
    BY <1>11 DEF IInv, TypeOK, AccessInv, DataInv, BusInv, FastInv, EffectInv, CrInv,
                 CrModify, MiiPcs, CrPcs, Ones, NoOp, ReadType, WriteType, CrRegs, AccReads,
                 AccCmds, DataRegs, MiiCheck, StartWrite, Back, AccBusy
  <1>12. CASE MiiStartWrite
    BY <1>12 DEF IInv, TypeOK, AccessInv, DataInv, BusInv, FastInv, EffectInv, CrInv,
                 CrModify, MiiPcs, CrPcs, Ones, NoOp, ReadType, WriteType, CrRegs, AccReads,
                 AccCmds, DataRegs, MiiStartWrite, StartWrite, Back
  <1>13. CASE MiiStarted
    BY <1>13 DEF IInv, TypeOK, AccessInv, DataInv, BusInv, FastInv, EffectInv, CrInv,
                 CrModify, MiiPcs, CrPcs, Ones, NoOp, ReadType, WriteType, CrRegs, AccReads,
                 AccCmds, DataRegs, MiiStarted, StartRead, Back
  <1>14. CASE MiiPoll
    BY <1>14 DEF IInv, TypeOK, AccessInv, DataInv, BusInv, FastInv, EffectInv, CrInv,
                 CrModify, MiiPcs, CrPcs, Ones, NoOp, ReadType, WriteType, CrRegs, AccReads,
                 AccCmds, DataRegs, MiiPoll, StartRead, Back, AccBusy, RoundsLeft
  <1>15. CASE MiiValue
    BY <1>15 DEF IInv, TypeOK, AccessInv, DataInv, BusInv, FastInv, EffectInv, CrInv,
                 CrModify, MiiPcs, CrPcs, Ones, NoOp, ReadType, WriteType, CrRegs, AccReads,
                 AccCmds, DataRegs, MiiValue, Back
  <1>16. CASE CrCall
    BY <1>16 DEF IInv, TypeOK, AccessInv, DataInv, BusInv, FastInv, EffectInv, CrInv,
                 CrModify, MiiPcs, CrPcs, Ones, NoOp, ReadType, WriteType, CrRegs, AccReads,
                 AccCmds, DataRegs, CrCall, StartRead
  <1>17. CASE CrRead
    BY <1>17 DEF IInv, TypeOK, AccessInv, DataInv, BusInv, FastInv, EffectInv, CrInv,
                 CrModify, MiiPcs, CrPcs, Ones, NoOp, ReadType, WriteType, CrRegs, AccReads,
                 AccCmds, DataRegs, CrRead, StartWrite, Back
  <1>18. CASE CrWritten
    BY <1>18 DEF IInv, TypeOK, AccessInv, DataInv, BusInv, FastInv, EffectInv, CrInv,
                 CrModify, MiiPcs, CrPcs, Ones, NoOp, ReadType, WriteType, CrRegs, AccReads,
                 AccCmds, DataRegs, CrWritten, Back
  <1>19. CASE Return
    BY <1>19 DEF IInv, TypeOK, AccessInv, DataInv, BusInv, FastInv, EffectInv, CrInv,
                 CrModify, MiiPcs, CrPcs, Ones, NoOp, ReadType, WriteType, CrRegs, AccReads,
                 AccCmds, DataRegs, Return
  <1>20. CASE UNCHANGED vars
    BY <1>20 DEF IInv, TypeOK, AccessInv, DataInv, BusInv, FastInv, EffectInv, CrInv,
                 CrModify, MiiPcs, CrPcs, Ones, NoOp, ReadType, WriteType, CrRegs, AccReads,
                 AccCmds, DataRegs, vars
  <1> QED BY <1>1, <1>2, <1>3, <1>4, <1>5, <1>6, <1>7, <1>8, <1>9, <1>10, <1>11, <1>12,
             <1>13, <1>14, <1>15, <1>16, <1>17, <1>18, <1>19, <1>20
         DEF Next, Chip, GoesOn, MacAccess

\* The transaction goes its way.
LEMMA NextCall == IInv /\ BusInv /\ ~MacSlow /\ [Next]_vars => CallInv'
  <1> SUFFICES ASSUME IInv, BusInv, ~MacSlow, [Next]_vars PROVE CallInv'
    OBVIOUS
  <1> USE MiiAssumption DEF csr, mii, inner, result
  <1>1. CASE CsrReads
    BY <1>1 DEF IInv, TypeOK, AccessInv, DataInv, FreeInv, BusInv, FastInv, EffectInv,
                CallInv, CallSent, CallRuns, CallOver, MiiPcs, CrPcs, Ones, NoOp, Ops,
                ReadType, WriteType, CrRegs, AccReads, AccCmds, DataRegs, CsrReads, Register
  <1>2. CASE CsrWrites
    BY <1>2 DEF IInv, TypeOK, AccessInv, DataInv, FreeInv, BusInv, FastInv, EffectInv,
                CallInv, CallSent, CallRuns, CallOver, MiiPcs, CrPcs, Ones, NoOp, Ops,
                ReadType, WriteType, CrRegs, AccReads, AccCmds, DataRegs, CsrWrites
  <1>3. CASE MiiDone
    BY <1>3 DEF IInv, TypeOK, AccessInv, DataInv, FreeInv, BusInv, FastInv, EffectInv,
                CallInv, CallSent, CallRuns, CallOver, MiiPcs, CrPcs, Ones, NoOp, Ops,
                ReadType, WriteType, CrRegs, AccReads, AccCmds, DataRegs, MiiDone
  <1>4. CASE PhyChanges
    BY <1>4 DEF IInv, TypeOK, AccessInv, DataInv, FreeInv, BusInv, FastInv, EffectInv,
                CallInv, CallSent, CallRuns, CallOver, MiiPcs, CrPcs, Ones, NoOp, Ops,
                ReadType, WriteType, CrRegs, AccReads, AccCmds, DataRegs, PhyChanges
  <1>5. CASE MacReadEntry
    BY <1>5 DEF IInv, TypeOK, AccessInv, DataInv, FreeInv, BusInv, FastInv, EffectInv,
                CallInv, CallSent, CallRuns, CallOver, MiiPcs, CrPcs, Ones, NoOp, Ops,
                ReadType, WriteType, CrRegs, AccReads, AccCmds, DataRegs, MacReadEntry
  <1>6. CASE MacWriteEntry
    BY <1>6 DEF IInv, TypeOK, AccessInv, DataInv, FreeInv, BusInv, FastInv, EffectInv,
                CallInv, CallSent, CallRuns, CallOver, MiiPcs, CrPcs, Ones, NoOp, Ops,
                ReadType, WriteType, CrRegs, AccReads, AccCmds, DataRegs, MacWriteEntry
  <1>7. CASE MacBusy
    BY <1>7 DEF IInv, TypeOK, AccessInv, DataInv, FreeInv, BusInv, FastInv, EffectInv,
                CallInv, CallSent, CallRuns, CallOver, MiiPcs, CrPcs, Ones, NoOp, Ops,
                ReadType, WriteType, CrRegs, AccReads, AccCmds, DataRegs, MacBusy
  <1>8. CASE MacTimeout
    BY <1>8 DEF IInv, TypeOK, AccessInv, DataInv, FreeInv, BusInv, FastInv, EffectInv,
                CallInv, CallSent, CallRuns, CallOver, MiiPcs, CrPcs, Ones, NoOp, Ops,
                ReadType, WriteType, CrRegs, AccReads, AccCmds, DataRegs, MacTimeout
  <1>9. CASE MacDone
    BY <1>9 DEF IInv, TypeOK, AccessInv, DataInv, FreeInv, BusInv, FastInv, EffectInv,
                CallInv, CallSent, CallRuns, CallOver, MiiPcs, CrPcs, Ones, NoOp, Ops,
                ReadType, WriteType, CrRegs, AccReads, AccCmds, DataRegs, MacDone
  <1>10. CASE MiiCall
    BY <1>10 DEF IInv, TypeOK, AccessInv, DataInv, FreeInv, BusInv, FastInv, EffectInv,
                 CallInv, CallSent, CallRuns, CallOver, MiiPcs, CrPcs, Ones, NoOp, Ops,
                 ReadType, WriteType, CrRegs, AccReads, AccCmds, DataRegs, MiiCall,
                 StartRead
  <1>11. CASE MiiCheck
    BY <1>11 DEF IInv, TypeOK, AccessInv, DataInv, FreeInv, BusInv, FastInv, EffectInv,
                 CallInv, CallSent, CallRuns, CallOver, MiiPcs, CrPcs, Ones, NoOp, Ops,
                 ReadType, WriteType, CrRegs, AccReads, AccCmds, DataRegs, MiiCheck,
                 StartWrite, Back, AccBusy
  <1>12. CASE MiiStartWrite
    BY <1>12 DEF IInv, TypeOK, AccessInv, DataInv, FreeInv, BusInv, FastInv, EffectInv,
                 CallInv, CallSent, CallRuns, CallOver, MiiPcs, CrPcs, Ones, NoOp, Ops,
                 ReadType, WriteType, CrRegs, AccReads, AccCmds, DataRegs, MiiStartWrite,
                 StartWrite, Back
  <1>13. CASE MiiStarted
    BY <1>13 DEF IInv, TypeOK, AccessInv, DataInv, FreeInv, BusInv, FastInv, EffectInv,
                 CallInv, CallSent, CallRuns, CallOver, MiiPcs, CrPcs, Ones, NoOp, Ops,
                 ReadType, WriteType, CrRegs, AccReads, AccCmds, DataRegs, MiiStarted,
                 StartRead, Back
  <1>14. CASE MiiPoll
    BY <1>14 DEF IInv, TypeOK, AccessInv, DataInv, FreeInv, BusInv, FastInv, EffectInv,
                 CallInv, CallSent, CallRuns, CallOver, MiiPcs, CrPcs, Ones, NoOp, Ops,
                 ReadType, WriteType, CrRegs, AccReads, AccCmds, DataRegs, MiiPoll,
                 StartRead, Back, AccBusy, RoundsLeft
  <1>15. CASE MiiValue
    BY <1>15 DEF IInv, TypeOK, AccessInv, DataInv, FreeInv, BusInv, FastInv, EffectInv,
                 CallInv, CallSent, CallRuns, CallOver, MiiPcs, CrPcs, Ones, NoOp, Ops,
                 ReadType, WriteType, CrRegs, AccReads, AccCmds, DataRegs, MiiValue, Back
  <1>16. CASE CrCall
    BY <1>16 DEF IInv, TypeOK, AccessInv, DataInv, FreeInv, BusInv, FastInv, EffectInv,
                 CallInv, CallSent, CallRuns, CallOver, MiiPcs, CrPcs, Ones, NoOp, Ops,
                 ReadType, WriteType, CrRegs, AccReads, AccCmds, DataRegs, CrCall, StartRead
  <1>17. CASE CrRead
    BY <1>17 DEF IInv, TypeOK, AccessInv, DataInv, FreeInv, BusInv, FastInv, EffectInv,
                 CallInv, CallSent, CallRuns, CallOver, MiiPcs, CrPcs, Ones, NoOp, Ops,
                 ReadType, WriteType, CrRegs, AccReads, AccCmds, DataRegs, CrRead,
                 StartWrite, Back
  <1>18. CASE CrWritten
    BY <1>18 DEF IInv, TypeOK, AccessInv, DataInv, FreeInv, BusInv, FastInv, EffectInv,
                 CallInv, CallSent, CallRuns, CallOver, MiiPcs, CrPcs, Ones, NoOp, Ops,
                 ReadType, WriteType, CrRegs, AccReads, AccCmds, DataRegs, CrWritten, Back
  <1>19. CASE Return
    BY <1>19 DEF IInv, TypeOK, AccessInv, DataInv, FreeInv, BusInv, FastInv, EffectInv,
                 CallInv, CallSent, CallRuns, CallOver, MiiPcs, CrPcs, Ones, NoOp, Ops,
                 ReadType, WriteType, CrRegs, AccReads, AccCmds, DataRegs, Return
  <1>20. CASE UNCHANGED vars
    BY <1>20 DEF IInv, TypeOK, AccessInv, DataInv, FreeInv, BusInv, FastInv, EffectInv,
                 CallInv, CallSent, CallRuns, CallOver, MiiPcs, CrPcs, Ones, NoOp, Ops,
                 ReadType, WriteType, CrRegs, AccReads, AccCmds, DataRegs, vars
  <1> QED BY <1>1, <1>2, <1>3, <1>4, <1>5, <1>6, <1>7, <1>8, <1>9, <1>10, <1>11, <1>12,
             <1>13, <1>14, <1>15, <1>16, <1>17, <1>18, <1>19, <1>20
         DEF Next, Chip, GoesOn, MacAccess

\* The value of a write goes its way.
LEMMA NextValue == IInv /\ BusInv /\ ~MacSlow /\ [Next]_vars => ValueInv'
  <1> SUFFICES ASSUME IInv, BusInv, ~MacSlow, [Next]_vars PROVE ValueInv'
    OBVIOUS
  <1> USE MiiAssumption DEF csr, mii, inner, result
  <1>1. CASE CsrReads
    BY <1>1 DEF IInv, TypeOK, AccessInv, DataInv, BusInv, FastInv, CallInv, CallSent,
                CallRuns, CallOver, ValueInv, MiiPcs, CrPcs, Ones, NoOp, Ops, ReadType,
                WriteType, CrRegs, AccReads, AccCmds, DataRegs, CsrReads, Register
  <1>2. CASE CsrWrites
    BY <1>2 DEF IInv, TypeOK, AccessInv, DataInv, BusInv, FastInv, CallInv, CallSent,
                CallRuns, CallOver, ValueInv, MiiPcs, CrPcs, Ones, NoOp, Ops, ReadType,
                WriteType, CrRegs, AccReads, AccCmds, DataRegs, CsrWrites
  <1>3. CASE MiiDone
    <2>1. op.kind = "write" /\ at \in {"m_start", "m_poll"} => miiOp = "write"
      BY <1>3 DEF IInv, AccessInv, BusInv, CallInv, CallSent, CallRuns, CallOver, MiiDone
    <2>2. at # "m_data"
      BY <1>3 DEF IInv, FreeInv, MiiDone
    <2> QED BY <1>3, <2>1, <2>2 DEF BusInv, ValueInv, MiiDone
  <1>4. CASE PhyChanges
    BY <1>4 DEF IInv, TypeOK, AccessInv, DataInv, BusInv, FastInv, CallInv, CallSent,
                CallRuns, CallOver, ValueInv, MiiPcs, CrPcs, Ones, NoOp, Ops, ReadType,
                WriteType, CrRegs, AccReads, AccCmds, DataRegs, PhyChanges
  <1>5. CASE MacReadEntry
    BY <1>5 DEF IInv, TypeOK, AccessInv, DataInv, BusInv, FastInv, CallInv, CallSent,
                CallRuns, CallOver, ValueInv, MiiPcs, CrPcs, Ones, NoOp, Ops, ReadType,
                WriteType, CrRegs, AccReads, AccCmds, DataRegs, MacReadEntry
  <1>6. CASE MacWriteEntry
    BY <1>6 DEF IInv, TypeOK, AccessInv, DataInv, BusInv, FastInv, CallInv, CallSent,
                CallRuns, CallOver, ValueInv, MiiPcs, CrPcs, Ones, NoOp, Ops, ReadType,
                WriteType, CrRegs, AccReads, AccCmds, DataRegs, MacWriteEntry
  <1>7. CASE MacBusy
    BY <1>7 DEF IInv, TypeOK, AccessInv, DataInv, BusInv, FastInv, CallInv, CallSent,
                CallRuns, CallOver, ValueInv, MiiPcs, CrPcs, Ones, NoOp, Ops, ReadType,
                WriteType, CrRegs, AccReads, AccCmds, DataRegs, MacBusy
  <1>8. CASE MacTimeout
    BY <1>8 DEF IInv, TypeOK, AccessInv, DataInv, BusInv, FastInv, CallInv, CallSent,
                CallRuns, CallOver, ValueInv, MiiPcs, CrPcs, Ones, NoOp, Ops, ReadType,
                WriteType, CrRegs, AccReads, AccCmds, DataRegs, MacTimeout
  <1>9. CASE MacDone
    BY <1>9 DEF IInv, TypeOK, AccessInv, DataInv, BusInv, FastInv, CallInv, CallSent,
                CallRuns, CallOver, ValueInv, MiiPcs, CrPcs, Ones, NoOp, Ops, ReadType,
                WriteType, CrRegs, AccReads, AccCmds, DataRegs, MacDone
  <1>10. CASE MiiCall
    BY <1>10 DEF IInv, TypeOK, AccessInv, DataInv, BusInv, FastInv, CallInv, CallSent,
                 CallRuns, CallOver, ValueInv, MiiPcs, CrPcs, Ones, NoOp, Ops, ReadType,
                 WriteType, CrRegs, AccReads, AccCmds, DataRegs, MiiCall, StartRead
  <1>11. CASE MiiCheck
    BY <1>11 DEF IInv, TypeOK, AccessInv, DataInv, BusInv, FastInv, CallInv, CallSent,
                 CallRuns, CallOver, ValueInv, MiiPcs, CrPcs, Ones, NoOp, Ops, ReadType,
                 WriteType, CrRegs, AccReads, AccCmds, DataRegs, MiiCheck, StartWrite, Back,
                 AccBusy
  <1>12. CASE MiiStartWrite
    BY <1>12 DEF IInv, TypeOK, AccessInv, DataInv, BusInv, FastInv, CallInv, CallSent,
                 CallRuns, CallOver, ValueInv, MiiPcs, CrPcs, Ones, NoOp, Ops, ReadType,
                 WriteType, CrRegs, AccReads, AccCmds, DataRegs, MiiStartWrite, StartWrite,
                 Back
  <1>13. CASE MiiStarted
    BY <1>13 DEF IInv, TypeOK, AccessInv, DataInv, BusInv, FastInv, CallInv, CallSent,
                 CallRuns, CallOver, ValueInv, MiiPcs, CrPcs, Ones, NoOp, Ops, ReadType,
                 WriteType, CrRegs, AccReads, AccCmds, DataRegs, MiiStarted, StartRead, Back
  <1>14. CASE MiiPoll
    BY <1>14 DEF IInv, TypeOK, AccessInv, DataInv, BusInv, FastInv, CallInv, CallSent,
                 CallRuns, CallOver, ValueInv, MiiPcs, CrPcs, Ones, NoOp, Ops, ReadType,
                 WriteType, CrRegs, AccReads, AccCmds, DataRegs, MiiPoll, StartRead, Back,
                 AccBusy, RoundsLeft
  <1>15. CASE MiiValue
    BY <1>15 DEF IInv, TypeOK, AccessInv, DataInv, BusInv, FastInv, CallInv, CallSent,
                 CallRuns, CallOver, ValueInv, MiiPcs, CrPcs, Ones, NoOp, Ops, ReadType,
                 WriteType, CrRegs, AccReads, AccCmds, DataRegs, MiiValue, Back
  <1>16. CASE CrCall
    BY <1>16 DEF IInv, TypeOK, AccessInv, DataInv, BusInv, FastInv, CallInv, CallSent,
                 CallRuns, CallOver, ValueInv, MiiPcs, CrPcs, Ones, NoOp, Ops, ReadType,
                 WriteType, CrRegs, AccReads, AccCmds, DataRegs, CrCall, StartRead
  <1>17. CASE CrRead
    BY <1>17 DEF IInv, TypeOK, AccessInv, DataInv, BusInv, FastInv, CallInv, CallSent,
                 CallRuns, CallOver, ValueInv, MiiPcs, CrPcs, Ones, NoOp, Ops, ReadType,
                 WriteType, CrRegs, AccReads, AccCmds, DataRegs, CrRead, StartWrite, Back
  <1>18. CASE CrWritten
    BY <1>18 DEF IInv, TypeOK, AccessInv, DataInv, BusInv, FastInv, CallInv, CallSent,
                 CallRuns, CallOver, ValueInv, MiiPcs, CrPcs, Ones, NoOp, Ops, ReadType,
                 WriteType, CrRegs, AccReads, AccCmds, DataRegs, CrWritten, Back
  <1>19. CASE Return
    BY <1>19 DEF IInv, TypeOK, AccessInv, DataInv, BusInv, FastInv, CallInv, CallSent,
                 CallRuns, CallOver, ValueInv, MiiPcs, CrPcs, Ones, NoOp, Ops, ReadType,
                 WriteType, CrRegs, AccReads, AccCmds, DataRegs, Return
  <1>20. CASE UNCHANGED vars
    BY <1>20 DEF IInv, TypeOK, AccessInv, DataInv, BusInv, FastInv, CallInv, CallSent,
                 CallRuns, CallOver, ValueInv, MiiPcs, CrPcs, Ones, NoOp, Ops, ReadType,
                 WriteType, CrRegs, AccReads, AccCmds, DataRegs, vars
  <1> QED BY <1>1, <1>2, <1>3, <1>4, <1>5, <1>6, <1>7, <1>8, <1>9, <1>10, <1>11, <1>12,
             <1>13, <1>14, <1>15, <1>16, <1>17, <1>18, <1>19, <1>20
         DEF Next, Chip, GoesOn, MacAccess

\* Every step keeps it.
LEMMA NextBusInv == IInv /\ BusInv /\ ~MacSlow /\ [Next]_vars => BusInv'
  BY NextFast, NextEffect, NextCr, NextCall, NextValue DEF BusInv

\* A call of the PHY layer is what its transaction says.
LEMMA CallFacts ==
    ASSUME TypeOK, op.kind \in {"read", "write"}
    PROVE  /\ op \in Ops /\ op # NoOp /\ op.idx \in PhyRegs
           /\ op.kind = "read" => op = [kind |-> "read", idx |-> op.idx]
           /\ op.kind = "write" => op = [kind |-> "write", idx |-> op.idx, val |-> op.val]
  <1>1. op \in Ops
    BY DEF TypeOK, NoOp
  <1>2. CASE op \in [kind : {"read"}, idx : PhyRegs]
    BY <1>1, <1>2 DEF NoOp
  <1>3. CASE op \in [kind : {"write"}, idx : PhyRegs, val : Values]
    BY <1>1, <1>3 DEF NoOp
  <1> QED BY <1>1, <1>2, <1>3 DEF Ops

\* What a call leaves behind does not depend on the MAC, nor, while it is
\* between its check and its return, on the MII.
LEMMA LateFacts ==
    ASSUME TypeOK
    PROVE  /\ at \in {"m_data", "m_start", "m_poll", "m_val"} => Late = NoOp
           /\ miiOp = "none" => Late = NoOp
           /\ at \notin {"m_data", "m_start", "m_poll", "m_val"} /\ miiOp # "none" =>
                /\ Late # NoOp /\ Late.kind = miiOp /\ Late.idx = miiIdx
                /\ miiOp = "write" => Late.val = miiData
  BY DEF Late, NoOp, TypeOK

\* Steps of the chip are steps of the bus, or none.
LEMMA ChipRefines ==
    ASSUME IInv, BusInv, ~MacSlow, Chip
    PROVE  [Bus!Next]_(Bus!vars)
  <1> USE DEF csr, mii, inner, result, Bus!vars
  <1>1. TypeOK
    BY DEF IInv
  <1>2. CASE CsrReads
    BY <1>2 DEF CsrReads, Late
  <1>3. CASE CsrWrites
    <2>1. ~csrRead /\ mac = "w_wait" /\ csrOff = macOff
      BY <1>3 DEF IInv, AccessInv, DataInv, BusInv, FastInv, CsrWrites
    <2>2. CASE csrOff = "MAC_CR"
      <3>1. at = "cr_write" /\ csrBusy
        BY <1>1, <1>3, <2>1, <2>2 DEF IInv, TypeOK, AccessInv, MiiPcs, CrPcs, CsrWrites
      <3>2. op.kind = "cr" /\ ret = "none" /\ done = NoOp /\ csrData = [cr |-> CrModify(cr)]
        BY <3>1 DEF IInv, AccessInv, CrPcs, BusInv, EffectInv, CrInv
      <3>3. cr' = (cr \cup op.set) \ op.clear /\ done' = [kind |-> "cr"] /\ Late' = Late
        BY <1>3, <2>2, <3>1, <3>2 DEF CsrWrites, CrModify, Late
      <3>4. Bus!PerformCr
        BY <1>3, <3>2, <3>3 DEF CsrWrites, Bus!PerformCr, Bus!NoOp, NoOp
      <3> QED BY <3>4 DEF Bus!Next
    <2>3. CASE csrOff # "MAC_CR"
      <3>1. at \in {"m_data", "m_start"}
        BY <1>1, <1>3, <2>1, <2>3 DEF IInv, TypeOK, AccessInv, MiiPcs, CrPcs
      <3>2. Late = NoOp /\ Late' = NoOp
        BY <1>3, <3>1 DEF CsrWrites, Late
      <3> QED BY <1>3, <2>3, <3>2 DEF CsrWrites
    <2> QED BY <2>2, <2>3
  <1>4. CASE MiiDone
    <2>1. CASE at \in {"m_start", "m_poll"}
      <3>1. CallRuns /\ op.kind \in {"read", "write"} /\ ret = "none"
        BY <1>4, <2>1 DEF IInv, AccessInv, MiiPcs, BusInv, CallInv, CallSent, CallOver,
                          EffectInv,
                          MiiDone
      <3>2. Late = NoOp /\ Late' = NoOp
        BY <1>4, <2>1 DEF MiiDone, Late
      <3>3. op.kind = "write" => op.val = miiData
        BY <2>1 DEF BusInv, ValueInv
      <3>4. phy' = Bus!PhyAfter(op) /\ done' = Bus!Record(op)
        BY <1>4, <2>1, <3>1, <3>3 DEF MiiDone, CallRuns, Bus!PhyAfter, Bus!Record
      <3>5. Bus!Perform
        BY <1>4, <3>1, <3>2, <3>4 DEF MiiDone, CallRuns, Bus!Perform, Bus!NoOp, NoOp
      <3> QED BY <3>5 DEF Bus!Next
    <2>2. CASE at \notin {"m_start", "m_poll"}
      <3>1. at \notin {"m_data", "m_val"}
        BY <1>4 DEF IInv, FreeInv, BusInv, CallInv, CallOver, MiiDone
      <3>2. /\ Late # NoOp /\ Late.kind = miiOp /\ Late.idx = miiIdx
            /\ miiOp = "write" => Late.val = miiData
        BY <1>1, <1>4, <2>2, <3>1, LateFacts DEF MiiDone
      <3>3. Late' = NoOp /\ done' = done
        BY <1>4, <2>2 DEF MiiDone, Late
      <3>4. phy' = Bus!PhyAfter(Late)
        BY <1>4, <3>2 DEF MiiDone, Bus!PhyAfter
      <3>5. Bus!RunLate
        BY <1>4, <3>2, <3>3, <3>4 DEF MiiDone, Bus!RunLate, Bus!NoOp, NoOp
      <3> QED BY <3>5 DEF Bus!Next
    <2> QED BY <2>1, <2>2
  <1>5. CASE PhyChanges
    <2>1. phy' \in [PhyRegs -> Values] /\ Late' = Late
      BY <1>1, <1>5 DEF TypeOK, PhyChanges, Late
    <2>2. Bus!PhyChanges
      BY <1>5, <2>1 DEF PhyChanges, Bus!PhyChanges
    <2> QED BY <2>2 DEF Bus!Next
  <1> QED BY <1>2, <1>3, <1>4, <1>5 DEF Chip

\* Steps of mii_read and mii_write are steps of the bus, or none.
LEMMA MiiRefines ==
    ASSUME IInv, BusInv, ~MacSlow,
           MiiCall \/ MiiCheck \/ MiiStartWrite \/ MiiStarted \/ MiiPoll \/ MiiValue
    PROVE  [Bus!Next]_(Bus!vars)
  <1> USE DEF csr, mii, inner, result, Bus!vars, StartRead, StartWrite, Back
  <1>1. TypeOK
    BY DEF IInv
  <1>2. CASE MiiCall
    <2>1. op = NoOp /\ Late' = Late
      BY <1>2 DEF IInv, AccessInv, MiiCall, Late
    <2>2. Bus!Begin
      BY <1>2, <2>1 DEF MiiCall, Bus!Begin, Bus!NoOp, NoOp, Bus!Ops, Ops
    <2> QED BY <2>2 DEF Bus!Next
  <1>3. CASE MiiCheck
    <2>1. op.kind \in {"read", "write"} /\ ret = "none"
      BY <1>3 DEF IInv, AccessInv, MiiPcs, BusInv, EffectInv, MiiCheck
    <2>2. CASE AccBusy
      <3>1. Late' = Late /\ ret' = "error"
        BY <1>3, <2>2 DEF MiiCheck, Late
      <3>2. Bus!Fail
        BY <1>3, <2>1, <2>2, <3>1 DEF MiiCheck, Bus!Fail
      <3> QED BY <3>2 DEF Bus!Next
    <2>3. CASE ~AccBusy
      <3>1. macVal = [busy |-> FALSE]
        BY <1>1, <1>3, <2>3 DEF IInv, AccessInv, DataInv, ReadType, AccReads, AccBusy,
                                MiiCheck
      <3>2. miiOp = "none"
        BY <1>3, <3>1 DEF IInv, FreeInv, MiiCheck
      <3>3. Late' = Late
        BY <1>3, <2>3, <3>2 DEF MiiCheck, Late
      <3> QED BY <1>3, <2>3, <3>3 DEF MiiCheck
    <2> QED BY <2>2, <2>3
  <1>4. CASE MiiStartWrite \/ MiiStarted
    BY <1>4 DEF MiiStartWrite, MiiStarted, Late
  <1>5. CASE MiiPoll
    <2>1. op.kind \in {"read", "write"} /\ ret = "none" /\ Late = NoOp
      BY <1>5 DEF IInv, AccessInv, MiiPcs, BusInv, EffectInv, MiiPoll, Late
    <2>2. CASE AccBusy /\ RoundsLeft
      BY <1>5, <2>2 DEF MiiPoll, Late
    <2>3. CASE AccBusy /\ ~RoundsLeft
      <3>1. /\ at' = "ret" /\ ret' = "error"
            /\ UNCHANGED <<phy, cr, op, done, val, miiOp, miiIdx, miiData>>
        BY <1>5, <2>3 DEF MiiPoll
      <3>2. CASE miiOp = "none"
        <4>1. Late' = NoOp
          BY <3>1, <3>2 DEF Late
        <4>2. Bus!Fail
          BY <2>1, <3>1, <4>1 DEF Bus!Fail
        <4> QED BY <4>2 DEF Bus!Next
      <3>3. CASE miiOp # "none"
        <4>1. CallRuns
          BY <1>5, <3>3 DEF BusInv, CallInv, CallSent, CallOver, MiiPoll
        <4>2. op.kind = "write" => op.val = miiData
          BY <1>5 DEF BusInv, ValueInv, MiiPoll
        <4>3. Late' = op
          BY <1>1, <2>1, <3>1, <3>3, <4>1, <4>2, CallFacts DEF CallRuns, Late
        <4>4. Bus!Fail
          BY <2>1, <3>1, <4>1, <4>3 DEF Bus!Fail, CallRuns, Bus!NoOp, NoOp
        <4> QED BY <4>4 DEF Bus!Next
      <3> QED BY <3>2, <3>3
    <2>4. CASE ~AccBusy
      <3>1. macVal = [busy |-> FALSE]
        BY <1>1, <1>5, <2>4 DEF IInv, AccessInv, DataInv, ReadType, AccReads, AccBusy,
                                MiiPoll
      <3>2. CallOver
        BY <1>5, <3>1 DEF BusInv, CallInv, MiiPoll
      <3>3. Late' = NoOp
        BY <1>5, <2>4, <3>2 DEF MiiPoll, Late, CallOver
      <3>4. CASE op.kind = "read"
        BY <1>5, <2>1, <2>4, <3>3, <3>4 DEF MiiPoll
      <3>5. CASE op.kind = "write"
        <4>1. done # NoOp /\ done.kind = "write"
          BY <3>2, <3>5 DEF CallOver, NoOp
        <4>2. Bus!Succeed
          BY <1>5, <2>1, <2>4, <3>3, <3>5, <4>1 DEF MiiPoll, Bus!Succeed, Bus!NoOp, NoOp
        <4> QED BY <4>2 DEF Bus!Next
      <3> QED BY <2>1, <3>4, <3>5
    <2> QED BY <2>2, <2>3, <2>4
  <1>6. CASE MiiValue
    <2>1. macVal # Ones /\ CallOver /\ op.kind = "read" /\ ret = "none"
      BY <1>6 DEF IInv, AccessInv, BusInv, FastInv, EffectInv, CallInv, MiiValue
    <2>2. macVal = [data |-> miiData]
      BY <1>6, <2>1 DEF IInv, ReadInv, MiiValue
    <2>3. Late = NoOp /\ Late' = NoOp
      BY <1>6, <2>1 DEF CallOver, MiiValue, Late
    <2>4. done # NoOp /\ done.kind = "read" /\ done.val = miiData
      BY <2>1 DEF CallOver, NoOp
    <2>5. ret' = "ok" /\ val' = miiData
      BY <1>6, <2>1, <2>2 DEF MiiValue
    <2>6. Bus!Succeed
      BY <1>6, <2>1, <2>3, <2>4, <2>5 DEF MiiValue, Bus!Succeed, Bus!NoOp, NoOp
    <2> QED BY <2>6 DEF Bus!Next
  <1> QED BY <1>2, <1>3, <1>4, <1>5, <1>6

\* Updates of MAC_CR and returns are steps of the bus; accesses of the MAC are none.
LEMMA CrRefines ==
    ASSUME IInv, BusInv, ~MacSlow, CrCall \/ CrRead \/ CrWritten \/ Return \/ MacAccess
    PROVE  [Bus!Next]_(Bus!vars)
  <1> USE DEF csr, mii, inner, result, Bus!vars, StartRead, StartWrite, Back
  <1>1. CASE CrCall
    <2>1. op = NoOp /\ Late' = Late
      BY <1>1 DEF IInv, AccessInv, CrCall, Late
    <2>2. Bus!Begin
      BY <1>1, <2>1 DEF CrCall, Bus!Begin, Bus!NoOp, NoOp, Bus!Ops, Ops
    <2> QED BY <2>2 DEF Bus!Next
  <1>2. CASE CrRead
    BY <1>2 DEF CrRead, Late
  <1>3. CASE CrWritten
    <2>1. ret = "none" /\ done = [kind |-> "cr"]
      BY <1>3 DEF BusInv, FastInv, EffectInv, CrInv, CrWritten
    <2>2. Late' = Late
      BY <1>3 DEF CrWritten, Late
    <2>3. Bus!Succeed
      BY <1>3, <2>1, <2>2 DEF CrWritten, Bus!Succeed, Bus!NoOp
    <2> QED BY <2>3 DEF Bus!Next
  <1>4. CASE Return
    <2>1. ret # "none" /\ Late' = Late
      BY <1>4 DEF BusInv, EffectInv, Return, Late
    <2>2. Bus!Return
      BY <1>4, <2>1 DEF Return, Bus!Return, Bus!NoOp, NoOp
    <2> QED BY <2>2 DEF Bus!Next
  <1>5. CASE MacAccess
    BY <1>5 DEF MacAccess, MacReadEntry, MacWriteEntry, MacBusy, MacTimeout, MacDone, Late
  <1> QED BY <1>1, <1>2, <1>3, <1>4, <1>5

\* With a MAC that answers in time, every call of mii_read and mii_write and every
\* update of MAC_CR is atomic: the two polling layers implement MdioBus.
THEOREM CallsAreAtomic == ~MacSlow => (Spec => ImplementsBus)
  <1> SUFFICES ASSUME ~MacSlow PROVE Spec => ImplementsBus
    OBVIOUS
  <1>1. Init => Bus!Init
    BY DEF Init, Bus!Init, Late, NoOp, Bus!NoOp
  <1>2. IInv /\ BusInv /\ [Next]_vars => [Bus!Next]_(Bus!vars)
    <2> SUFFICES ASSUME IInv, BusInv, [Next]_vars PROVE [Bus!Next]_(Bus!vars)
      OBVIOUS
    <2>1. CASE UNCHANGED vars
      BY <2>1 DEF vars, Bus!vars, Late
    <2> QED BY <2>1, ChipRefines, MiiRefines, CrRefines DEF Next, GoesOn
  <1>3. IInv /\ BusInv /\ [Next]_vars => BusInv'
    BY NextBusInv
  <1>4. Spec => []BusInv
    BY <1>3, InitBusInv, Invariance, PTL DEF Spec
  <1> QED BY <1>1, <1>2, <1>4, Invariance, PTL DEF Spec, ImplementsBus, Bus!Spec

=============================================================================
