--------------------------- MODULE SmscEepromProof ---------------------------
(***************************************************************************)
(* Proofs about the EEPROM, for any size, any number of polls and commands *)
(* that outlast the call that started them.                                *)
(***************************************************************************)
EXTENDS SmscEeprom, TLAPS

-----------------------------------------------------------------------------
(* The inductive invariant.                                                 *)

\* ethtool's check of the range lasts for all its loop.
RangeInv == off + len <= Size

KindInv == kind = "get" <=> step = "read"

Calling == pc \in {"send", "poll"}

\* The callers know that a location is being set ...
AttemptInv ==
    Calling /\ step \in {"ewen", "erase", "write"} =>
        Erased \in may[off] /\ data[off] \in may[off]

\* ... and whatever is still in progress, this call's command or one that an
\* earlier call gave up, can only leave what they know of.
PendingInv ==
    /\ epc.op = "erase" => Erased \in may[epc.a]
    /\ epc.op = "write" => e2pData \in may[epc.a]

\* One who polls polls for its own command.
PollInv == pc = "poll" => epc \in {Idle, Command}

\* A write begins after a good erase, so that no other command is in progress and
\* the byte in E2P_DATA is its own until it ends.
WriteInv ==
    Calling /\ step = "write" =>
        /\ e2pData = data[off]
        /\ pc = "send" => epc = Idle
        /\ pc = "poll" /\ epc = Idle /\ ~failed => rom[off] = data[off]

ReadInv == pc = "poll" /\ step = "read" /\ epc = Idle /\ ~failed => e2pData = rom[i]

\* What was read remains true: once a read was started, no erase and no write of
\* an earlier call is in progress.
GetInv ==
    step = "read" =>
        /\ pc = "send" /\ i > 0 => epc = Idle
        /\ Calling => \A a \in Loc : a < i => buf[a] = rom[a]
        /\ pc = "done" /\ ret = "ok" => epc = Idle /\ \A a \in Loc : a < len => buf[a] = rom[a]

IInv ==
    /\ TypeOK /\ RangeInv /\ KindInv /\ AttemptInv /\ PendingInv
    /\ PollInv /\ WriteInv /\ ReadInv /\ GetInv /\ RomAsReported

-----------------------------------------------------------------------------
(* The invariant is inductive.                                              *)

\* The invariant holds when the driver is loaded.
LEMMA InitIInv == Init => IInv
  <1> SUFFICES ASSUME Init PROVE IInv
    OBVIOUS
  <1> USE EepromAssumption
  <1>1. 0 \in Loc
    BY DEF Loc
  <1>2. epc \in Commands
    BY <1>1 DEF Init, Commands, Idle
  <1>3. wren \in BOOLEAN /\ failed \in BOOLEAN
    BY DEF Init
  <1>4. TypeOK
    BY <1>1, <1>2, <1>3 DEF Init, TypeOK, Steps, Results
  <1>5. RangeInv /\ KindInv
    BY DEF Init, RangeInv, KindInv
  <1>6. AttemptInv /\ PendingInv /\ PollInv /\ WriteInv /\ ReadInv /\ GetInv
    BY DEF Init, AttemptInv, PendingInv, PollInv, WriteInv, ReadInv, GetInv, Calling, Idle
  <1>7. RomAsReported
    BY DEF Init, RomAsReported
  <1> QED BY <1>4, <1>5, <1>6, <1>7 DEF IInv

\* No command is the absence of one.
LEMMA CommandFacts ==
    ASSUME TypeOK
    PROVE  /\ Command \in Commands /\ Command # Idle /\ Command.op = step
           /\ step = "read" => Command.a = i
           /\ step \in {"erase", "write"} => Command.a = off
           /\ Idle \in Commands /\ Reload \in Commands
           /\ Idle.op = "none" /\ Reload.op = "reload"
  <1> USE EepromAssumption
  <1>1. 0 \in Loc
    BY DEF Loc
  <1>2. /\ Command.op = step
        /\ step = "read" => Command.a = i
        /\ step \in {"erase", "write"} => Command.a = off
    BY DEF Command
  <1>3. Command.a \in Loc
    <2>1. CASE step = "read"
      BY <1>2, <2>1 DEF TypeOK
    <2>2. CASE step \in {"erase", "write"}
      BY <1>2, <2>2 DEF TypeOK
    <2>3. CASE step \in {"ewen", "ewds"}
      BY <1>1, <2>3 DEF Command
    <2> QED BY <2>1, <2>2, <2>3 DEF TypeOK, Steps
  <1>4. Command \in Commands
    BY <1>2, <1>3 DEF TypeOK, Commands, Command
  <1>5. Command # Idle
    BY <1>2 DEF TypeOK, Idle, Steps
  <1> QED BY <1>1, <1>2, <1>4, <1>5 DEF Idle, Reload, Commands

\* The effect of the command in progress is one that the callers know of.
LEMMA EffectFacts ==
    ASSUME TypeOK, PendingInv, RomAsReported, Effect(epc)
    PROVE  /\ rom' \in [Loc -> Bytes] /\ wren' \in BOOLEAN /\ e2pData' \in Bytes
           /\ \A a \in Loc : rom'[a] \in may[a]
           /\ epc.op \notin {"erase", "write"} => rom' = rom
           /\ epc.op # "read" => e2pData' = e2pData
           /\ epc.op = "read" => e2pData' = rom[epc.a]
           /\ epc.op = "write" /\ wren => rom'[epc.a] = e2pData
  <1> USE EepromAssumption DEF TypeOK, Commands
  <1>1. epc.a \in Loc /\ epc.op \in Steps \cup {"none", "reload"}
    OBVIOUS
  <1>2. wren' \in BOOLEAN
    BY DEF Effect
  <1>3. e2pData' \in Bytes
    BY <1>1 DEF Effect
  <1>4. CASE epc.op = "erase" /\ wren
    <2>1. rom' = [rom EXCEPT ![epc.a] = Erased]
      BY <1>4 DEF Effect
    <2> QED BY <1>1, <1>2, <1>3, <1>4, <2>1 DEF Effect, PendingInv, RomAsReported
  <1>5. CASE epc.op = "write" /\ wren
    <2>1. rom' = [rom EXCEPT ![epc.a] = e2pData]
      BY <1>5 DEF Effect
    <2> QED BY <1>1, <1>2, <1>3, <1>5, <2>1 DEF Effect, PendingInv, RomAsReported
  <1>6. CASE ~(epc.op \in {"erase", "write"} /\ wren)
    <2>1. rom' = rom
      BY <1>6 DEF Effect
    <2> QED BY <1>2, <1>3, <1>6, <2>1 DEF Effect, RomAsReported
  <1> QED BY <1>4, <1>5, <1>6

\* Steps of the EEPROM controller keep the invariant.
LEMMA IInv_Chip == IInv /\ Chip => IInv'
  <1> SUFFICES ASSUME IInv, Chip PROVE IInv'
    OBVIOUS
  <1> USE EepromAssumption
  <1>1. TypeOK /\ PendingInv /\ RomAsReported
    BY DEF IInv
  <1>2. CASE EpcDone
    <2>1. TypeOK'
      BY <1>1, <1>2, EffectFacts, CommandFacts DEF TypeOK, EpcDone
    <2>2. RangeInv' /\ KindInv' /\ AttemptInv'
      BY <1>2 DEF IInv, EpcDone, RangeInv, KindInv, AttemptInv, Calling
    <2>3. PendingInv' /\ PollInv'
      BY <1>1, <1>2, CommandFacts DEF EpcDone, PendingInv, PollInv
    <2>4. WriteInv'
      BY <1>1, <1>2, EffectFacts, CommandFacts DEF IInv, EpcDone, PollInv, WriteInv, Calling
    <2>5. ReadInv'
      BY <1>1, <1>2, EffectFacts, CommandFacts DEF IInv, EpcDone, PollInv, ReadInv
    <2>6. GetInv'
      <3>1. pc = "poll" /\ step = "read" => rom' = rom
        BY <1>1, <1>2, EffectFacts, CommandFacts DEF IInv, EpcDone, PollInv
      <3> QED BY <1>2, <3>1 DEF IInv, TypeOK, EpcDone, GetInv, Calling, Loc
    <2>7. RomAsReported'
      BY <1>1, <1>2, EffectFacts DEF EpcDone, RomAsReported
    <2> QED BY <2>1, <2>2, <2>3, <2>4, <2>5, <2>6, <2>7 DEF IInv
  <1>3. CASE EpcTimeout
    <2>1. \/ epc.op # "read" /\ Effect(epc)
          \/ UNCHANGED <<rom, wren, e2pData>>
      BY <1>3 DEF EpcTimeout
    <2>2. /\ rom' \in [Loc -> Bytes] /\ wren' \in BOOLEAN /\ e2pData' = e2pData
          /\ \A a \in Loc : rom'[a] \in may[a]
          /\ epc.op \notin {"erase", "write"} => rom' = rom
      BY <1>1, <2>1, EffectFacts DEF TypeOK, RomAsReported
    <2>3. TypeOK'
      BY <1>1, <1>3, <2>2, CommandFacts DEF TypeOK, EpcTimeout
    <2>4. RangeInv' /\ KindInv' /\ AttemptInv'
      BY <1>3 DEF IInv, EpcTimeout, RangeInv, KindInv, AttemptInv, Calling
    <2>5. PendingInv' /\ PollInv'
      BY <1>1, <1>3, CommandFacts DEF EpcTimeout, PendingInv, PollInv
    <2>6. WriteInv' /\ ReadInv'
      BY <1>3, <2>2 DEF IInv, EpcTimeout, WriteInv, ReadInv, Calling
    <2>7. GetInv'
      <3>1. pc = "poll" /\ step = "read" => rom' = rom
        BY <1>1, <1>3, <2>2, CommandFacts DEF IInv, EpcTimeout, PollInv
      <3>2. epc # Idle
        BY <1>1, <1>3, CommandFacts DEF EpcTimeout
      <3> QED BY <1>3, <3>1, <3>2 DEF IInv, TypeOK, EpcTimeout, GetInv, Calling, Loc
    <2>8. RomAsReported'
      BY <1>3, <2>2 DEF EpcTimeout, RomAsReported
    <2> QED BY <2>3, <2>4, <2>5, <2>6, <2>7, <2>8 DEF IInv
  <1>4. CASE OpenReset
    <2>1. /\ rom' \in [Loc -> Bytes] /\ wren' \in BOOLEAN /\ e2pData' \in Bytes
          /\ \A a \in Loc : rom'[a] \in may[a]
      BY <1>1, <1>4, EffectFacts DEF OpenReset, TypeOK, RomAsReported
    <2>2. TypeOK'
      BY <1>1, <1>4, <2>1, CommandFacts DEF TypeOK, OpenReset
    <2>3. RangeInv' /\ KindInv'
      BY <1>4 DEF IInv, OpenReset, RangeInv, KindInv
    <2>4. PendingInv'
      BY <1>1, <1>4, CommandFacts DEF OpenReset, PendingInv
    <2>5. (AttemptInv /\ PollInv /\ WriteInv /\ ReadInv /\ GetInv)'
      BY <1>4 DEF OpenReset, AttemptInv, PollInv, WriteInv, ReadInv, GetInv, Calling
    <2>6. RomAsReported'
      BY <1>4, <2>1 DEF OpenReset, RomAsReported
    <2> QED BY <2>2, <2>3, <2>4, <2>5, <2>6 DEF IInv
  <1> QED BY <1>2, <1>3, <1>4 DEF Chip

\* What follows a command keeps the invariant, if a command is taken for done only
\* when it is.
LEMMA IInv_After ==
    ASSUME IInv, NEW r \in Results, Calling, After(r),
           r = "ok" => pc = "poll" /\ epc = Idle /\ ~failed,
           UNCHANGED <<rom, wren, epc, failed, kind, data>>, tries' \in 0..Polls
    PROVE  IInv'
  <1> USE EepromAssumption
  <1>1. TypeOK
    BY DEF IInv
  <1>2. CASE AfterRead(r)
    <2>1. TypeOK'
      BY <1>1, <1>2 DEF AfterRead, TypeOK, Loc
    <2>2. (RangeInv /\ KindInv /\ AttemptInv /\ PendingInv /\ PollInv /\ WriteInv /\ ReadInv)'
      BY <1>2 DEF IInv, AfterRead, RangeInv, KindInv, AttemptInv, PendingInv, PollInv, WriteInv,
                  ReadInv, Calling
    <2>3. GetInv'
      <3>1. CASE r = "ok"
        <4>1. epc = Idle /\ e2pData = rom[i] /\ \A a \in Loc : a < i => buf[a] = rom[a]
          BY <1>2, <3>1 DEF IInv, AfterRead, ReadInv, GetInv, Calling
        <4>2. \A a \in Loc : a < i + 1 => buf'[a] = rom'[a]
          BY <1>1, <1>2, <3>1, <4>1 DEF AfterRead, TypeOK, Loc
        <4>3. CASE i + 1 < len
          BY <1>2, <3>1, <4>1, <4>2, <4>3 DEF AfterRead, GetInv, Calling
        <4>4. CASE ~(i + 1 < len)
          <5>1. \A a \in Loc : a < len' => buf'[a] = rom'[a]
            BY <1>1, <1>2, <4>2, <4>4 DEF AfterRead, TypeOK, Loc
          <5> QED BY <1>2, <3>1, <4>1, <4>4, <5>1 DEF AfterRead, GetInv, Calling
        <4> QED BY <4>3, <4>4
      <3>2. CASE r # "ok"
        BY <1>2, <3>2 DEF AfterRead, GetInv, Calling
      <3> QED BY <3>1, <3>2
    <2>4. RomAsReported'
      BY <1>2 DEF IInv, AfterRead, RomAsReported
    <2> QED BY <2>1, <2>2, <2>3, <2>4 DEF IInv
  <1>3. CASE AfterEwen(r)
    <2>1. TypeOK'
      BY <1>1, <1>3 DEF AfterEwen, TypeOK, Steps
    <2>2. (RangeInv /\ KindInv /\ AttemptInv /\ PendingInv /\ PollInv /\ WriteInv /\ ReadInv)'
      BY <1>3 DEF IInv, AfterEwen, RangeInv, KindInv, AttemptInv, PendingInv, PollInv, WriteInv,
                  ReadInv, Calling
    <2>3. GetInv' /\ RomAsReported'
      BY <1>3 DEF IInv, AfterEwen, GetInv, RomAsReported
    <2> QED BY <2>1, <2>2, <2>3 DEF IInv
  <1>4. CASE AfterErase(r)
    <2>1. TypeOK'
      BY <1>1, <1>4 DEF AfterErase, TypeOK, Steps
    <2>2. (RangeInv /\ KindInv /\ AttemptInv /\ PollInv /\ ReadInv)'
      BY <1>4 DEF IInv, AfterErase, RangeInv, KindInv, AttemptInv, PollInv, ReadInv, Calling
    <2>3. PendingInv' /\ WriteInv'
      BY <1>4 DEF IInv, AfterErase, PendingInv, WriteInv, Calling, Idle
    <2>4. GetInv' /\ RomAsReported'
      BY <1>4 DEF IInv, AfterErase, GetInv, RomAsReported
    <2> QED BY <2>1, <2>2, <2>3, <2>4 DEF IInv
  <1>5. CASE AfterWrite(r)
    <2>1. TypeOK'
      BY <1>1, <1>5 DEF AfterWrite, TypeOK, Steps
    <2>2. (RangeInv /\ KindInv /\ AttemptInv /\ PollInv /\ WriteInv /\ ReadInv /\ GetInv)'
      BY <1>5 DEF IInv, AfterWrite, RangeInv, KindInv, AttemptInv, PollInv, WriteInv, ReadInv,
                  GetInv
    <2>3. PendingInv'
      BY <1>5 DEF IInv, AfterWrite, PendingInv, Idle
    <2>4. RomAsReported'
      <3>1. r = "ok" => rom[off] = data[off]
        BY <1>5 DEF IInv, AfterWrite, WriteInv, Calling
      <3> QED BY <1>1, <1>5, <3>1 DEF IInv, TypeOK, AfterWrite, RomAsReported
    <2> QED BY <2>1, <2>2, <2>3, <2>4 DEF IInv
  <1>6. CASE AfterEwds(r)
    <2>1. ret = "ok" /\ len > 1 => off + 1 \in Loc
      BY <1>1 DEF IInv, RangeInv, TypeOK, Loc
    <2>2. /\ may' \in [Loc -> SUBSET Bytes]
          /\ \A a \in Loc : may[a] \subseteq may'[a]
      BY <1>1, <1>6, <2>1 DEF AfterEwds, Attempt, TypeOK
    <2>3. TypeOK'
      BY <1>1, <1>6, <2>1, <2>2 DEF AfterEwds, TypeOK, Steps
    <2>4. AttemptInv'
      BY <1>1, <1>6, <2>1 DEF AfterEwds, Attempt, AttemptInv, TypeOK, Calling
    <2>5. (RangeInv /\ KindInv /\ PollInv /\ WriteInv /\ ReadInv /\ GetInv)'
      <3>1. RangeInv'
        BY <1>1, <1>6 DEF IInv, TypeOK, Loc, AfterEwds, RangeInv
      <3>2. step' \in {"ewen", "ewds"} /\ pc' # "poll" /\ kind # "get"
        BY <1>6 DEF IInv, KindInv, AfterEwds
      <3> QED BY <3>1, <3>2 DEF KindInv, PollInv, WriteInv, ReadInv, GetInv
    <2>6. PendingInv'
      BY <1>1, <1>6, <2>2 DEF IInv, TypeOK, Commands, AfterEwds, PendingInv
    <2>7. RomAsReported'
      BY <2>2 DEF IInv, RomAsReported
    <2> QED BY <2>3, <2>4, <2>5, <2>6, <2>7 DEF IInv
  <1> QED BY <1>2, <1>3, <1>4, <1>5, <1>6 DEF After

\* smsc911x_eeprom_send_cmd and the return of a call keep the invariant.
LEMMA IInv_Driver == IInv /\ Driver => IInv'
  <1> SUFFICES ASSUME IInv, Driver PROVE IInv'
    OBVIOUS
  <1> USE EepromAssumption
  <1>1. TypeOK
    BY DEF IInv
  <1>2. CASE SendBusy
    BY <1>1, <1>2, IInv_After DEF SendBusy, chip, Results, Calling, TypeOK
  <1>3. CASE SendStart
    <2> USE DEF SendStart, call
    <2>1. TypeOK'
      <3>1. failed' \in BOOLEAN
        BY <1>1, <1>3 DEF TypeOK
      <3> QED BY <1>1, <1>3, <3>1, CommandFacts DEF TypeOK
    <2>2. RangeInv' /\ KindInv' /\ AttemptInv'
      BY <1>3 DEF IInv, RangeInv, KindInv, AttemptInv, Calling
    <2>3. PendingInv'
      BY <1>1, <1>3, CommandFacts DEF IInv, PendingInv, AttemptInv, WriteInv, Calling
    <2>4. PollInv'
      BY <1>3 DEF PollInv, Command
    <2>5. WriteInv' /\ ReadInv'
      BY <1>1, <1>3, CommandFacts DEF IInv, WriteInv, ReadInv, Calling
    <2>6. GetInv' /\ RomAsReported'
      BY <1>3 DEF IInv, GetInv, RomAsReported, Calling
    <2> QED BY <2>1, <2>2, <2>3, <2>4, <2>5, <2>6 DEF IInv
  <1>4. CASE PollBusy
    <2> USE DEF PollBusy, chip, call
    <2>1. TypeOK'
      BY <1>1, <1>4 DEF TypeOK
    <2>2. (RangeInv /\ KindInv /\ AttemptInv /\ PendingInv)'
      BY <1>4 DEF IInv, RangeInv, KindInv, AttemptInv, PendingInv, Calling
    <2>3. (PollInv /\ WriteInv /\ ReadInv /\ GetInv /\ RomAsReported)'
      BY <1>4 DEF IInv, PollInv, Command, WriteInv, ReadInv, GetInv, RomAsReported, Calling
    <2> QED BY <2>1, <2>2, <2>3 DEF IInv
  <1>5. CASE PollTimeout
    BY <1>1, <1>5, IInv_After DEF PollTimeout, chip, Results, Calling, TypeOK
  <1>6. CASE PollEnd
    BY <1>1, <1>6, IInv_After DEF PollEnd, chip, Results, Calling, TypeOK
  <1>7. CASE Return
    <2> USE DEF Return, chip
    <2>1. TypeOK'
      BY <1>1, <1>7 DEF TypeOK, Loc, Steps, Results
    <2>2. (RangeInv /\ KindInv /\ PendingInv /\ RomAsReported)'
      BY <1>7 DEF IInv, RangeInv, KindInv, PendingInv, RomAsReported
    <2>3. (AttemptInv /\ PollInv /\ WriteInv /\ ReadInv /\ GetInv)'
      BY <1>7 DEF AttemptInv, PollInv, WriteInv, ReadInv, GetInv, Calling
    <2> QED BY <2>1, <2>2, <2>3 DEF IInv
  <1> QED BY <1>2, <1>3, <1>4, <1>5, <1>6, <1>7 DEF Driver

\* ethtool's calls keep the invariant.
LEMMA IInv_Call == IInv /\ (GetCall \/ SetCall) => IInv'
  <1> SUFFICES ASSUME IInv, GetCall \/ SetCall PROVE IInv'
    OBVIOUS
  <1> USE EepromAssumption DEF chip
  <1>1. TypeOK
    BY DEF IInv
  <1>2. CASE GetCall
    <2> USE DEF GetCall
    <2>1. TypeOK'
      BY <1>1, <1>2 DEF TypeOK, Loc, Steps
    <2>2. (RangeInv /\ KindInv /\ PendingInv /\ RomAsReported)'
      BY <1>2 DEF IInv, RangeInv, KindInv, PendingInv, RomAsReported
    <2>3. (AttemptInv /\ PollInv /\ WriteInv /\ ReadInv /\ GetInv)'
      BY <1>2 DEF AttemptInv, PollInv, WriteInv, ReadInv, GetInv, Calling, Loc
    <2> QED BY <2>1, <2>2, <2>3 DEF IInv
  <1>3. CASE SetCall
    <2>1. PICK o \in Loc, n \in 1..Size, d \in [Loc -> Bytes] :
              o + n <= Size /\ off' = o /\ len' = n /\ data' = d /\ may' = Attempt(o, d)
      BY <1>3 DEF SetCall
    <2>2. /\ may' \in [Loc -> SUBSET Bytes]
          /\ \A a \in Loc : may[a] \subseteq may'[a]
          /\ Erased \in may'[o] /\ d[o] \in may'[o]
      BY <1>1, <2>1 DEF Attempt, TypeOK
    <2>3. TypeOK'
      BY <1>1, <1>3, <2>1, <2>2 DEF SetCall, TypeOK, Steps, Results
    <2>4. RangeInv' /\ KindInv' /\ AttemptInv'
      BY <1>3, <2>1, <2>2 DEF SetCall, RangeInv, KindInv, AttemptInv
    <2>5. PendingInv' /\ RomAsReported'
      BY <1>1, <1>3, <2>2 DEF IInv, TypeOK, Commands, SetCall, PendingInv, RomAsReported
    <2>6. (PollInv /\ WriteInv /\ ReadInv /\ GetInv)'
      BY <1>3 DEF SetCall, PollInv, WriteInv, ReadInv, GetInv
    <2> QED BY <2>3, <2>4, <2>5, <2>6 DEF IInv
  <1> QED BY <1>2, <1>3

\* Every step keeps the invariant.
LEMMA NextIInv == IInv /\ [Next]_vars => IInv'
  <1> SUFFICES ASSUME IInv, [Next]_vars PROVE IInv'
    OBVIOUS
  <1>1. CASE UNCHANGED vars
    BY <1>1 DEF vars, IInv, TypeOK, RangeInv, KindInv, AttemptInv, PendingInv, PollInv, Command,
                WriteInv, ReadInv, GetInv, RomAsReported, Calling
  <1> QED BY <1>1, IInv_Chip, IInv_Driver, IInv_Call DEF Next

-----------------------------------------------------------------------------
(* The results.                                                             *)

\* The invariant holds throughout.
THEOREM Invariance == Spec => []IInv
  BY InitIInv, NextIInv, PTL DEF Spec

\* A successful get_eeprom tells the truth, whatever earlier calls have left in
\* progress (smsc911x_ethtool_get_eeprom).
THEOREM GetsAreHonest == Spec => []GetHonest
  <1>1. IInv => GetHonest
    <2> SUFFICES ASSUME IInv, pc = "done", kind = "get", ret = "ok",
                        NEW k \in 0..(len - 1), off + k < len
                 PROVE  buf[off + k] = rom[off + k]
      BY DEF GetHonest
    <2>1. off + k \in Loc
      BY EepromAssumption DEF IInv, TypeOK, Loc
    <2> QED BY <2>1 DEF IInv, KindInv, GetInv
  <1> QED BY <1>1, Invariance, PTL

\* The EEPROM holds what the callers of set_eeprom were told
\* (smsc911x_eeprom_write_location).
THEOREM RomIsAsReported == Spec => []RomAsReported
  <1>1. IInv => RomAsReported
    BY DEF IInv
  <1> QED BY <1>1, Invariance, PTL

\* The driver leaves a command in progress alone (the busy check of
\* smsc911x_eeprom_send_cmd).
THEOREM CommandsAreRespected == Spec => CommandRespected
  <1> DEFINE Replaced == epc # Idle /\ epc' # epc => epc' \in {Idle, Reload}
             Overwritten == epc # Idle /\ e2pData' # e2pData => epc' # epc
  <1>1. IInv /\ [Next]_vars => [Replaced /\ Overwritten]_vars
    <2> SUFFICES ASSUME IInv, [Next]_vars PROVE [Replaced /\ Overwritten]_vars
      OBVIOUS
    <2> USE DEF chip, call
    <2>1. CASE Chip
      <3>1. CASE EpcDone
        BY <3>1 DEF EpcDone
      <3>2. CASE EpcTimeout
        BY <3>2 DEF EpcTimeout, Idle
      <3>3. CASE OpenReset
        <4>1. epc = Reload => e2pData' = e2pData
          BY <3>3 DEF OpenReset, Effect, Reload
        <4> QED BY <3>3, <4>1 DEF OpenReset
      <3> QED BY <2>1, <3>1, <3>2, <3>3 DEF Chip
    <2>2. CASE SendBusy \/ PollTimeout
      BY <2>2 DEF SendBusy, PollTimeout, After, AfterRead, AfterEwen, AfterErase, AfterWrite,
                  AfterEwds
    <2>3. CASE PollEnd \/ SendStart
      BY <2>3 DEF PollEnd, SendStart
    <2>4. CASE PollBusy \/ Return
      BY <2>4 DEF PollBusy, Return
    <2>5. CASE GetCall \/ SetCall
      BY <2>5 DEF GetCall, SetCall
    <2>6. CASE UNCHANGED vars
      BY <2>6
    <2> QED BY <2>1, <2>2, <2>3, <2>4, <2>5, <2>6 DEF Next, Driver
  <1> QED BY <1>1, Invariance, PTL DEF Spec, CommandRespected

=============================================================================
