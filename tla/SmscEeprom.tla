------------------------------ MODULE SmscEeprom ------------------------------
(***************************************************************************)
(* The EEPROM behind the SMSC LAN911x: ethtool's loops over get_eeprom and *)
(* set_eeprom, the locations they read and write, and                      *)
(* smsc911x_eeprom_send_cmd, which hands one command to the chip and polls *)
(* for its end a bounded number of times. A command that outlasts the      *)
(* polls goes on after the call has returned.                              *)
(*                                                                         *)
(* The calls hold the rtnl lock, and so does open, whose soft reset stops  *)
(* a command in progress and starts the loading of the EEPROM.             *)
(***************************************************************************)
EXTENDS Naturals

CONSTANTS
    Size,     \* SMSC911X_EEPROM_SIZE
    Bytes,    \* what a location can hold
    Erased,   \* what it holds after an erase
    Unset,    \* an element of a local array that was not written
    Polls     \* polls of smsc911x_eeprom_send_cmd

ASSUME EepromAssumption ==
    /\ Size \in Nat \ {0} /\ Polls \in Nat \ {0}
    /\ Erased \in Bytes /\ Unset \notin Bytes

VARIABLES
    \* The EEPROM and the chip.
    rom,      \* contents
    wren,     \* the EEPROM accepts erase and write
    epc,      \* E2P_CMD: the command in progress (EPC_BUSY), or Idle
    failed,   \* E2P_CMD: EPC_TIMEOUT
    e2pData,  \* E2P_DATA
    \* The call.
    kind,     \* "get" or "set"
    off,      \* eeprom->offset
    len,      \* eeprom->len of a get, bytes_remaining of a set
    data,     \* the user's bytes, by the location they are for
    ret,      \* the result of the call
    \* The driver.
    pc,       \* where it is: "send" enters send_cmd, "poll" is its loop
    step,     \* the command it sends
    tries,    \* polls left
    i,        \* location read by get_eeprom
    buf,      \* eeprom_data
    \* What the callers can know (history).
    may       \* what each location may hold, by the results they were given

chip == <<wren, epc, failed>>
call == <<kind, off, len, data>>
vars == <<rom, wren, epc, failed, e2pData, kind, off, len, data, ret, pc, step, tries, i,
          buf, may>>

-----------------------------------------------------------------------------
Loc == 0..(Size - 1)
Steps == {"read", "ewen", "erase", "write", "ewds"}
Results == {"ok", "EBUSY", "EAGAIN", "EINVAL"}

Idle == [op |-> "none", a |-> 0]
Reload == [op |-> "reload", a |-> 0]
Commands == [op : Steps \cup {"none", "reload"}, a : Loc]

TypeOK ==
    /\ rom \in [Loc -> Bytes] /\ wren \in BOOLEAN
    /\ epc \in Commands /\ failed \in BOOLEAN /\ e2pData \in Bytes
    /\ kind \in {"get", "set"} /\ off \in Loc /\ len \in 0..Size
    /\ data \in [Loc -> Bytes] /\ ret \in Results
    /\ pc \in {"idle", "send", "poll", "done"} /\ step \in Steps
    /\ tries \in 0..Polls
    /\ i \in Loc /\ buf \in [Loc -> Bytes \cup {Unset}]
    /\ may \in [Loc -> SUBSET Bytes]

Init ==
    /\ rom \in [Loc -> Bytes] /\ wren = FALSE
    /\ epc = Idle /\ failed = FALSE /\ e2pData = Erased
    /\ kind = "get" /\ off = 0 /\ len = 0 /\ data = [a \in Loc |-> Erased] /\ ret = "ok"
    /\ pc = "idle" /\ step = "read" /\ tries = 0
    /\ i = 0 /\ buf = [a \in Loc |-> Unset]
    /\ may = [a \in Loc |-> {rom[a]}]

-----------------------------------------------------------------------------
(* The chip's EEPROM controller.                                            *)

\* A command takes effect. Without write enable, erase and write have none.
Effect(c) ==
    /\ rom' = CASE c.op = "erase" /\ wren -> [rom EXCEPT ![c.a] = Erased]
                [] c.op = "write" /\ wren -> [rom EXCEPT ![c.a] = e2pData]
                [] OTHER -> rom
    /\ wren' = CASE c.op = "ewen" -> TRUE
                 [] c.op = "ewds" -> FALSE
                 [] OTHER -> wren
    /\ e2pData' = IF c.op = "read" THEN rom[c.a] ELSE e2pData

\* The EEPROM answers. A bit left by an earlier failure may still be there.
EpcDone ==
    /\ epc # Idle /\ epc' = Idle
    /\ epc.op \in {"erase", "write"} => wren
    /\ Effect(epc)
    /\ UNCHANGED <<failed, kind, off, len, data, ret, pc, step, tries, i, buf, may>>

\* The EEPROM does not answer, because it is write-protected or for another
\* reason; what it was to do may be done nevertheless.
EpcTimeout ==
    /\ epc.op \in {"read", "erase", "write"} /\ epc' = Idle
    /\ failed' = TRUE
    /\ \/ epc.op # "read" /\ Effect(epc)
       \/ UNCHANGED <<rom, wren, e2pData>>
    /\ UNCHANGED <<kind, off, len, data, ret, pc, step, tries, i, buf, may>>

\* open's soft reset: a command left over is dropped, with or without effect, and
\* the chip loads its address from the EEPROM. open waits for that, but
\* not for ever.
OpenReset ==
    /\ pc = "idle"
    /\ epc' = Reload /\ failed' = FALSE
    /\ Effect(epc) \/ UNCHANGED <<rom, wren, e2pData>>
    /\ UNCHANGED <<kind, off, len, data, ret, pc, step, tries, i, buf, may>>

Chip == EpcDone \/ EpcTimeout \/ OpenReset

-----------------------------------------------------------------------------
(* What follows a command, with the result of send_cmd. Each operator gives *)
(* the next ret, step, pc, i, buf, off, len, e2pData and may.               *)

\* Mutant of AfterRead: the byte is taken whatever the result.
AfterReadUnchecked(r) ==
    /\ step = "read"
    /\ buf' = [buf EXCEPT ![i] = e2pData]
    /\ IF i + 1 < len THEN i' = i + 1 /\ pc' = "send" ELSE pc' = "done" /\ UNCHANGED i
    /\ UNCHANGED <<step, off, len, e2pData, may, ret>>

\* smsc911x_eeprom_read_location and the loop of get_eeprom.
AfterRead(r) ==
    /\ step = "read"
    /\ IF r = "ok"
       THEN /\ buf' = [buf EXCEPT ![i] = e2pData]
            /\ IF i + 1 < len THEN i' = i + 1 /\ pc' = "send" ELSE pc' = "done" /\ UNCHANGED i
       ELSE pc' = "done" /\ UNCHANGED <<i, buf>>
    /\ ret' = r
    /\ UNCHANGED <<step, off, len, e2pData, may>>

\* set_eeprom ignores the result of EWEN.
AfterEwen(r) ==
    /\ step = "ewen"
    /\ step' = "erase" /\ pc' = "send"
    /\ UNCHANGED <<i, buf, off, len, e2pData, may, ret>>

\* smsc911x_eeprom_write_location: after a good erase, the byte and the write.
AfterErase(r) ==
    /\ step = "erase" /\ pc' = "send"
    /\ IF r = "ok"
       THEN step' = "write" /\ e2pData' = data[off] /\ UNCHANGED ret
       ELSE step' = "ewds" /\ ret' = r /\ UNCHANGED e2pData
    /\ UNCHANGED <<i, buf, off, len, may>>

\* Mutant of AfterWrite: a write that timed out is taken for done.
AfterWriteOk(r) ==
    /\ step = "write" /\ pc' = "send" /\ step' = "ewds"
    /\ ret' = "ok"
    /\ may' = [may EXCEPT ![off] = {data[off]}]
    /\ UNCHANGED <<i, buf, off, len, e2pData>>

\* A caller told of success knows what the location holds.
AfterWrite(r) ==
    /\ step = "write" /\ pc' = "send" /\ step' = "ewds"
    /\ ret' = r
    /\ may' = IF r = "ok" THEN [may EXCEPT ![off] = {data[off]}] ELSE may
    /\ UNCHANGED <<i, buf, off, len, e2pData>>

\* A location about to be set may end up with its old value, erased, or set.
Attempt(a, d) == [may EXCEPT ![a] = @ \cup {Erased, d[a]}]

\* set_eeprom ignores the result of EWDS, has written one byte and returns;
\* ethtool's loop goes on with the next one unless it failed.
AfterEwds(r) ==
    /\ step = "ewds"
    /\ IF ret = "ok" /\ len > 1
       THEN /\ off' = off + 1 /\ len' = len - 1 /\ step' = "ewen" /\ pc' = "send"
            /\ may' = Attempt(off + 1, data)
       ELSE pc' = "done" /\ UNCHANGED <<off, len, step, may>>
    /\ UNCHANGED <<i, buf, e2pData, ret>>

After(r) == AfterRead(r) \/ AfterEwen(r) \/ AfterErase(r) \/ AfterWrite(r) \/ AfterEwds(r)

-----------------------------------------------------------------------------
(* smsc911x_eeprom_send_cmd.                                                *)

Command == [op |-> step, a |-> CASE step = "read" -> i
                                 [] step \in {"erase", "write"} -> off
                                 [] OTHER -> 0]

\* "Busy at start".
SendBusy ==
    /\ pc = "send" /\ epc # Idle
    /\ After("EBUSY")
    /\ UNCHANGED <<rom, chip, kind, data, tries>>

\* Mutant of SendStart: the busy bit is not looked at.
SendStartAnyway ==
    /\ pc = "send" /\ pc' = "poll"
    /\ epc' = Command /\ tries' = Polls
    /\ failed' \in {FALSE, failed}
    /\ UNCHANGED <<rom, wren, e2pData, call, ret, step, i, buf, may>>

\* Only the driver starts commands, so the check and the write are one step. The
\* chip may keep an earlier EPC_TIMEOUT.
SendStart ==
    /\ pc = "send" /\ epc = Idle /\ pc' = "poll"
    /\ epc' = Command /\ tries' = Polls
    /\ failed' \in {FALSE, failed}
    /\ UNCHANGED <<rom, wren, e2pData, call, ret, step, i, buf, may>>

PollBusy ==
    /\ pc = "poll" /\ epc # Idle /\ tries > 1
    /\ tries' = tries - 1
    /\ UNCHANGED <<rom, chip, e2pData, call, ret, pc, step, i, buf, may>>

PollTimeout ==
    /\ pc = "poll" /\ epc # Idle /\ tries = 1
    /\ tries' = 0
    /\ After("EAGAIN")
    /\ UNCHANGED <<rom, chip, kind, data>>

PollEnd ==
    /\ pc = "poll" /\ epc = Idle
    /\ tries' = 0
    /\ After(IF failed THEN "EINVAL" ELSE "ok")
    /\ UNCHANGED <<rom, chip, kind, data>>

-----------------------------------------------------------------------------
(* ethtool_get_eeprom and ethtool_set_eeprom, with their check of the range.*)

GetCall ==
    /\ pc = "idle" /\ pc' = "send"
    /\ \E o \in Loc, n \in 1..Size : o + n <= Size /\ off' = o /\ len' = n
    /\ kind' = "get" /\ step' = "read" /\ i' = 0
    /\ buf' = [a \in Loc |-> Unset]
    /\ UNCHANGED <<rom, chip, e2pData, data, ret, tries, may>>

SetCall ==
    /\ pc = "idle" /\ pc' = "send"
    /\ kind' = "set" /\ step' = "ewen" /\ ret' = "ok"
    /\ \E o \in Loc, n \in 1..Size, d \in [Loc -> Bytes] :
          /\ o + n <= Size /\ off' = o /\ len' = n
          /\ \A a \in Loc \ (o..(o + n - 1)) : d[a] = Erased
          /\ data' = d
          /\ may' = Attempt(o, d)
    /\ UNCHANGED <<rom, chip, e2pData, tries, i, buf>>

\* The call returns; what it left in its locals is gone.
Return ==
    /\ pc = "done" /\ pc' = "idle"
    /\ kind' = "get" /\ off' = 0 /\ len' = 0 /\ data' = [a \in Loc |-> Erased] /\ ret' = "ok"
    /\ step' = "read" /\ i' = 0 /\ buf' = [a \in Loc |-> Unset]
    /\ UNCHANGED <<rom, chip, e2pData, tries, may>>

Driver == SendBusy \/ SendStart \/ PollBusy \/ PollTimeout \/ PollEnd \/ Return

Next == Chip \/ Driver \/ GetCall \/ SetCall

Spec == Init /\ [][Next]_vars

-----------------------------------------------------------------------------
(* Properties.                                                              *)

\* A successful get_eeprom tells the truth about the locations it read,
\* although commands of earlier calls that timed out may have been in
\* progress when it began: byte k of what it returns is location off + k,
\* as long as that is one of the first len locations.
GetHonest ==
    pc = "done" /\ kind = "get" /\ ret = "ok" =>
        \A k \in 0..(len - 1) : off + k < len => buf[off + k] = rom[off + k]

\* The EEPROM holds what the callers were told: a location whose last set
\* succeeded has that byte, one whose sets failed since has its old value, one
\* of theirs, or is erased, and no other location changes (the order of
\* erase, E2P_DATA and write; the busy check; the results of send_cmd).
RomAsReported == \A a \in Loc : rom[a] \in may[a]

\* The driver leaves a command in progress alone: between its start and its
\* end nothing but a soft reset replaces it, and E2P_DATA, which a
\* write still needs, changes only at its end.
CommandRespected ==
    [][epc # Idle /\ epc' # epc => epc' \in {Idle, Reload}]_vars
    /\ [][epc # Idle /\ e2pData' # e2pData => epc' # epc]_vars

=============================================================================
