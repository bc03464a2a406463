---------------------------- MODULE SmscLinkProof ----------------------------
(***************************************************************************)
(* Proofs about the link: what adjust_link believes of the MAC's registers,*)
(* and what the interface claims of its carrier.                           *)
(***************************************************************************)
EXTENDS SmscLink, TLAPS

-----------------------------------------------------------------------------
(* The inductive invariant.                                                 *)

\* A PHY without a link keeps the interface's carrier off, or it was left on.
NoLinkInv == state = "NOLINK" /\ carrier => blind

\* open has forgotten what the last one left behind.
Opened == user \in {"start", "up"}

\* Outside the update, last_duplex is what the registers are set for; inside it,
\* they are being set for the duplex that will be stored.
DuplexInv ==
    Opened /\ "duplex" \notin crossed =>
        /\ ~InDuplex /\ lastDuplex # "unknown" => mac = lastDuplex /\ flow = lastDuplex
        /\ InDuplex => mac = MacFor(duplex)
        /\ work = "last_duplex" => flow = IF duplex = "full" THEN "full" ELSE "half"

\* ethtool and open exclude each other by the rtnl lock, and what eeprom_enable_access
\* will write back is what GPIO_CFG holds, unless the work ran into it.
ToolInv ==
    /\ tool # "none" => user \in {"down", "up"}
    /\ tool = "gpio" /\ "led" \notin crossed => (toolLed <=> led)

\* An LED that was turned off will be turned on again, for gpio_orig_setting says so.
\* That of an external PHY is never turned off.
OrigInv ==
    /\ user \in {"last", "start", "up"} => led \/ orig
    /\ tool = "gpio" /\ user = "up" => toolLed \/ orig
    /\ work = "led_off" => ~carrier
    /\ ExtPhy => ~orig /\ work # "led_off"

\* The same as DuplexInv, of the LED.
LedInv ==
    ~ExtPhy /\ Opened /\ "led" \notin crossed =>
        /\ ~InLed /\ lastCarrier # "unknown" => OnOff(led) = lastCarrier
        /\ work = "last_carrier" => (led <=> carrier)

IInv ==
    /\ TypeOK /\ NoLinkInv /\ DuplexInv /\ ToolInv /\ OrigInv /\ LedInv
    /\ CarrierHonest

-----------------------------------------------------------------------------
(* The invariant is inductive: one lemma for each part of it.               *)

\* The invariant holds after a successful probe.
LEMMA InitIInv == Init => IInv
  <1> SUFFICES ASSUME Init PROVE IInv
    OBVIOUS
  <1>1. TypeOK
    BY DEF Init, TypeOK, Duplex, Nothing
  <1>2. NoLinkInv /\ DuplexInv /\ ToolInv /\ OrigInv /\ LedInv /\ CarrierHonest
    BY DEF Init, NoLinkInv, DuplexInv, ToolInv, OrigInv, LedInv, CarrierHonest, Opened
  <1> QED BY <1>1, <1>2 DEF IInv

\* The type invariant in three parts, for the provers.
BooleansOK ==
    /\ anDone \in BOOLEAN /\ link \in BOOLEAN /\ autoneg \in BOOLEAN /\ carrier \in BOOLEAN
    /\ led \in BOOLEAN /\ orig \in BOOLEAN /\ needsAneg \in BOOLEAN /\ toolLed \in BOOLEAN
    /\ blind \in BOOLEAN /\ erred \in BOOLEAN

SeenOK == seen \in [link : BOOLEAN, duplex : Duplex \cup {"keep"}]

ValuesOK ==
    /\ partner \in Offers \cup {"none"} /\ bmcr \in Duplex \cup {"auto"} /\ lpa \in Duplex
    /\ state \in {"READY", "UP", "AN", "NOLINK", "RUNNING", "CHANGELINK", "FORCING",
                  "HALTED", "RESUMING"}
    /\ duplex \in Duplex \cup {"unknown"}
    /\ mac \in Duplex /\ flow \in Duplex \cup {"reset"}
    /\ lastDuplex \in Duplex \cup {"unknown"} /\ lastCarrier \in {"on", "off", "unknown"}
    /\ work \in {"idle", "apply", "adjust", "flow", "last_duplex", "carrier", "led_off",
                 "last_carrier", "aneg", "error"}
    /\ user \in {"down", "gpio", "last", "start", "up"}
    /\ tool \in {"none", "aneg", "gpio"} \cup Duplex \cup {"auto"}
    /\ crossed \subseteq {"duplex", "led"}

\* What genphy_read_status can read.
LEMMA ReadFacts ==
    ASSUME TypeOK
    PROVE  /\ LinkStatus \subseteq BOOLEAN /\ Forced \subseteq Duplex
           /\ Nothing \in [link : BOOLEAN, duplex : Duplex \cup {"keep"}]
  <1>1. LinkStatus \subseteq BOOLEAN
    BY DEF LinkStatus
  <1>2. Forced \subseteq Duplex
    BY DEF Forced, TypeOK, Duplex
  <1>3. Nothing \in [link : BOOLEAN, duplex : Duplex \cup {"keep"}]
    BY DEF Nothing
  <1> QED BY <1>1, <1>2, <1>3

\* Steps keep the Booleans.
LEMMA NextBooleans == IInv /\ [Next]_vars => BooleansOK'
  <1> SUFFICES ASSUME IInv, [Next]_vars PROVE BooleansOK'
    OBVIOUS
  <1> USE LinkAssumption DEF phyVars, libVars, regVars, lastVars, local, toolVars, history
  <1>0. BooleansOK /\ SeenOK
    BY Zenon DEF IInv, TypeOK, BooleansOK, SeenOK
  <1>1. CASE Replug \/ Negotiate
    BY <1>0, <1>1 DEF BooleansOK, SeenOK, Replug, Negotiate
  <1>2. CASE WorkPasses \/ WorkHalted \/ WorkRead
    BY <1>0, <1>2 DEF BooleansOK, SeenOK, WorkPasses, WorkHalted, WorkRead
  <1>3. CASE WorkReadFails \/ WorkForcing
    BY <1>0, <1>3 DEF BooleansOK, SeenOK, WorkReadFails, WorkForcing, SeenDuplex
  <1>4. CASE WorkLinkUp \/ WorkLinkDown \/ WorkResumeDown
    BY <1>0, <1>4 DEF BooleansOK, SeenOK, WorkLinkUp, WorkLinkDown, WorkResumeDown, Applied,
                      SeenDuplex
  <1>5. CASE WorkStillDown \/ WorkStillAn
    BY <1>0, <1>5 DEF BooleansOK, SeenOK, WorkStillDown, WorkStillAn, Applied, SeenDuplex
  <1>6. CASE WorkAnTimeout
    BY <1>0, <1>6 DEF BooleansOK, SeenOK, WorkAnTimeout
  <1>7. CASE WorkAneg \/ WorkAnegFails \/ WorkError
    BY <1>0, <1>7 DEF BooleansOK, SeenOK, WorkAneg, WorkAnegFails, WorkError, StartAneg,
                      Sanitize
  <1>8. CASE AdjustDuplex
    BY <1>0, <1>8 DEF BooleansOK, SeenOK, AdjustDuplex, MacFor
  <1>9. CASE UpdateFlowcontrol
    BY <1>0, <1>9 DEF BooleansOK, SeenOK, UpdateFlowcontrol
  <1>10. CASE AdjustLastDuplex
    BY <1>0, <1>10 DEF BooleansOK, SeenOK, AdjustLastDuplex, MacFor
  <1>11. CASE AdjustCarrier
    BY <1>0, <1>11 DEF BooleansOK, SeenOK, AdjustCarrier, Done, LedCrossed
  <1>12. CASE AdjustLedOff
    BY <1>0, <1>12 DEF BooleansOK, SeenOK, AdjustLedOff, LedCrossed
  <1>13. CASE AdjustLastCarrier
    BY <1>0, <1>13 DEF BooleansOK, SeenOK, AdjustLastCarrier, Done
  <1>14. CASE OpenReset \/ OpenGpio \/ OpenFails
    <2>1. led' \in BOOLEAN
      BY <1>0, <1>14 DEF BooleansOK, OpenReset, OpenGpio, OpenFails
    <2> QED BY <1>0, <2>1, <1>14, Zenon DEF BooleansOK, OpenReset, OpenGpio, OpenFails
  <1>15. CASE OpenLast
    BY <1>0, <1>15 DEF BooleansOK, SeenOK, OpenLast
  <1>16. CASE OpenStart \/ Stop
    BY <1>0, <1>16 DEF BooleansOK, SeenOK, OpenStart, Stop, Unlocked
  <1>17. CASE Sset
    BY <1>0, <1>17 DEF BooleansOK, SeenOK, Sset, ToolMay
  <1>18. CASE NwayReset \/ ToolAneg
    <2>1. anDone' \in BOOLEAN
      BY <1>0, <1>18 DEF BooleansOK, NwayReset, ToolAneg, StartAneg, Sanitize
    <2> QED BY <1>0, <2>1, <1>18 DEF BooleansOK, NwayReset, ToolAneg
  <1>19. CASE MiiIoctl
    BY <1>0, <1>19 DEF BooleansOK, SeenOK, MiiIoctl, ToolMay, Duplex
  <1>20. CASE MiiIoctlWrite
    BY <1>0, <1>20 DEF BooleansOK, SeenOK, MiiIoctlWrite
  <1>21. CASE EepromEnableRead
    BY <1>0, <1>21 DEF BooleansOK, SeenOK, EepromEnableRead, ToolMay
  <1>22. CASE EepromEnableWrite
    BY <1>0, <1>22 DEF BooleansOK, SeenOK, EepromEnableWrite
  <1>23. CASE UNCHANGED vars
    BY <1>0, <1>23 DEF BooleansOK, SeenOK, vars
  <1> QED BY <1>1, <1>2, <1>3, <1>4, <1>5, <1>6, <1>7, <1>8, <1>9, <1>10, <1>11, <1>12,
             <1>13, <1>14, <1>15, <1>16, <1>17, <1>18, <1>19, <1>20, <1>21, <1>22, <1>23
         DEF Next, Work, Adjust, User, Tool

\* Steps keep the type of what was read from the PHY.
LEMMA NextSeen == IInv /\ [Next]_vars => SeenOK'
  <1> SUFFICES ASSUME IInv, [Next]_vars PROVE SeenOK'
    OBVIOUS
  <1> USE LinkAssumption DEF phyVars, libVars, regVars, lastVars, local, toolVars, history
  <1>0. SeenOK
    BY Zenon DEF IInv, TypeOK, SeenOK
  <1>1. CASE Replug \/ Negotiate
    BY <1>0, <1>1 DEF SeenOK, Replug, Negotiate
  <1>2. CASE WorkPasses \/ WorkHalted \/ WorkRead
    <2>1. CASE WorkPasses \/ WorkHalted
      BY <1>0, <2>1 DEF SeenOK, WorkPasses, WorkHalted
    <2>2. CASE WorkRead
      <3>1. LinkStatus \subseteq BOOLEAN /\ Forced \subseteq Duplex /\ lpa \in Duplex
        BY ReadFacts DEF IInv, TypeOK
      <3>2. PICK l \in LinkStatus, d \in Duplex \cup {"keep"} : seen' = [link |-> l, duplex |-> d]
        BY <2>2, <3>1 DEF WorkRead
      <3> QED BY <3>1, <3>2 DEF SeenOK
    <2> QED BY <1>2, <2>1, <2>2
  <1>3. CASE WorkReadFails \/ WorkForcing
    <2>1. seen' = Nothing
      BY <1>3 DEF WorkReadFails, WorkForcing
    <2>2. Nothing \in [link : BOOLEAN, duplex : Duplex \cup {"keep"}]
      BY ReadFacts DEF IInv
    <2> QED BY <2>1, <2>2 DEF SeenOK
  <1>4. CASE WorkLinkUp \/ WorkLinkDown \/ WorkResumeDown
    <2>1. seen' = Nothing
      BY <1>4 DEF WorkLinkUp, WorkLinkDown, WorkResumeDown, Applied
    <2>2. Nothing \in [link : BOOLEAN, duplex : Duplex \cup {"keep"}]
      BY ReadFacts DEF IInv
    <2> QED BY <2>1, <2>2 DEF SeenOK
  <1>5. CASE WorkStillDown \/ WorkStillAn
    <2>1. seen' = Nothing
      BY <1>5 DEF WorkStillDown, WorkStillAn, Applied
    <2>2. Nothing \in [link : BOOLEAN, duplex : Duplex \cup {"keep"}]
      BY ReadFacts DEF IInv
    <2> QED BY <2>1, <2>2 DEF SeenOK
  <1>6. CASE WorkAnTimeout
    <2>1. seen' = Nothing
      BY <1>6 DEF WorkAnTimeout
    <2>2. Nothing \in [link : BOOLEAN, duplex : Duplex \cup {"keep"}]
      BY ReadFacts DEF IInv
    <2> QED BY <2>1, <2>2 DEF SeenOK
  <1>7. CASE WorkAneg \/ WorkAnegFails \/ WorkError
    BY <1>0, <1>7 DEF SeenOK, WorkAneg, WorkAnegFails, WorkError, StartAneg, Sanitize
  <1>8. CASE AdjustDuplex
    BY <1>0, <1>8 DEF SeenOK, AdjustDuplex, MacFor
  <1>9. CASE UpdateFlowcontrol
    BY <1>0, <1>9 DEF SeenOK, UpdateFlowcontrol
  <1>10. CASE AdjustLastDuplex
    BY <1>0, <1>10 DEF SeenOK, AdjustLastDuplex, MacFor
  <1>11. CASE AdjustCarrier
    BY <1>0, <1>11 DEF SeenOK, AdjustCarrier, Done, LedCrossed
  <1>12. CASE AdjustLedOff
    BY <1>0, <1>12 DEF SeenOK, AdjustLedOff, LedCrossed
  <1>13. CASE AdjustLastCarrier
    BY <1>0, <1>13 DEF SeenOK, AdjustLastCarrier, Done
  <1>14. CASE OpenReset \/ OpenGpio \/ OpenFails
    BY <1>0, <1>14 DEF SeenOK, OpenReset, OpenGpio, OpenFails
  <1>15. CASE OpenLast
    BY <1>0, <1>15 DEF SeenOK, OpenLast
  <1>16. CASE OpenStart \/ Stop
    BY <1>0, <1>16 DEF SeenOK, OpenStart, Stop, Unlocked
  <1>17. CASE Sset
    BY <1>0, <1>17 DEF SeenOK, Sset, ToolMay
  <1>18. CASE NwayReset \/ ToolAneg
    BY <1>0, <1>18 DEF SeenOK, NwayReset, ToolAneg, ToolMay, StartAneg, Sanitize
  <1>19. CASE MiiIoctl
    BY <1>0, <1>19 DEF SeenOK, MiiIoctl, ToolMay, Duplex
  <1>20. CASE MiiIoctlWrite
    BY <1>0, <1>20 DEF SeenOK, MiiIoctlWrite
  <1>21. CASE EepromEnableRead
    BY <1>0, <1>21 DEF SeenOK, EepromEnableRead, ToolMay
  <1>22. CASE EepromEnableWrite
    BY <1>0, <1>22 DEF SeenOK, EepromEnableWrite
  <1>23. CASE UNCHANGED vars
    BY <1>0, <1>23 DEF SeenOK, vars
  <1> QED BY <1>1, <1>2, <1>3, <1>4, <1>5, <1>6, <1>7, <1>8, <1>9, <1>10, <1>11, <1>12,
             <1>13, <1>14, <1>15, <1>16, <1>17, <1>18, <1>19, <1>20, <1>21, <1>22, <1>23
         DEF Next, Work, Adjust, User, Tool

\* Steps keep the types of everything else.
LEMMA NextValues == IInv /\ [Next]_vars => ValuesOK'
  <1> SUFFICES ASSUME IInv, [Next]_vars PROVE ValuesOK'
    OBVIOUS
  <1> USE LinkAssumption DEF phyVars, libVars, regVars, lastVars, local, toolVars, history
  <1>0. ValuesOK /\ SeenOK
    BY Zenon DEF IInv, TypeOK, ValuesOK, SeenOK
  <1>1. CASE Replug
    BY <1>0, <1>1 DEF ValuesOK, Duplex, Replug
  <1>2. CASE Negotiate
    BY <1>0, <1>2 DEF ValuesOK, Duplex, Negotiate
  <1>3. CASE WorkPasses
    BY <1>0, <1>3 DEF ValuesOK, Duplex, WorkPasses
  <1>4. CASE WorkHalted
    BY <1>0, <1>4 DEF ValuesOK, Duplex, WorkHalted
  <1>5. CASE WorkRead
    BY <1>0, <1>5 DEF ValuesOK, Duplex, WorkRead
  <1>6. CASE WorkReadFails
    <2>1. duplex' \in Duplex \cup {"unknown"}
      BY <1>0, <1>6 DEF ValuesOK, SeenOK, WorkReadFails, SeenDuplex
    <2> QED BY <1>0, <2>1, <1>6 DEF ValuesOK, WorkReadFails
  <1>7. CASE WorkForcing
    BY <1>0, <1>7 DEF ValuesOK, Duplex, WorkForcing
  <1>8. CASE WorkLinkUp
    <2>1. duplex' \in Duplex \cup {"unknown"}
      BY <1>0, <1>8 DEF ValuesOK, SeenOK, WorkLinkUp, Applied, SeenDuplex
    <2> QED BY <1>0, <2>1, <1>8 DEF ValuesOK, WorkLinkUp, Applied
  <1>9. CASE WorkLinkDown
    <2>1. duplex' \in Duplex \cup {"unknown"}
      BY <1>0, <1>9 DEF ValuesOK, SeenOK, WorkLinkDown, Applied, SeenDuplex
    <2> QED BY <1>0, <2>1, <1>9 DEF ValuesOK, WorkLinkDown, Applied
  <1>10. CASE WorkResumeDown
    <2>1. duplex' \in Duplex \cup {"unknown"}
      BY <1>0, <1>10 DEF ValuesOK, SeenOK, WorkResumeDown, Applied, SeenDuplex
    <2> QED BY <1>0, <2>1, <1>10 DEF ValuesOK, WorkResumeDown, Applied
  <1>11. CASE WorkStillDown
    <2>1. duplex' \in Duplex \cup {"unknown"}
      BY <1>0, <1>11 DEF ValuesOK, SeenOK, WorkStillDown, Applied, SeenDuplex
    <2> QED BY <1>0, <2>1, <1>11 DEF ValuesOK, WorkStillDown, Applied
  <1>12. CASE WorkStillAn
    <2>1. duplex' \in Duplex \cup {"unknown"}
      BY <1>0, <1>12 DEF ValuesOK, SeenOK, WorkStillAn, Applied, SeenDuplex
    <2> QED BY <1>0, <2>1, <1>12 DEF ValuesOK, WorkStillAn, Applied
  <1>13. CASE WorkAnTimeout
    BY <1>0, <1>13 DEF ValuesOK, Duplex, WorkAnTimeout
  <1>14. CASE WorkAneg
    BY <1>0, <1>14 DEF ValuesOK, Duplex, WorkAneg, StartAneg, Sanitize
  <1>15. CASE WorkAnegFails
    BY <1>0, <1>15 DEF ValuesOK, Duplex, WorkAnegFails, Sanitize
  <1>16. CASE WorkError
    BY <1>0, <1>16 DEF ValuesOK, Duplex, WorkError
  <1>17. CASE AdjustDuplex
    <2>1. crossed' \subseteq {"duplex", "led"}
      BY <1>0, <1>17 DEF ValuesOK, AdjustDuplex
    <2> QED BY <1>0, <2>1, <1>17 DEF ValuesOK, Duplex, MacFor, AdjustDuplex
  <1>18. CASE UpdateFlowcontrol
    BY <1>0, <1>18 DEF ValuesOK, Duplex, UpdateFlowcontrol
  <1>19. CASE AdjustLastDuplex
    BY <1>0, <1>19 DEF ValuesOK, Duplex, AdjustLastDuplex, MacFor
  <1>20. CASE AdjustCarrier
    <2>1. crossed' \subseteq {"duplex", "led"}
      BY <1>0, <1>20 DEF ValuesOK, AdjustCarrier, LedCrossed
    <2> QED BY <1>0, <2>1, <1>20 DEF ValuesOK, Duplex, Done, AdjustCarrier
  <1>21. CASE AdjustLedOff
    BY <1>0, <1>21 DEF ValuesOK, Duplex, AdjustLedOff, LedCrossed
  <1>22. CASE AdjustLastCarrier
    BY <1>0, <1>22 DEF ValuesOK, AdjustLastCarrier, Done, OnOff
  <1>23. CASE OpenReset
    BY <1>0, <1>23 DEF ValuesOK, Duplex, OpenReset
  <1>24. CASE OpenGpio
    BY <1>0, <1>24 DEF ValuesOK, Duplex, OpenGpio
  <1>25. CASE OpenFails
    BY <1>0, <1>25 DEF ValuesOK, Duplex, OpenFails
  <1>26. CASE OpenLast
    BY <1>0, <1>26 DEF ValuesOK, Duplex, OpenLast
  <1>27. CASE OpenStart
    BY <1>0, <1>27 DEF ValuesOK, Duplex, OpenStart, Unlocked
  <1>28. CASE Stop
    BY <1>0, <1>28 DEF ValuesOK, Duplex, Stop, Unlocked
  <1>29. CASE Sset
    BY <1>0, <1>29 DEF ValuesOK, Duplex, Sset, ToolMay
  <1>30. CASE NwayReset
    BY <1>0, <1>30 DEF ValuesOK, Duplex, NwayReset, ToolMay
  <1>31. CASE ToolAneg
    BY <1>0, <1>31 DEF ValuesOK, Duplex, ToolAneg, ToolMay, StartAneg, Sanitize
  <1>32. CASE MiiIoctl
    BY <1>0, <1>32 DEF ValuesOK, Duplex, MiiIoctl, ToolMay
  <1>33. CASE MiiIoctlWrite
    <2>1. bmcr' \in Duplex \cup {"auto"}
      BY <1>0, <1>33 DEF ValuesOK, MiiIoctlWrite
    <2> QED BY <1>0, <2>1, <1>33 DEF ValuesOK, MiiIoctlWrite
  <1>34. CASE EepromEnableRead
    BY <1>0, <1>34 DEF ValuesOK, Duplex, EepromEnableRead, ToolMay
  <1>35. CASE EepromEnableWrite
    BY <1>0, <1>35 DEF ValuesOK, Duplex, EepromEnableWrite
  <1>36. CASE UNCHANGED vars
    BY <1>0, <1>36 DEF ValuesOK, Duplex, vars
  <1> QED BY <1>1, <1>2, <1>3, <1>4, <1>5, <1>6, <1>7, <1>8, <1>9, <1>10, <1>11, <1>12,
             <1>13, <1>14, <1>15, <1>16, <1>17, <1>18, <1>19, <1>20, <1>21, <1>22, <1>23,
             <1>24, <1>25, <1>26, <1>27, <1>28, <1>29, <1>30, <1>31, <1>32, <1>33, <1>34,
             <1>35, <1>36
         DEF Next, Work, Adjust, User, Tool

\* The carrier is off without a link, or was left on knowingly.
LEMMA NextCarrier == IInv /\ [Next]_vars => NoLinkInv' /\ CarrierHonest'
  <1> SUFFICES ASSUME IInv, [Next]_vars PROVE NoLinkInv' /\ CarrierHonest'
    OBVIOUS
  <1> USE LinkAssumption DEF phyVars, libVars, regVars, lastVars, local, toolVars, history
  <1>1. CASE Replug \/ Negotiate
    BY <1>1 DEF IInv, TypeOK, NoLinkInv, CarrierHonest, Replug, Negotiate
  <1>2. CASE WorkPasses \/ WorkHalted \/ WorkRead
    BY <1>2 DEF IInv, TypeOK, NoLinkInv, CarrierHonest, WorkPasses, WorkHalted, WorkRead
  <1>3. CASE WorkReadFails \/ WorkForcing
    BY <1>3 DEF IInv, TypeOK, NoLinkInv, CarrierHonest, WorkReadFails, WorkForcing,
                SeenDuplex
  <1>4. CASE WorkLinkUp \/ WorkLinkDown \/ WorkResumeDown
    BY <1>4 DEF IInv, TypeOK, NoLinkInv, CarrierHonest, WorkLinkUp, WorkLinkDown,
                WorkResumeDown, Applied, SeenDuplex
  <1>5. CASE WorkStillDown \/ WorkStillAn
    BY <1>5 DEF IInv, TypeOK, NoLinkInv, CarrierHonest, WorkStillDown, WorkStillAn, Applied,
                SeenDuplex
  <1>6. CASE WorkAnTimeout
    BY <1>6 DEF IInv, TypeOK, NoLinkInv, CarrierHonest, WorkAnTimeout
  <1>7. CASE WorkAneg \/ WorkAnegFails \/ WorkError
    BY <1>7 DEF IInv, TypeOK, NoLinkInv, CarrierHonest, WorkAneg, WorkAnegFails, WorkError,
                StartAneg, Sanitize
  <1>8. CASE AdjustDuplex
    BY <1>8 DEF IInv, TypeOK, NoLinkInv, CarrierHonest, AdjustDuplex, MacFor
  <1>9. CASE UpdateFlowcontrol
    BY <1>9 DEF IInv, TypeOK, NoLinkInv, CarrierHonest, UpdateFlowcontrol
  <1>10. CASE AdjustLastDuplex
    BY <1>10 DEF IInv, TypeOK, NoLinkInv, CarrierHonest, AdjustLastDuplex, MacFor
  <1>11. CASE AdjustCarrier
    BY <1>11 DEF IInv, TypeOK, NoLinkInv, CarrierHonest, AdjustCarrier, Done, LedCrossed
  <1>12. CASE AdjustLedOff
    BY <1>12 DEF IInv, TypeOK, NoLinkInv, CarrierHonest, AdjustLedOff, LedCrossed
  <1>13. CASE AdjustLastCarrier
    BY <1>13 DEF IInv, TypeOK, NoLinkInv, CarrierHonest, AdjustLastCarrier, Done
  <1>14. CASE OpenReset \/ OpenGpio \/ OpenFails
    BY <1>14 DEF IInv, TypeOK, NoLinkInv, CarrierHonest, OpenReset, OpenGpio, OpenFails
  <1>15. CASE OpenLast
    BY <1>15 DEF IInv, TypeOK, NoLinkInv, CarrierHonest, OpenLast
  <1>16. CASE OpenStart \/ Stop
    BY <1>16 DEF IInv, TypeOK, NoLinkInv, CarrierHonest, OpenStart, Stop, Unlocked
  <1>17. CASE Sset
    BY <1>17 DEF IInv, TypeOK, NoLinkInv, CarrierHonest, Sset, ToolMay
  <1>18. CASE NwayReset \/ ToolAneg
    BY <1>18 DEF IInv, TypeOK, NoLinkInv, CarrierHonest, NwayReset, ToolAneg, ToolMay,
                 StartAneg, Sanitize
  <1>19. CASE MiiIoctl
    BY <1>19 DEF IInv, TypeOK, NoLinkInv, CarrierHonest, MiiIoctl, ToolMay, Duplex
  <1>20. CASE MiiIoctlWrite
    BY <1>20 DEF IInv, TypeOK, NoLinkInv, CarrierHonest, MiiIoctlWrite
  <1>21. CASE EepromEnableRead
    BY <1>21 DEF IInv, TypeOK, NoLinkInv, CarrierHonest, EepromEnableRead, ToolMay
  <1>22. CASE EepromEnableWrite
    BY <1>22 DEF IInv, TypeOK, NoLinkInv, CarrierHonest, EepromEnableWrite
  <1>23. CASE UNCHANGED vars
    BY <1>23 DEF IInv, TypeOK, NoLinkInv, CarrierHonest, vars
  <1> QED BY <1>1, <1>2, <1>3, <1>4, <1>5, <1>6, <1>7, <1>8, <1>9, <1>10, <1>11, <1>12,
             <1>13, <1>14, <1>15, <1>16, <1>17, <1>18, <1>19, <1>20, <1>21, <1>22, <1>23
         DEF Next, Work, Adjust, User, Tool

\* The duplex in force is the one believed in.
LEMMA NextDuplex == IInv /\ [Next]_vars => DuplexInv'
  <1> SUFFICES ASSUME IInv, [Next]_vars PROVE DuplexInv'
    OBVIOUS
  <1> USE LinkAssumption DEF phyVars, libVars, regVars, lastVars, local, toolVars, history
  <1>1. CASE Replug \/ Negotiate
    BY <1>1 DEF IInv, TypeOK, DuplexInv, Opened, InDuplex, Duplex, MacFor, Replug, Negotiate
  <1>2. CASE WorkPasses \/ WorkHalted \/ WorkRead
    BY <1>2 DEF IInv, TypeOK, DuplexInv, Opened, InDuplex, Duplex, MacFor, WorkPasses,
                WorkHalted, WorkRead
  <1>3. CASE WorkReadFails \/ WorkForcing
    BY <1>3 DEF IInv, TypeOK, DuplexInv, Opened, InDuplex, Duplex, MacFor, WorkReadFails,
                WorkForcing, SeenDuplex
  <1>4. CASE WorkLinkUp \/ WorkLinkDown \/ WorkResumeDown
    BY <1>4 DEF IInv, TypeOK, DuplexInv, Opened, InDuplex, Duplex, MacFor, WorkLinkUp,
                WorkLinkDown, WorkResumeDown, Applied, SeenDuplex
  <1>5. CASE WorkStillDown \/ WorkStillAn
    BY <1>5 DEF IInv, TypeOK, DuplexInv, Opened, InDuplex, Duplex, MacFor, WorkStillDown,
                WorkStillAn, Applied, SeenDuplex
  <1>6. CASE WorkAnTimeout
    BY <1>6 DEF IInv, TypeOK, DuplexInv, Opened, InDuplex, Duplex, MacFor, WorkAnTimeout
  <1>7. CASE WorkAneg \/ WorkAnegFails \/ WorkError
    BY <1>7 DEF IInv, TypeOK, DuplexInv, Opened, InDuplex, Duplex, MacFor, WorkAneg,
                WorkAnegFails, WorkError, StartAneg, Sanitize
  <1>8. CASE AdjustDuplex
    BY <1>8 DEF IInv, TypeOK, DuplexInv, Opened, InDuplex, Duplex, MacFor, AdjustDuplex
  <1>9. CASE UpdateFlowcontrol
    BY <1>9 DEF IInv, TypeOK, DuplexInv, Opened, InDuplex, Duplex, MacFor, UpdateFlowcontrol
  <1>10. CASE AdjustLastDuplex
    BY <1>10 DEF IInv, TypeOK, DuplexInv, Opened, InDuplex, Duplex, MacFor, AdjustLastDuplex
  <1>11. CASE AdjustCarrier
    BY <1>11 DEF IInv, TypeOK, DuplexInv, Opened, InDuplex, Duplex, MacFor, AdjustCarrier,
                 Done, LedCrossed
  <1>12. CASE AdjustLedOff
    BY <1>12 DEF IInv, TypeOK, DuplexInv, Opened, InDuplex, Duplex, MacFor, AdjustLedOff,
                 LedCrossed
  <1>13. CASE AdjustLastCarrier
    BY <1>13 DEF IInv, TypeOK, DuplexInv, Opened, InDuplex, Duplex, MacFor,
                 AdjustLastCarrier, Done
  <1>14. CASE OpenReset \/ OpenGpio \/ OpenFails
    BY <1>14 DEF IInv, TypeOK, DuplexInv, Opened, InDuplex, Duplex, MacFor, OpenReset,
                 OpenGpio, OpenFails
  <1>15. CASE OpenLast
    BY <1>15 DEF IInv, TypeOK, DuplexInv, Opened, InDuplex, Duplex, MacFor, OpenLast
  <1>16. CASE OpenStart \/ Stop
    BY <1>16 DEF IInv, TypeOK, DuplexInv, Opened, InDuplex, Duplex, MacFor, OpenStart, Stop,
                 Unlocked
  <1>17. CASE Sset
    BY <1>17 DEF IInv, TypeOK, DuplexInv, Opened, InDuplex, Duplex, MacFor, Sset, ToolMay
  <1>18. CASE NwayReset \/ ToolAneg
    <2>1. CASE NwayReset
      BY <2>1 DEF IInv, DuplexInv, Opened, InDuplex, MacFor, NwayReset, ToolMay
    <2>2. CASE ToolAneg
      <3>1. ~InDuplex /\ ~InDuplex'
        BY <2>2 DEF ToolAneg, Unlocked, InDuplex
      <3> QED BY <2>2, <3>1 DEF IInv, DuplexInv, Opened, InDuplex, ToolAneg
    <2> QED BY <1>18, <2>1, <2>2
  <1>19. CASE MiiIoctl
    BY <1>19 DEF IInv, TypeOK, DuplexInv, Opened, InDuplex, Duplex, MacFor, MiiIoctl,
                 ToolMay
  <1>20. CASE MiiIoctlWrite
    BY <1>20 DEF IInv, TypeOK, DuplexInv, Opened, InDuplex, Duplex, MacFor, MiiIoctlWrite
  <1>21. CASE EepromEnableRead
    BY <1>21 DEF IInv, TypeOK, DuplexInv, Opened, InDuplex, Duplex, MacFor,
                 EepromEnableRead, ToolMay
  <1>22. CASE EepromEnableWrite
    BY <1>22 DEF IInv, TypeOK, DuplexInv, Opened, InDuplex, Duplex, MacFor,
                 EepromEnableWrite
  <1>23. CASE UNCHANGED vars
    BY <1>23 DEF IInv, TypeOK, DuplexInv, Opened, InDuplex, Duplex, MacFor, vars
  <1> QED BY <1>1, <1>2, <1>3, <1>4, <1>5, <1>6, <1>7, <1>8, <1>9, <1>10, <1>11, <1>12,
             <1>13, <1>14, <1>15, <1>16, <1>17, <1>18, <1>19, <1>20, <1>21, <1>22, <1>23
         DEF Next, Work, Adjust, User, Tool

\* The rtnl lock keeps ethtool and open apart.
LEMMA NextTool == IInv /\ [Next]_vars => ToolInv'
  <1> SUFFICES ASSUME IInv, [Next]_vars PROVE ToolInv'
    OBVIOUS
  <1> USE LinkAssumption DEF phyVars, libVars, regVars, lastVars, local, toolVars, history
  <1>1. CASE Replug \/ Negotiate
    BY <1>1 DEF IInv, TypeOK, ToolInv, Replug, Negotiate
  <1>2. CASE WorkPasses \/ WorkHalted \/ WorkRead
    BY <1>2 DEF IInv, TypeOK, ToolInv, WorkPasses, WorkHalted, WorkRead
  <1>3. CASE WorkReadFails \/ WorkForcing
    BY <1>3 DEF IInv, TypeOK, ToolInv, WorkReadFails, WorkForcing, SeenDuplex
  <1>4. CASE WorkLinkUp \/ WorkLinkDown \/ WorkResumeDown
    BY <1>4 DEF IInv, TypeOK, ToolInv, WorkLinkUp, WorkLinkDown, WorkResumeDown, Applied,
                SeenDuplex
  <1>5. CASE WorkStillDown \/ WorkStillAn
    BY <1>5 DEF IInv, TypeOK, ToolInv, WorkStillDown, WorkStillAn, Applied, SeenDuplex
  <1>6. CASE WorkAnTimeout
    BY <1>6 DEF IInv, TypeOK, ToolInv, WorkAnTimeout
  <1>7. CASE WorkAneg \/ WorkAnegFails \/ WorkError
    BY <1>7 DEF IInv, TypeOK, ToolInv, WorkAneg, WorkAnegFails, WorkError, StartAneg,
                Sanitize
  <1>8. CASE AdjustDuplex
    BY <1>8 DEF IInv, TypeOK, ToolInv, AdjustDuplex, MacFor
  <1>9. CASE UpdateFlowcontrol
    BY <1>9 DEF IInv, TypeOK, ToolInv, UpdateFlowcontrol
  <1>10. CASE AdjustLastDuplex
    BY <1>10 DEF IInv, TypeOK, ToolInv, AdjustLastDuplex, MacFor
  <1>11. CASE AdjustCarrier
    BY <1>11 DEF IInv, TypeOK, ToolInv, AdjustCarrier, Done, LedCrossed
  <1>12. CASE AdjustLedOff
    BY <1>12 DEF IInv, TypeOK, ToolInv, AdjustLedOff, LedCrossed
  <1>13. CASE AdjustLastCarrier
    BY <1>13 DEF IInv, TypeOK, ToolInv, AdjustLastCarrier, Done
  <1>14. CASE OpenReset \/ OpenGpio \/ OpenFails
    BY <1>14 DEF IInv, TypeOK, ToolInv, OpenReset, OpenGpio, OpenFails
  <1>15. CASE OpenLast
    BY <1>15 DEF IInv, TypeOK, ToolInv, OpenLast
  <1>16. CASE OpenStart \/ Stop
    BY <1>16 DEF IInv, TypeOK, ToolInv, OpenStart, Stop, Unlocked
  <1>17. CASE Sset
    BY <1>17 DEF IInv, TypeOK, ToolInv, Sset, ToolMay
  <1>18. CASE NwayReset \/ ToolAneg
    BY <1>18 DEF IInv, TypeOK, ToolInv, NwayReset, ToolAneg, ToolMay, StartAneg, Sanitize
  <1>19. CASE MiiIoctl
    BY <1>19 DEF IInv, TypeOK, ToolInv, MiiIoctl, ToolMay, Duplex
  <1>20. CASE MiiIoctlWrite
    BY <1>20 DEF IInv, TypeOK, ToolInv, MiiIoctlWrite
  <1>21. CASE EepromEnableRead
    BY <1>21 DEF IInv, TypeOK, ToolInv, EepromEnableRead, ToolMay
  <1>22. CASE EepromEnableWrite
    BY <1>22 DEF IInv, TypeOK, ToolInv, EepromEnableWrite
  <1>23. CASE UNCHANGED vars
    BY <1>23 DEF IInv, TypeOK, ToolInv, vars
  <1> QED BY <1>1, <1>2, <1>3, <1>4, <1>5, <1>6, <1>7, <1>8, <1>9, <1>10, <1>11, <1>12,
             <1>13, <1>14, <1>15, <1>16, <1>17, <1>18, <1>19, <1>20, <1>21, <1>22, <1>23
         DEF Next, Work, Adjust, User, Tool

\* The LED is on, or known to have been on.
LEMMA NextOrig == IInv /\ [Next]_vars => OrigInv'
  <1> SUFFICES ASSUME IInv, [Next]_vars PROVE OrigInv'
    OBVIOUS
  <1> USE LinkAssumption DEF phyVars, libVars, regVars, lastVars, local, toolVars, history
  <1>1. CASE Replug \/ Negotiate
    BY <1>1 DEF IInv, TypeOK, ToolInv, OrigInv, Replug, Negotiate
  <1>2. CASE WorkPasses \/ WorkHalted \/ WorkRead
    BY <1>2 DEF IInv, TypeOK, ToolInv, OrigInv, WorkPasses, WorkHalted, WorkRead
  <1>3. CASE WorkReadFails \/ WorkForcing
    BY <1>3 DEF IInv, TypeOK, ToolInv, OrigInv, WorkReadFails, WorkForcing, SeenDuplex
  <1>4. CASE WorkLinkUp \/ WorkLinkDown \/ WorkResumeDown
    BY <1>4 DEF IInv, TypeOK, ToolInv, OrigInv, WorkLinkUp, WorkLinkDown, WorkResumeDown,
                Applied, SeenDuplex
  <1>5. CASE WorkStillDown \/ WorkStillAn
    BY <1>5 DEF IInv, TypeOK, ToolInv, OrigInv, WorkStillDown, WorkStillAn, Applied,
                SeenDuplex
  <1>6. CASE WorkAnTimeout
    BY <1>6 DEF IInv, TypeOK, ToolInv, OrigInv, WorkAnTimeout
  <1>7. CASE WorkAneg \/ WorkAnegFails \/ WorkError
    BY <1>7 DEF IInv, TypeOK, ToolInv, OrigInv, WorkAneg, WorkAnegFails, WorkError,
                StartAneg, Sanitize
  <1>8. CASE AdjustDuplex
    BY <1>8 DEF IInv, TypeOK, ToolInv, OrigInv, AdjustDuplex, MacFor
  <1>9. CASE UpdateFlowcontrol
    BY <1>9 DEF IInv, TypeOK, ToolInv, OrigInv, UpdateFlowcontrol
  <1>10. CASE AdjustLastDuplex
    BY <1>10 DEF IInv, TypeOK, ToolInv, OrigInv, AdjustLastDuplex, MacFor
  <1>11. CASE AdjustCarrier
    BY <1>11 DEF IInv, TypeOK, ToolInv, OrigInv, AdjustCarrier, Done, LedCrossed
  <1>12. CASE AdjustLedOff
    BY <1>12 DEF IInv, TypeOK, ToolInv, OrigInv, AdjustLedOff, LedCrossed
  <1>13. CASE AdjustLastCarrier
    BY <1>13 DEF IInv, TypeOK, ToolInv, OrigInv, AdjustLastCarrier, Done
  <1>14. CASE OpenReset \/ OpenGpio \/ OpenFails
    BY <1>14 DEF IInv, TypeOK, ToolInv, OrigInv, OpenReset, OpenGpio, OpenFails
  <1>15. CASE OpenLast
    BY <1>15 DEF IInv, TypeOK, ToolInv, OrigInv, OpenLast
  <1>16. CASE OpenStart \/ Stop
    BY <1>16 DEF IInv, TypeOK, ToolInv, OrigInv, OpenStart, Stop, Unlocked
  <1>17. CASE Sset
    BY <1>17 DEF IInv, TypeOK, ToolInv, OrigInv, Sset, ToolMay
  <1>18. CASE NwayReset \/ ToolAneg
    BY <1>18 DEF IInv, TypeOK, ToolInv, OrigInv, NwayReset, ToolAneg, ToolMay, StartAneg,
                 Sanitize
  <1>19. CASE MiiIoctl
    BY <1>19 DEF IInv, TypeOK, ToolInv, OrigInv, MiiIoctl, ToolMay, Duplex
  <1>20. CASE MiiIoctlWrite
    BY <1>20 DEF IInv, TypeOK, ToolInv, OrigInv, MiiIoctlWrite
  <1>21. CASE EepromEnableRead
    BY <1>21 DEF IInv, TypeOK, ToolInv, OrigInv, EepromEnableRead, ToolMay
  <1>22. CASE EepromEnableWrite
    BY <1>22 DEF IInv, TypeOK, ToolInv, OrigInv, EepromEnableWrite
  <1>23. CASE UNCHANGED vars
    BY <1>23 DEF IInv, TypeOK, ToolInv, OrigInv, vars
  <1> QED BY <1>1, <1>2, <1>3, <1>4, <1>5, <1>6, <1>7, <1>8, <1>9, <1>10, <1>11, <1>12,
             <1>13, <1>14, <1>15, <1>16, <1>17, <1>18, <1>19, <1>20, <1>21, <1>22, <1>23
         DEF Next, Work, Adjust, User, Tool

\* The LED shows the carrier believed in.
LEMMA NextLed == IInv /\ [Next]_vars => LedInv'
  <1> SUFFICES ASSUME IInv, [Next]_vars PROVE LedInv'
    OBVIOUS
  <1> USE LinkAssumption DEF phyVars, libVars, regVars, lastVars, local, toolVars, history
  <1>1. CASE Replug \/ Negotiate
    BY <1>1 DEF IInv, TypeOK, ToolInv, OrigInv, LedInv, Opened, InLed, OnOff, Replug,
                Negotiate
  <1>2. CASE WorkPasses \/ WorkHalted \/ WorkRead
    BY <1>2 DEF IInv, TypeOK, ToolInv, OrigInv, LedInv, Opened, InLed, OnOff, WorkPasses,
                WorkHalted, WorkRead
  <1>3. CASE WorkReadFails \/ WorkForcing
    BY <1>3 DEF IInv, TypeOK, ToolInv, OrigInv, LedInv, Opened, InLed, OnOff, WorkReadFails,
                WorkForcing, SeenDuplex
  <1>4. CASE WorkLinkUp \/ WorkLinkDown \/ WorkResumeDown
    BY <1>4 DEF IInv, TypeOK, ToolInv, OrigInv, LedInv, Opened, InLed, OnOff, WorkLinkUp,
                WorkLinkDown, WorkResumeDown, Applied, SeenDuplex
  <1>5. CASE WorkStillDown \/ WorkStillAn
    BY <1>5 DEF IInv, TypeOK, ToolInv, OrigInv, LedInv, Opened, InLed, OnOff, WorkStillDown,
                WorkStillAn, Applied, SeenDuplex
  <1>6. CASE WorkAnTimeout
    BY <1>6 DEF IInv, TypeOK, ToolInv, OrigInv, LedInv, Opened, InLed, OnOff, WorkAnTimeout
  <1>7. CASE WorkAneg \/ WorkAnegFails \/ WorkError
    BY <1>7 DEF IInv, TypeOK, ToolInv, OrigInv, LedInv, Opened, InLed, OnOff, WorkAneg,
                WorkAnegFails, WorkError, StartAneg, Sanitize
  <1>8. CASE AdjustDuplex
    BY <1>8 DEF IInv, TypeOK, ToolInv, OrigInv, LedInv, Opened, InLed, OnOff, AdjustDuplex,
                MacFor
  <1>9. CASE UpdateFlowcontrol
    BY <1>9 DEF IInv, TypeOK, ToolInv, OrigInv, LedInv, Opened, InLed, OnOff,
                UpdateFlowcontrol
  <1>10. CASE AdjustLastDuplex
    BY <1>10 DEF IInv, TypeOK, ToolInv, OrigInv, LedInv, Opened, InLed, OnOff,
                 AdjustLastDuplex, MacFor
  <1>11. CASE AdjustCarrier
    BY <1>11 DEF IInv, TypeOK, ToolInv, OrigInv, LedInv, Opened, InLed, OnOff,
                 AdjustCarrier, Done, LedCrossed
  <1>12. CASE AdjustLedOff
    BY <1>12 DEF IInv, TypeOK, ToolInv, OrigInv, LedInv, Opened, InLed, OnOff, AdjustLedOff,
                 LedCrossed
  <1>13. CASE AdjustLastCarrier
    BY <1>13 DEF IInv, TypeOK, ToolInv, OrigInv, LedInv, Opened, InLed, OnOff,
                 AdjustLastCarrier, Done
  <1>14. CASE OpenReset \/ OpenGpio \/ OpenFails
    BY <1>14 DEF IInv, TypeOK, ToolInv, OrigInv, LedInv, Opened, InLed, OnOff, OpenReset,
                 OpenGpio, OpenFails
  <1>15. CASE OpenLast
    BY <1>15 DEF IInv, TypeOK, ToolInv, OrigInv, LedInv, Opened, InLed, OnOff, OpenLast
  <1>16. CASE OpenStart \/ Stop
    BY <1>16 DEF IInv, TypeOK, ToolInv, OrigInv, LedInv, Opened, InLed, OnOff, OpenStart,
                 Stop, Unlocked
  <1>17. CASE Sset
    BY <1>17 DEF IInv, TypeOK, ToolInv, OrigInv, LedInv, Opened, InLed, OnOff, Sset, ToolMay
  <1>18. CASE NwayReset \/ ToolAneg
    BY <1>18 DEF IInv, TypeOK, ToolInv, OrigInv, LedInv, Opened, InLed, OnOff, NwayReset,
                 ToolAneg, ToolMay, StartAneg, Sanitize
  <1>19. CASE MiiIoctl
    BY <1>19 DEF IInv, TypeOK, ToolInv, OrigInv, LedInv, Opened, InLed, OnOff, MiiIoctl,
                 ToolMay, Duplex
  <1>20. CASE MiiIoctlWrite
    BY <1>20 DEF IInv, TypeOK, ToolInv, OrigInv, LedInv, Opened, InLed, OnOff, MiiIoctlWrite
  <1>21. CASE EepromEnableRead
    BY <1>21 DEF IInv, TypeOK, ToolInv, OrigInv, LedInv, Opened, InLed, OnOff,
                 EepromEnableRead, ToolMay
  <1>22. CASE EepromEnableWrite
    BY <1>22 DEF IInv, TypeOK, ToolInv, OrigInv, LedInv, Opened, InLed, OnOff,
                 EepromEnableWrite
  <1>23. CASE UNCHANGED vars
    BY <1>23 DEF IInv, TypeOK, ToolInv, OrigInv, LedInv, Opened, InLed, OnOff, vars
  <1> QED BY <1>1, <1>2, <1>3, <1>4, <1>5, <1>6, <1>7, <1>8, <1>9, <1>10, <1>11, <1>12,
             <1>13, <1>14, <1>15, <1>16, <1>17, <1>18, <1>19, <1>20, <1>21, <1>22, <1>23
         DEF Next, Work, Adjust, User, Tool

-----------------------------------------------------------------------------
(* The results.                                                             *)

\* The invariant holds throughout.
THEOREM Invariance == Spec => []IInv
  <1>1. IInv /\ [Next]_vars => IInv'
    <2> SUFFICES ASSUME IInv, [Next]_vars PROVE IInv'
      OBVIOUS
    <2>1. TypeOK'
      BY NextBooleans, NextSeen, NextValues, Zenon DEF TypeOK, BooleansOK, SeenOK, ValuesOK
    <2>2. (NoLinkInv /\ DuplexInv /\ ToolInv /\ OrigInv /\ LedInv /\ CarrierHonest)'
      BY NextCarrier, NextDuplex, NextTool, NextOrig, NextLed
    <2> QED BY <2>1, <2>2 DEF IInv
  <1> QED BY <1>1, InitIInv, PTL DEF Spec

\* Between two runs of the work, the MAC and the flow control are set for
\* last_duplex (smsc911x_phy_adjust_link beside open, set_settings and the MII ioctl).
THEOREM DuplexIsInForce == Spec => []DuplexInForce
  <1>1. IInv => DuplexInForce
    BY DEF IInv, DuplexInv, DuplexInForce, Opened, InDuplex
  <1> QED BY <1>1, Invariance, PTL

\* Between two runs of the work, the link LED shows last_carrier, or with an external
\* PHY is on (smsc911x_phy_adjust_link beside open and eeprom_enable_access).
THEOREM LedIsHonest == Spec => []LedHonest
  <1>1. IInv => LedHonest
    BY LinkAssumption DEF IInv, OrigInv, LedInv, LedHonest, Opened, InLed, OnOff
  <1> QED BY <1>1, Invariance, PTL

\* The interface claims no carrier where the library has seen no link, with the
\* exceptions of phy_state_machine.
THEOREM CarrierIsHonest == Spec => []CarrierHonest
  <1>1. IInv => CarrierHonest
    BY DEF IInv
  <1> QED BY <1>1, Invariance, PTL

=============================================================================
