------------------------------ MODULE SmscLink ------------------------------
(***************************************************************************)
(* The link of the SMSC LAN911x driver: the PHY library's state machine,   *)
(* a work item that polls the PHY once a second, and                       *)
(* smsc911x_phy_adjust_link, which it calls to bring the MAC's duplex mode,*)
(* the flow control and the link LED into line with the PHY.               *)
(*                                                                         *)
(* The work holds phydev->lock. open, stop, ethtool's calls and the MII    *)
(* ioctl hold the rtnl lock and take phydev->lock only inside phy_start,   *)
(* phy_stop and phy_start_aneg, so everything else they do can fall        *)
(* between any two steps of the work. Speed, pause and the local           *)
(* advertisement are left out: a link is half or full duplex. The PHY's    *)
(* driver is the generic one, which does not have PHY_HAS_MAGICANEG.       *)
(***************************************************************************)
EXTENDS Naturals

CONSTANTS
    Offers,   \* the duplex modes that a partner can offer as its best
    Errors,   \* an MII access may fail
    ExtPhy,   \* pdata->using_extphy
    Tools     \* what user space calls: ethtool's "sset", "nway" and "eeprom", and the
              \* MII "ioctl"

Duplex == {"half", "full"}

ASSUME LinkAssumption ==
    /\ Offers \subseteq Duplex /\ Errors \in BOOLEAN /\ ExtPhy \in BOOLEAN
    /\ Tools \subseteq {"sset", "nway", "eeprom", "ioctl"}

VARIABLES
    \* The wire and the PHY.
    partner,     \* what is at the other end: "none", or the best duplex it offers
    bmcr,        \* BMCR: "auto", or the forced duplex
    lpa,         \* MII_LPA: what the partner has offered
    anDone,      \* BMSR: BMSR_ANEGCOMPLETE
    \* struct phy_device and the interface.
    state,       \* phydev->state
    link,        \* phydev->link
    autoneg,     \* phydev->autoneg
    duplex,      \* phydev->duplex
    carrier,     \* netif_carrier_ok
    \* The MAC's registers.
    mac,         \* duplex of MAC_CR
    flow,        \* duplex that FLOW and AFC_CFG are set for, or "reset"
    led,         \* LED1_EN of GPIO_CFG
    \* struct smsc911x_data.
    orig,        \* LED1_EN of gpio_orig_setting
    lastDuplex,  \* last_duplex, or "unknown"
    lastCarrier, \* last_carrier, or "unknown"
    \* Who is where.
    work,        \* the work item
    seen,        \* what it has read from the PHY
    needsAneg,   \* needs_aneg
    user,        \* open and stop
    tool,        \* ethtool's call, or the value that the MII ioctl is about to write
                 \* to BMCR
    toolLed,     \* LED1_EN as eeprom_enable_access has read it
    \* History.
    crossed,     \* registers whose last update another context has run into
    blind,       \* the carrier was left on where the link was not seen up
    erred        \* an MII error has halted the PHY since open

phyVars == <<partner, bmcr, lpa, anDone>>
regVars == <<mac, flow, led>>
libVars == <<state, link, autoneg, duplex, carrier>>
lastVars == <<orig, lastDuplex, lastCarrier>>
local == <<seen, needsAneg>>
toolVars == <<tool, toolLed>>
history == <<crossed, blind, erred>>
vars == <<partner, bmcr, lpa, anDone, state, link, autoneg, duplex, carrier, mac, flow, led,
          orig, lastDuplex, lastCarrier, work, seen, needsAneg, user, tool, toolLed, crossed,
          blind, erred>>

-----------------------------------------------------------------------------
OnOff(b) == IF b THEN "on" ELSE "off"
Nothing == [link |-> FALSE, duplex |-> "keep"]

TypeOK ==
    /\ partner \in Offers \cup {"none"} /\ bmcr \in Duplex \cup {"auto"}
    /\ lpa \in Duplex /\ anDone \in BOOLEAN
    /\ state \in {"READY", "UP", "AN", "NOLINK", "RUNNING", "CHANGELINK", "FORCING",
                  "HALTED", "RESUMING"}
    /\ link \in BOOLEAN /\ autoneg \in BOOLEAN /\ carrier \in BOOLEAN
    /\ duplex \in Duplex \cup {"unknown"}
    /\ mac \in Duplex /\ flow \in Duplex \cup {"reset"} /\ led \in BOOLEAN
    /\ orig \in BOOLEAN
    /\ lastDuplex \in Duplex \cup {"unknown"} /\ lastCarrier \in {"on", "off", "unknown"}
    /\ work \in {"idle", "apply", "adjust", "flow", "last_duplex", "carrier", "led_off",
                 "last_carrier", "aneg", "error"}
    /\ seen \in [link : BOOLEAN, duplex : Duplex \cup {"keep"}] /\ needsAneg \in BOOLEAN
    /\ user \in {"down", "gpio", "last", "start", "up"}
    /\ tool \in {"none", "aneg", "gpio"} \cup Duplex \cup {"auto"} /\ toolLed \in BOOLEAN
    /\ crossed \subseteq {"duplex", "led"} /\ blind \in BOOLEAN /\ erred \in BOOLEAN

\* After a successful probe: alloc_etherdev and phy_device_create leave carrier and
\* link on, and the loopback test has cleared BMCR.
Init ==
    /\ partner \in Offers \cup {"none"} /\ bmcr = "half" /\ lpa = "half" /\ anDone = FALSE
    /\ state = "READY" /\ link = TRUE /\ autoneg = TRUE /\ duplex = "unknown"
    /\ carrier = TRUE
    /\ mac = "half" /\ flow = "reset" /\ led = FALSE
    /\ orig = FALSE /\ lastDuplex = "unknown" /\ lastCarrier = "unknown"
    /\ work = "idle" /\ seen = Nothing /\ needsAneg = FALSE
    /\ user = "down" /\ tool = "none" /\ toolLed = FALSE
    /\ crossed = {} /\ blind = FALSE /\ erred = FALSE

\* phydev->lock is free.
Unlocked == work \in {"idle", "aneg", "error"}

\* The work is past a test of last_duplex, or of last_carrier, and has not yet
\* stored the new value.
InDuplex == work \in {"flow", "last_duplex"}
InLed == work \in {"led_off", "last_carrier"}

-----------------------------------------------------------------------------
(* The wire and the PHY.                                                    *)

Replug ==
    /\ \E p \in (Offers \cup {"none"}) \ {partner} : partner' = p
    /\ anDone' = FALSE
    /\ UNCHANGED <<bmcr, lpa, libVars, regVars, lastVars, work, local, user, toolVars,
                   history>>

Negotiate ==
    /\ bmcr = "auto" /\ partner # "none" /\ ~anDone
    /\ anDone' = TRUE /\ lpa' = partner
    /\ UNCHANGED <<partner, bmcr, libVars, regVars, lastVars, work, local, user, toolVars,
                   history>>

\* BMSR_LSTATUS of the second of two reads. During a negotiation the PHY may show a
\* link or not.
LinkStatus ==
    CASE partner = "none" -> {FALSE}
      [] partner # "none" /\ (bmcr # "auto" \/ anDone) -> {TRUE}
      [] OTHER -> BOOLEAN

\* What BMCR says of the duplex; the bit means nothing while negotiating.
Forced == IF bmcr = "auto" THEN Duplex ELSE {bmcr}

-----------------------------------------------------------------------------
(* phy_start_aneg, under phydev->lock. A negotiation is restarted if the    *)
(* PHY was in a forced mode or the advertisement has changed.               *)

\* phy_sanitize_settings: the next supported mode, which depends on the speed.
Sanitize == duplex' \in IF autoneg THEN {duplex} ELSE Duplex

StartAneg(advert) ==
    /\ Sanitize
    /\ IF autoneg
       THEN bmcr' = "auto" /\ anDone' = (anDone /\ bmcr = "auto" /\ ~advert)
       ELSE bmcr' = duplex' /\ anDone' = FALSE
    /\ state' = IF state = "HALTED" THEN state
                ELSE IF autoneg THEN "AN" ELSE "FORCING"

-----------------------------------------------------------------------------
(* phy_state_machine.                                                       *)

\* Mutant of WorkPasses: a running link is not looked at again.
WorkPassesNoPoll ==
    /\ work = "idle"
    /\ \/ state = "UP" /\ work' = "aneg" /\ UNCHANGED state
       \/ state = "RESUMING" /\ autoneg /\ ~anDone /\ state' = "AN" /\ UNCHANGED work
    /\ UNCHANGED <<phyVars, link, autoneg, duplex, carrier, regVars, lastVars, local, user,
                   toolVars, history>>

\* States in which nothing is read. RUNNING is looked at in the next round.
WorkPasses ==
    /\ work = "idle"
    /\ \/ state = "UP" /\ work' = "aneg" /\ UNCHANGED state
       \/ state = "RUNNING" /\ state' = "CHANGELINK" /\ UNCHANGED work
       \/ state = "RESUMING" /\ autoneg /\ ~anDone /\ state' = "AN" /\ UNCHANGED work
    /\ UNCHANGED <<phyVars, link, autoneg, duplex, carrier, regVars, lastVars, local, user,
                   toolVars, history>>

\* A link that was up when the PHY was halted is taken down.
WorkHalted ==
    /\ work = "idle" /\ state = "HALTED" /\ link
    /\ link' = FALSE /\ carrier' = FALSE /\ work' = "adjust" /\ blind' = FALSE
    /\ UNCHANGED <<phyVars, state, autoneg, duplex, regVars, lastVars, local, user, toolVars,
                   crossed, erred>>

\* genphy_read_status, or in FORCING genphy_update_link.
WorkRead ==
    /\ work = "idle" /\ work' = "apply"
    /\ \/ state \in {"AN", "NOLINK", "CHANGELINK", "FORCING"}
       \/ state = "RESUMING" /\ (autoneg => anDone)
    /\ \E l \in LinkStatus,
          d \in IF state = "FORCING" THEN {"keep"} ELSE IF autoneg THEN {lpa} ELSE Forced :
             seen' = [link |-> l, duplex |-> d]
    /\ UNCHANGED <<phyVars, libVars, regVars, lastVars, needsAneg, user, toolVars, history>>

\* The duplex read; genphy_update_link reads none.
SeenDuplex == IF seen.duplex = "keep" THEN duplex ELSE seen.duplex

\* An MII access has failed: phy_aneg_done, before the read in RESUMING or after it
\* in AN, or the read itself, before or (except in FORCING) after it updated the link.
WorkReadFails ==
    /\ Errors /\ work' = "error" /\ seen' = Nothing
    /\ \/ work = "idle" /\ state = "RESUMING" /\ autoneg /\ UNCHANGED <<link, duplex>>
       \/ /\ work = "apply" /\ UNCHANGED duplex
          /\ link' \in IF state = "FORCING" THEN {link} ELSE {link, seen.link}
       \/ /\ work = "apply" /\ state = "AN" /\ seen.link
          /\ link' = TRUE /\ duplex' = SeenDuplex
    /\ blind' = (blind \/ (carrier /\ ~link'))
    /\ UNCHANGED <<phyVars, state, autoneg, carrier, regVars, lastVars, needsAneg, user,
                   toolVars, crossed, erred>>

Applied ==
    /\ work = "apply" /\ seen' = Nothing
    /\ link' = seen.link /\ duplex' = SeenDuplex
    /\ UNCHANGED <<phyVars, autoneg, regVars, lastVars, user, toolVars, crossed, erred>>

\* Mutant of WorkLinkUp: the carrier is not set.
WorkLinkUpNoCarrier ==
    /\ Applied /\ seen.link
    /\ state = "AN" => anDone
    /\ state' = "RUNNING" /\ work' = "adjust"
    /\ UNCHANGED <<carrier, blind, needsAneg>>

WorkLinkUp ==
    /\ Applied /\ seen.link
    /\ state = "AN" => anDone
    /\ state' = "RUNNING" /\ carrier' = TRUE /\ work' = "adjust"
    /\ blind' = FALSE /\ UNCHANGED needsAneg

\* Mutant of WorkLinkDown: the carrier is kept.
WorkLinkDownKeeps ==
    /\ Applied /\ ~seen.link /\ state \in {"AN", "CHANGELINK"}
    /\ state' = "NOLINK" /\ work' = "adjust"
    /\ UNCHANGED <<carrier, blind, needsAneg>>

WorkLinkDown ==
    /\ Applied /\ ~seen.link /\ state \in {"AN", "CHANGELINK"}
    /\ state' = "NOLINK" /\ carrier' = FALSE /\ work' = "adjust"
    /\ blind' = FALSE /\ UNCHANGED needsAneg

\* The same after a restart, but the carrier is not touched.
WorkResumeDown ==
    /\ Applied /\ ~seen.link /\ state = "RESUMING"
    /\ state' = "NOLINK" /\ work' = "adjust"
    /\ blind' = (blind \/ carrier) /\ UNCHANGED <<carrier, needsAneg>>

WorkStillDown ==
    /\ Applied /\ ~seen.link /\ state = "NOLINK"
    /\ work' = "idle"
    /\ UNCHANGED <<state, carrier, blind, needsAneg>>

\* Negotiating still ...
WorkStillAn ==
    /\ Applied /\ seen.link /\ state = "AN" /\ ~anDone
    /\ work' = "idle"
    /\ UNCHANGED <<state, carrier, blind, needsAneg>>

\* ... and when link_timeout has run out, phy_start_aneg in the fastest forced mode.
WorkAnTimeout ==
    /\ work = "apply" /\ seen.link /\ state = "AN" /\ ~anDone
    /\ work' = "aneg" /\ seen' = Nothing
    /\ link' = TRUE /\ duplex' = "full" /\ autoneg' = FALSE
    /\ UNCHANGED <<phyVars, state, carrier, regVars, lastVars, needsAneg, user, toolVars,
                   history>>

\* No link in a forced mode: the carrier is not touched; when the time is up,
\* phy_force_reduction chooses another mode.
WorkForcing ==
    /\ work = "apply" /\ state = "FORCING" /\ ~seen.link
    /\ seen' = Nothing /\ link' = FALSE /\ work' = "adjust"
    /\ \/ UNCHANGED <<duplex, needsAneg>>
       \/ duplex' \in Duplex /\ needsAneg' = TRUE
    /\ blind' = (blind \/ carrier)
    /\ UNCHANGED <<phyVars, state, autoneg, carrier, regVars, lastVars, user, toolVars,
                   crossed, erred>>

\* After the unlock: phy_start_aneg if it is needed ...
WorkAneg ==
    /\ work = "aneg" /\ work' = "idle" /\ StartAneg(FALSE)
    /\ needsAneg' = FALSE
    /\ UNCHANGED <<partner, lpa, link, autoneg, carrier, regVars, lastVars, seen, user,
                   toolVars, history>>

WorkAnegFails ==
    /\ Errors /\ work = "aneg" /\ work' = "error" /\ Sanitize
    /\ needsAneg' = FALSE
    /\ UNCHANGED <<phyVars, state, link, autoneg, carrier, regVars, lastVars, seen, user,
                   toolVars, history>>

\* ... and phy_error after an error.
WorkError ==
    /\ work = "error" /\ work' = "idle"
    /\ state' = "HALTED" /\ erred' = TRUE
    /\ UNCHANGED <<phyVars, link, autoneg, duplex, carrier, regVars, lastVars, local, user,
                   toolVars, crossed, blind>>

-----------------------------------------------------------------------------
(* smsc911x_phy_adjust_link. phy_dev->duplex is read again at each use.     *)

\* The MAC has the duplex d: "if (phy_dev->duplex)".
MacFor(d) == IF d = "half" THEN "half" ELSE "full"

AdjustDuplex ==
    /\ work = "adjust"
    /\ IF duplex # lastDuplex
       THEN mac' = MacFor(duplex) /\ work' = "flow" /\ crossed' = crossed \ {"duplex"}
       ELSE work' = "carrier" /\ UNCHANGED <<mac, crossed>>
    /\ UNCHANGED <<phyVars, libVars, flow, led, lastVars, local, user, toolVars, blind, erred>>

\* smsc911x_phy_update_flowcontrol.
UpdateFlowcontrol ==
    /\ work = "flow" /\ work' = "last_duplex"
    /\ flow' = IF duplex = "full" THEN "full" ELSE "half"
    /\ UNCHANGED <<phyVars, libVars, mac, led, lastVars, local, user, toolVars, history>>

AdjustLastDuplex ==
    /\ work = "last_duplex" /\ work' = "carrier"
    /\ lastDuplex' = duplex
    /\ UNCHANGED <<phyVars, libVars, regVars, orig, lastCarrier, local, user, toolVars,
                   history>>

Done == work' = IF needsAneg THEN "aneg" ELSE "idle"

\* An eeprom_enable_access is in progress that will write back another setting of
\* the LED than the update leaves.
LedCrossed == crossed' = IF tool = "gpio" /\ toolLed # led' THEN crossed \cup {"led"}
                         ELSE crossed \ {"led"}

\* The carrier has changed or not. GPIO_CFG is written if the LED was turned off for
\* want of a carrier, or read to turn it off. The LED of an external PHY is left alone.
AdjustCarrier ==
    /\ work = "carrier"
    /\ \/ OnOff(carrier) = lastCarrier /\ Done /\ UNCHANGED <<led, crossed>>
       \/ /\ OnOff(carrier) # lastCarrier /\ carrier
          /\ work' = "last_carrier" /\ led' = (led \/ (orig /\ ~ExtPhy)) /\ LedCrossed
       \/ /\ OnOff(carrier) # lastCarrier /\ ~carrier
          /\ work' = IF led /\ ~ExtPhy THEN "led_off" ELSE "last_carrier"
          /\ UNCHANGED led /\ LedCrossed
    /\ UNCHANGED <<phyVars, libVars, mac, flow, lastVars, local, user, toolVars, blind, erred>>

\* The LED is turned off, after its setting was saved.
AdjustLedOff ==
    /\ work = "led_off" /\ work' = "last_carrier"
    /\ orig' = TRUE /\ led' = FALSE /\ LedCrossed
    /\ UNCHANGED <<phyVars, libVars, mac, flow, lastDuplex, lastCarrier, local, user, toolVars,
                   blind, erred>>

AdjustLastCarrier ==
    /\ work = "last_carrier" /\ Done
    /\ lastCarrier' = OnOff(carrier)
    /\ UNCHANGED <<phyVars, libVars, regVars, orig, lastDuplex, local, user, toolVars, history>>

-----------------------------------------------------------------------------
(* smsc911x_open and smsc911x_stop.                                         *)

\* The soft reset clears MAC_CR, FLOW and GPIO_CFG; AFC_CFG is set.
OpenReset ==
    /\ user = "down" /\ tool = "none" /\ user' = "gpio"
    /\ mac' = "half" /\ flow' = "reset" /\ led' = FALSE
    /\ UNCHANGED <<phyVars, libVars, lastVars, work, local, toolVars, history>>

OpenGpio ==
    /\ user = "gpio" /\ user' = "last"
    /\ led' = TRUE
    /\ UNCHANGED <<phyVars, libVars, mac, flow, lastVars, work, local, toolVars, history>>

\* The soft reset or the interrupt test fails.
OpenFails ==
    /\ user \in {"gpio", "last"} /\ user' = "down"
    /\ UNCHANGED <<phyVars, libVars, regVars, lastVars, work, local, toolVars, history>>

\* Mutant of OpenLast: the last known duplex survives the reset.
OpenLastKeeps ==
    /\ user = "last" /\ user' = "start"
    /\ lastCarrier' = "unknown"
    /\ crossed' = (IF InDuplex THEN {"duplex"} ELSE {}) \cup (IF InLed THEN {"led"} ELSE {})
    /\ UNCHANGED <<phyVars, libVars, regVars, orig, lastDuplex, work, local, toolVars, blind,
                   erred>>

\* Mutant of OpenLast: the last known carrier survives the reset.
OpenLastCarrierKeeps ==
    /\ user = "last" /\ user' = "start"
    /\ lastDuplex' = "unknown"
    /\ crossed' = (IF InDuplex THEN {"duplex"} ELSE {}) \cup (IF InLed THEN {"led"} ELSE {})
    /\ UNCHANGED <<phyVars, libVars, regVars, orig, lastCarrier, work, local, toolVars, blind,
                   erred>>

\* last_duplex and last_carrier are forgotten. The work may be about to store one.
OpenLast ==
    /\ user = "last" /\ user' = "start"
    /\ lastDuplex' = "unknown" /\ lastCarrier' = "unknown"
    /\ crossed' = (IF InDuplex THEN {"duplex"} ELSE {}) \cup (IF InLed THEN {"led"} ELSE {})
    /\ UNCHANGED <<phyVars, libVars, regVars, orig, work, local, toolVars, blind, erred>>

\* phy_start.
OpenStart ==
    /\ user = "start" /\ Unlocked /\ user' = "up"
    /\ state' = CASE state = "READY" -> "UP"
                  [] state = "HALTED" -> "RESUMING"
                  [] OTHER -> state
    /\ erred' = FALSE
    /\ UNCHANGED <<phyVars, link, autoneg, duplex, carrier, regVars, lastVars, work, local,
                   toolVars, crossed, blind>>

\* phy_stop.
Stop ==
    /\ user = "up" /\ tool = "none" /\ Unlocked /\ user' = "down"
    /\ state' = "HALTED"
    /\ UNCHANGED <<phyVars, link, autoneg, duplex, carrier, regVars, lastVars, work, local,
                   toolVars, history>>

-----------------------------------------------------------------------------
(* ethtool and the MII ioctl, under the rtnl lock.                          *)

ToolMay(t) == t \in Tools /\ tool = "none" /\ user \in {"down", "up"}

\* phy_ethtool_sset stores the settings without phydev->lock ...
Sset ==
    /\ ToolMay("sset") /\ tool' = "aneg"
    /\ autoneg' \in BOOLEAN /\ duplex' \in Duplex
    /\ crossed' = IF InDuplex THEN crossed \cup {"duplex"} ELSE crossed
    /\ UNCHANGED <<phyVars, state, link, carrier, regVars, lastVars, work, local, user, toolLed,
                   blind, erred>>

NwayReset ==
    /\ ToolMay("nway") /\ tool' = "aneg"
    /\ UNCHANGED <<phyVars, libVars, regVars, lastVars, work, local, user, toolLed, history>>

\* ... and calls phy_start_aneg, whose error it ignores.
ToolAneg ==
    /\ tool = "aneg" /\ Unlocked /\ tool' = "none"
    /\ \/ \E advert \in BOOLEAN : StartAneg(advert)
       \/ Errors /\ Sanitize /\ UNCHANGED <<bmcr, anDone, state>>
    /\ UNCHANGED <<partner, lpa, link, autoneg, carrier, regVars, lastVars, work, local, user,
                   toolLed, history>>

\* smsc911x_do_ioctl on a running interface, phy_mii_ioctl: a write of BMCR stores what
\* it is going to set, without phydev->lock ...
MiiIoctl ==
    /\ ToolMay("ioctl") /\ user = "up"
    /\ tool' \in Duplex \cup {"auto"}
    /\ autoneg' = (tool' = "auto") /\ duplex' = (IF tool' = "full" THEN "full" ELSE "half")
    /\ crossed' = IF InDuplex THEN crossed \cup {"duplex"} ELSE crossed
    /\ UNCHANGED <<phyVars, state, link, carrier, regVars, lastVars, work, local, user, toolLed,
                   blind, erred>>

\* ... and sets it, telling nobody: the state machine stays where it is. A
\* negotiation goes on, or is restarted. The error of a failed write is ignored.
MiiIoctlWrite ==
    /\ tool \in Duplex \cup {"auto"} /\ tool' = "none"
    /\ \/ bmcr' = tool /\ anDone' \in {FALSE, tool = "auto" /\ bmcr = "auto" /\ anDone}
       \/ Errors /\ UNCHANGED <<bmcr, anDone>>
    /\ UNCHANGED <<partner, lpa, libVars, regVars, lastVars, work, local, user, toolLed, history>>

\* smsc911x_eeprom_enable_access reads GPIO_CFG and writes it back, unlocked.
EepromEnableRead ==
    /\ ToolMay("eeprom") /\ tool' = "gpio" /\ toolLed' = led
    /\ UNCHANGED <<phyVars, libVars, regVars, lastVars, work, local, user, history>>

EepromEnableWrite ==
    /\ tool = "gpio" /\ tool' = "none" /\ toolLed' = FALSE
    /\ led' = toolLed
    /\ UNCHANGED <<phyVars, libVars, mac, flow, lastVars, work, local, user, history>>

-----------------------------------------------------------------------------
Adjust ==
    \/ AdjustDuplex \/ UpdateFlowcontrol \/ AdjustLastDuplex
    \/ AdjustCarrier \/ AdjustLedOff \/ AdjustLastCarrier

Work ==
    \/ WorkPasses \/ WorkHalted \/ WorkRead \/ WorkReadFails
    \/ WorkLinkUp \/ WorkLinkDown \/ WorkResumeDown \/ WorkStillDown \/ WorkStillAn
    \/ WorkAnTimeout
    \/ WorkForcing \/ WorkAneg \/ WorkAnegFails \/ WorkError
    \/ Adjust

User == OpenReset \/ OpenGpio \/ OpenFails \/ OpenLast \/ OpenStart \/ Stop

Tool == Sset \/ NwayReset \/ ToolAneg \/ MiiIoctl \/ MiiIoctlWrite
        \/ EepromEnableRead \/ EepromEnableWrite

Next == Replug \/ Negotiate \/ Work \/ User \/ Tool

Spec == Init /\ [][Next]_vars

\* The work is scheduled again each time it has run, and a negotiation ends;
\* link_timeout counts ten rounds. A call that waits for phydev->lock gets it.
FairSpec ==
    /\ Spec
    /\ WF_vars(Work) /\ SF_vars(WorkAnTimeout) /\ WF_vars(Negotiate)
    /\ SF_vars(OpenStart) /\ SF_vars(ToolAneg)
    /\ WF_vars(EepromEnableWrite) /\ WF_vars(MiiIoctlWrite)

-----------------------------------------------------------------------------
(* Properties.                                                              *)

\* Between two runs of the work, the MAC and the flow control are set for the
\* duplex that adjust_link believes they are set for, although open's reset,
\* set_settings and the MII ioctl change registers and duplex beside it: the exceptions
\* are one of these three in the middle of adjust_link's last update.
DuplexInForce ==
    user = "up" /\ work = "idle" /\ lastDuplex # "unknown" /\ "duplex" \notin crossed =>
        mac = lastDuplex /\ flow = lastDuplex

\* The same of the link LED and the carrier; the exceptions are an open in the middle
\* of the last update, and an eeprom_enable_access across it. With an external PHY
\* the LED is on as open has left it.
LedHonest ==
    user = "up" /\ work = "idle" /\ tool # "gpio" /\ lastCarrier # "unknown"
        /\ "led" \notin crossed =>
            OnOff(led) = IF ExtPhy THEN "on" ELSE lastCarrier

\* The interface does not claim a carrier where the library has seen no link,
\* except after a restart without a cable, in a forced mode, and after
\* an error between the two reads of genphy_read_status (phy_state_machine
\* leaves the carrier on there).
CarrierHonest == carrier /\ ~blind => link

\* Up, the wire stays as it is, the PHY has taken the settings (phy_ethtool_sset and
\* phy_mii_ioctl ignore that it may not have), and no error has halted it.
Quiet(p) ==
    user = "up" /\ tool = "none" /\ partner = p /\ autoneg = (bmcr = "auto") /\ ~erred

\* An interface that stays up with a cable gets its carrier, and its MAC the
\* PHY's duplex, negotiated or forced, whatever happened before (quick closing and
\* opening, ethtool, a BMCR written past the state machine, replugging, a
\* negotiation given up).
LinkComesUp ==
    \A p \in Offers :
        (<>[](Quiet(p) /\ "duplex" \notin crossed)) =>
            <>[](carrier /\ (work = "idle" => mac = IF bmcr = "auto" THEN p ELSE bmcr))

\* One without a cable loses its carrier, with the exceptions of CarrierHonest.
LinkGoesDown == (<>[](Quiet("none") /\ ~blind)) => <>[]~carrier

=============================================================================
