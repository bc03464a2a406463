SPECIFICATION Spec
CONSTANTS
    Generation1 = FALSE
    Removes = TRUE
    Ethtool = TRUE
    Platform = TRUE
    Roms = {"none", "rom"}
INVARIANT IrqSafe
INVARIANT UserSafe
INVARIANT RemoveFindsPhy
INVARIANT AddressInForce
 
INVARIANT PhyGoneOnlyThere
INVARIANT ExternalPhyStopped
CHECK_DEADLOCK FALSE
