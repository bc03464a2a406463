SPECIFICATION Spec
CONSTANTS
    Offers = {"half", "full"}
    Errors = TRUE
    ExtPhy = FALSE
    Tools = {"sset", "nway", "eeprom", "ioctl"}
INVARIANT DuplexInForce
INVARIANT LedHonest
INVARIANT CarrierHonest
