SPECIFICATION FairSpec
CONSTANTS
    Offers = {"full"}
    Errors = FALSE
    ExtPhy = TRUE
    Tools = {"sset", "ioctl"}
PROPERTY LinkComesUp
PROPERTY LinkGoesDown
