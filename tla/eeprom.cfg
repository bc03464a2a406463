SPECIFICATION Spec
CONSTANTS
    Size = 3
    Bytes = {ff, b}
    Erased = ff
    Unset = unset
    Polls = 2
INVARIANT GetHonest
INVARIANT RomAsReported
PROPERTY CommandRespected
