\* A host that stops answering stops the volume: there is no timeout.
CHECK_DEADLOCK FALSE
CONSTANTS
    Path = {p1, p2}
    Fd = {d1, d2}
    Key = {k1}
    NoKey = NoKey
    Length = 1
    MaxHandles = 2
    MaxDrops = 1
    MaxEvents = 1
SPECIFICATION Spec
INVARIANTS
    HandleNamesItsFile
    StatusIsHonest
