\* A host that stops answering stops the volume: there is no timeout.
CHECK_DEADLOCK FALSE
CONSTANTS
    Path = {p1}
    Fd = {d1}
    Key = {k1, k2}
    NoKey = NoKey
    Length = 2
    MaxHandles = 1
    MaxDrops = 2
    MaxEvents = 2
SPECIFICATION Spec
INVARIANTS
    ListingIsWhole
    SessionKeyWasAccepted
PROPERTIES
    VolumeComesBack
