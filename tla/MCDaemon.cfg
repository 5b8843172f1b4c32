SPECIFICATION DaemonSpec
CONSTANTS
    Peer = {p1, p2, p3}
    NoPeer = NoPeer
INVARIANTS ActiveChannelsExist StopLeavesNothing
PROPERTIES StopReturns
