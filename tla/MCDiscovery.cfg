CONSTANTS
    Inst = {i1}
    Addr = {1, 2}
    Port = {1, 2}
    ShortTtl = 2
    LongTtl = 3
    MaxNet = 3
SPECIFICATION Spec
INVARIANTS
    DeadPeersGo
PROPERTIES
    LivePeersAreListed
