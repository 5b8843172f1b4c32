\* Every connection may have ended.
CHECK_DEADLOCK FALSE
SPECIFICATION Spec
CONSTANTS
    Conn = {c1}
    Name = {a, b}
    DotDot = DotDot
    Pool = {i1, i2, i3}
    Root = Root
    OutDir = OutDir
    OutFile = OutFile
    NoIno = NoIno
    MaxDepth = 2
    MaxHandle = 3
    kMaxOpenHandles = 2
SYMMETRY Symmetry
VIEW View
INVARIANTS  DescriptorsAreOwned
