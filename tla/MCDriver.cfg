SPECIFICATION FairSpec
CONSTANTS
    FrameLen = 2
    HungReads = {"error"}
INVARIANTS
    TypeOK
    ConnectedIffOpen
    WriteKeepsPort
    NoSplice
PROPERTIES
    Reconnects
    TxReturns
    LossNoticed
    ShutdownEnds
