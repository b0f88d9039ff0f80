SPECIFICATION FairSpec
CONSTANTS
    FrameLen = 1
    HungReads = {"nothing"}
PROPERTY Reconnects
