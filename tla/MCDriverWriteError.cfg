SPECIFICATION Spec
CONSTANTS
    FrameLen = 1
    HungReads = {"error"}
INVARIANT WriteErrorIsLinkLoss
