CONSTANTS
    kMaxData = 4091
    Slave1 = 1
    MaxRetries = 1
    TxnMod = 2
    none = none
    both = both
    full = full
    temp = temp
    humid = humid
    Payloads <- MCPayloads
    Size <- MCSize
    Empty = none
    AutoPayload = both
    Heard <- MCHeard
    MaxStarts = 3
    MaxHeard = 3
    Keywords = {temp, humid}
    Mentions <- MCMentions
    RouteMaps <- MCRouteMaps
    default_dst_ = 4
    max_frame_len_ = 4095
    Prefixes <- MCPrefixes
    Cuts <- MCCuts
    Strays <- MCStrays
    Slaves = {1, 2}
    MaxRestarts = 1
SPECIFICATION SysSpec
INVARIANTS
    SystemInv
    ForwardsItsAnswer
    ForwardsSomeAnswer
    UnanswerableGivesUp
    AnswersWereAsked
    AnswersUsable
PROPERTY OneOutcomePerLife
