CONSTANTS
    kMaxData = 4091
    Slave1 = 1
    MaxRetries = 2
    TxnMod = 3
    short = short
    full = full
    long = long
    Payloads <- MCPayloads
    Size <- MCSize
    Empty = short
    AutoPayload = full
    Heard <- MCHeard
    MaxStarts = 3
    MaxHeard = 3
SPECIFICATION Spec
INVARIANT TimerNotDeferred
