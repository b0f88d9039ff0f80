CONSTANTS
    TxnMod = 3
    Retries = 1
    Slave1 = 1
    Dsts = {0, 1, 2, 248}
    MaxRuns = 3
SPECIFICATION FairSpec
INVARIANTS
    TypeOK
    MasterInv
    OncePerAttempt
    RunTellsTheTruth
    CrashNeedsOvertaking
PROPERTY RunEnds
