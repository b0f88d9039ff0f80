CONSTANTS
    total_bytes = 500
    ChunkSizes = {247, 248, 100}
    SeqRange = 4
    MaxSends = 2
    MaxTaken = 5
SPECIFICATION Spec
INVARIANTS
    TypeOK
    SilentOnlyIfWhole
    LosslessVerdict
