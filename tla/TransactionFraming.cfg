CONSTANTS
    kMaxData = 12
    Bytes = {0, 72, 241, 242}
    Txns = {258, 61938}
    Dsts = {0, 72, 241}
    MaxRaw = 4
SPECIFICATION Spec
INVARIANTS
    HeaderReadBack
    PayloadReadBack
    CapsAreTight
