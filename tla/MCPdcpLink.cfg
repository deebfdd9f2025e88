SPECIFICATION MCSpec
CONSTANTS
    WindowSize = 4
    HfnModulus = 2
    HasIntegrity = FALSE
    MaxSdus = 4
    Carried = 6
INVARIANTS
    PdcpTypeOK
    HeldIsTimed
    CountsAgree
PROPERTIES
    ImplementsPdcpService
    HeldSduIsHandedUp
CHECK_DEADLOCK FALSE
