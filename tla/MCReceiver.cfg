SPECIFICATION Spec
CONSTANTS
    Streams <- ThreePackets
    ByteBase = 2
INVARIANTS
    BufferFits
    DeliversPackets
    KeepsTheRest

    
CHECK_DEADLOCK FALSE
