SPECIFICATION FairSpec
CONSTANTS
    Texts <- AllTexts
    maxBufferSize = 3

    
    
PROPERTY
    Terminates
CHECK_DEADLOCK FALSE
