SPECIFICATION SplitSpec
CONSTANTS
    Texts <- CodeBlocks
    Limit = 12
    MaxHead = 3
    MaxTail = 20
PROPERTY SplitReturns
CHECK_DEADLOCK FALSE
