CONSTANTS
    Byte = {0, 1}
    Blank = 0
    Data <- MCData
    kCheapPrepend = 2
    kInitialSize = 2
    ExtraSize = 2
    MaxContent = 3
SPECIFICATION Spec
PROPERTIES ImplementsByteQueue GrowthBounded
