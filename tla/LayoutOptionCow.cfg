SPECIFICATION Spec
CONSTANTS
    MaxString = 2
    MaxVec = 2
    MaxPacketData = 8
    Cases <- OptionCowCases
CHECK_DEADLOCK FALSE
PROPERTY WritesItsLength
