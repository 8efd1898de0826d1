SPECIFICATION Spec
CONSTANTS
    MaxString = 2
    MaxVec = 2
    MaxPacketData = 8
    Cases <- MCCases
CHECK_DEADLOCK FALSE
INVARIANT ReadsBack
INVARIANT LengthsBounded
INVARIANT PacketsFit
PROPERTY WritesItsLength
