CONSTANTS
  Families = 2
  InputFloats = 2
  StateFloats = 2
  ActFloats = 1
  Byte = 8
  Magic = 1234
  Rejected = Rejected
  N = 1
  MaxFrames = 2
  MaxPairs = 1

SPECIFICATION PathSpec
INVARIANTS
  CompleteIsOfOneFrame
  NoStaleSentinel
PROPERTY DecodedIsSent
