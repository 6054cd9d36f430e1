SPECIFICATION Spec

CONSTANTS
  Radix = 4
  MaxPl = 4
  Crc <- MCCrc

INVARIANT PacketTypeOK
INVARIANT WaitsForMissing
PROPERTY LosesNoFrame
PROPERTY DeliversFrames
PROPERTY ByteDone
