SPECIFICATION Spec
CONSTANTS
  t1 = t1
  Threads = {t1}
  old = old
  ahead = ahead
  garbled = garbled
  Packets = {old, ahead, garbled}
  NoPacket = NoPacket
  Readable = {old, ahead}
  SignedAt <- MCSignedAt
  Second = 2
  TtlSeconds = 1
  MaxAgeSeconds = 1
  SkewSeconds = 1
  MayFail = FALSE
  MaxClock = 8
  MaxCalls = 3
  MaxResets = 0
PROPERTIES OnlyDuplicatesAreDropped
