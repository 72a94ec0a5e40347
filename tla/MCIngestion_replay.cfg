SPECIFICATION Spec
CONSTANTS
  t1 = t1
  t2 = t2
  Threads = {t1, t2}
  old = old
  ahead = ahead
  garbled = garbled
  Packets = {old}
  NoPacket = NoPacket
  Readable = {old}
  SignedAt <- MCSignedAt
  Second = 2
  TtlSeconds = 1
  MaxAgeSeconds = 1
  SkewSeconds = 1
  MayFail = TRUE
  MaxClock = 5
  MaxCalls = 3
  MaxResets = 1
SYMMETRY SymmetricThreads
INVARIANTS TypeOK NoTwinInFlight SeasonedPacketsSettleOnce
