SPECIFICATION Spec
CONSTANTS
  t1 = t1
  t2 = t2
  phone = phone
  bridge = bridge
  unknown = unknown
  early = early
  late = late
  ahead = ahead
  Threads = {t1, t2}
  Packets = {early, late, ahead}
  NoPacket = NoPacket
  Devices = {phone, bridge}
  Strangers = {unknown}
  Bridge = bridge
  Ttls = {2}
  DefaultTtl = 2
  MaxRounds = 1
  Readable = {early, ahead}
  SignedAt <- MCSignedAt
  Second = 1
  TtlSeconds = 0
  MaxAgeSeconds = 0
  SkewSeconds = 1
  MayFail = TRUE
  Foreign = {ahead}
  MaxClock = 1
  MaxCalls = 12
  MaxResets = 1
  MaxRequests = 4
INVARIANTS TypeOK FlushDecides HopCountsAreHops
PROPERTIES OnlyDueAreDropped
