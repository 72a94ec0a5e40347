SPECIFICATION Spec
CONSTANTS
  Threads = {t1, t2}
  Hashes = {h1, h2}
  NoHash = NoHash
  Second = 2
  TtlSeconds = 1
  MaxClock = 4
INVARIANTS TypeOK OneTimeoutAtMost ClaimsAreKept
PROPERTIES DestructorReturns
