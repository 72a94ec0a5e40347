SPECIFICATION FairSpec
CONSTANTS
  t1 = t1
  t2 = t2
  phone = phone
  stranger = stranger
  bridge = bridge
  unknown = unknown
  p = p
  Threads = {t1, t2}
  Devices = {phone, stranger, bridge}
  Strangers = {unknown}
  Ids = {p}
  Ttls <- AllTtls
  MaxRounds = 2
  MaxResets = 1
INVARIANTS TypeOK TtlIsSpent RoundReachesAll ResetIsFinal
PROPERTIES RequestsReturn
