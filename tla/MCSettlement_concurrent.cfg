SPECIFICATION Spec
CONSTANTS
  t1 = t1
  t2 = t2
  Threads = {t1, t2}
  NoThread = NoThread
  NoPacket = NoPacket
  NoAccount = NoAccount
  Packets <- Contending
  Vpas <- MCVpas
  Sender <- MCSender
  Receiver <- MCReceiver
  Amount <- MCAmount
  Seed <- MCSeed
  MaxAttempts = 2
  ListLimit = 1
  MaxCalls = 3
  MaxResets = 1
  MaxFaults = 1
SYMMETRY SymmetricThreads
INVARIANTS TypeOK NonNegativeBalances OneRowPerPacket Inductive
PROPERTIES OnlyStrandedReadsDirty OnlyLostDebitsSplitPayments
  CurrentCopiesBook ImplementsContract
