SPECIFICATION Spec
CONSTANTS
  t1 = t1
  Threads = {t1}
  NoThread = NoThread
  NoPacket = NoPacket
  NoAccount = NoAccount
  Packets <- Contending
  Vpas <- MCVpas
  Sender <- MCSender
  Receiver <- MCReceiver
  Amount <- MCAmount
  Seed <- MCSeed
  MaxAttempts = 3
  ListLimit = 1
  MaxCalls = 4
  MaxResets = 1
  MaxFaults = 0
INVARIANTS TotalConserved
PROPERTIES ImplementsLedger
