SPECIFICATION Spec
CONSTANTS
  t1 = t1
  t2 = t2
  Threads = {t1, t2}
  NoThread = NoThread
  NoPacket = NoPacket
  NoAccount = NoAccount
  Packets <- Transfers
  Vpas <- MCVpas
  Sender <- MCSender
  Receiver <- MCReceiver
  Amount <- MCAmount
  Seed <- MCSeed
  MaxAttempts = 2
  ListLimit = 1
  MaxCalls = 2
  MaxResets = 0
  MaxFaults = 0
INVARIANTS TotalConserved
