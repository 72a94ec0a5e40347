SPECIFICATION FairSpec
CONSTANTS
  t1 = t1
  t2 = t2
  Threads = {t1, t2}
  NoThread = NoThread
  NoPacket = NoPacket
  NoAccount = NoAccount
  Packets <- ToOneself
  Vpas <- MCVpas
  Sender <- MCSender
  Receiver <- MCReceiver
  Amount <- MCAmount
  Seed <- MCSeed
  MaxAttempts = 2
  ListLimit = 1
  MaxCalls = 2
  MaxResets = 1
  MaxFaults = 1
PROPERTIES CallReturns CallsGoForward OnlyStaleCopiesLeak
