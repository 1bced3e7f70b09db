SPECIFICATION FairSpec
CONSTANTS
  r1 = r1
  r2 = r2
  s1 = s1
  s2 = s2
  A = A
  B = B
  Main = Main
  Nobody = Nobody
  Receiver <- OneReceiver
  Sender <- OneSender
  Opener <- OneSender
  Port <- OnePort
  MaxLinks = 1
  MaxCalls = 1
PROPERTIES ShutdownReturns
