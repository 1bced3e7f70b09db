SPECIFICATION Spec
CONSTANTS
  c1 = c1
  c2 = c2
  A = A
  B = B
  Caller <- TwoCallers
  Port <- TwoPorts
  Cmd = {1}
  AckData = {1}
  NoCaller = NoCaller
  SeqLimit = 3
  MaxCalls = 2
  MaxSession = 2
  LinkCapacity = 2
SYMMETRY Interchangeable
INVARIANTS TypeOK PendingIsOwned NoOrphanedRequest
PROPERTIES AnswerIsOurs HonestTimeout ImplementsService
