SPECIFICATION FairSpec
CONSTANTS
  Thread = {t1, t2}
  Nobody = Nobody
  FrameSize = 2
  BufferSize = 5
  MaxFrames = 3
  MaxFlushes = 1
  MaxFailures = 2
  MaxLinks = 2
INVARIANTS TypeOK FramesUnmixed UrgentIsOnTheWire InOrder AcceptedIsKept OwnFramesOnly
PROPERTIES CallsReturn
