SPECIFICATION Spec
CONSTANTS
  User = {u1, u2}
  Reflection = reflection
  Mode = {reflection, ambient}
  NoMode = NoMode
  Zero = Zero
  Mixed = Mixed
  MaxReads = 3
  MaxSession = 2
  LinkCapacity = 2
  BufferCapacity = 1
INVARIANTS TypeOK StatusOfThisSession
PROPERTIES UndisturbedGetterGetsItsMode
SYMMETRY Interchangeable
