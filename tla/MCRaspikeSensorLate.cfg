SPECIFICATION Spec
CONSTANTS
  User = {u1}
  Reflection = reflection
  Mode = {reflection, ambient}
  NoMode = NoMode
  Zero = Zero
  Mixed = Mixed
  MaxReads = 3
  MaxSession = 1
  LinkCapacity = 2
  BufferCapacity = 1
PROPERTIES GetterGetsItsMode
