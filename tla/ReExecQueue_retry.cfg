\* Four items, room for two, and others that may dequeue at any moment.
SPECIFICATION Spec
CONSTANTS
  Items = {i1, i2, i3, i4}
  queueLimit = 2
  Zero = Zero
INVARIANT NothingLost
PROPERTIES EveryItemLeaves KeepsPromise
