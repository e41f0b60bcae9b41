CONSTANTS
  Writes = {w1, w2}
  Scoped = {}
  Closers = {k1}
  Capacity = 2
SPECIFICATION PunctualSpec
PROPERTY SinkClosedAfterDrain
