\* Two publishers, and two subscribers that come, stall and go.
SPECIFICATION Spec
CONSTANTS
  None = None
  Dropped = Dropped
  Data = {d1, d2, d3}
  Publishers = {p1, p2}
  Channels = {c1, c2}
  Unmarshalable = {d3}
  ChanCap = 1
INVARIANTS NoSendOnClosed FirstMessageGuaranteed UpToDate
PROPERTIES NoRepeat PublishReturns
