\* Two starts that may overlap, and a Stop at any time.
SPECIFICATION PollingSpec
CONSTANTS
  Broadcasters = {b1, b2}
  Stoppers = {k1}
  NoContext = NoContext
INVARIANT StopMeansFinished
PROPERTIES StopReturns StopConditionStops ImplementsService
