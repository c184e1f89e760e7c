\* Two starts of a service with two secrets, two signals and two requests.
SPECIFICATION Spec
CONSTANTS
  Secrets = {s1, s2}
  MaxUpdates = 1
  HandlerLists <- MCHandlerLists
  MaxStarts = 2
  MaxRequests = 2
  MaxSignals = 2
INVARIANTS TypeOK SecretKept SeededBeforeUse
PROPERTIES UpdatesSurvive ReturnsClean CancelEnds
