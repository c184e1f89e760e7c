\* Two requests, for two topics that share a polling service and one without.
SPECIFICATION Spec
CONSTANTS
  None = None
  Requests = {r1, r2}
  Topics = {t1, t2, t3}
  PolledTopics = {t1, t2}
INVARIANTS NoLeakedPolling NoAbandonedTopic
PROPERTIES ShutdownEndsRequests GoneMeansClean
