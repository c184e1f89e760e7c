SPECIFICATION Spec
CONSTANTS
  None = None
  Requests = {r1, r2}
  Topics = {t1, t2}
  PolledTopics = {t1, t2}
PROPERTY StopsOnlyOwnTopic
