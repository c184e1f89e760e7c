\* One caller, three calls, and two tokens of which one can be renewed.
SPECIFICATION TokenSpec
CONSTANTS
  Callers = {c1}
  Tokens = {t1,t2}
  Renewable = {t1}
  MaxSets = 3
INVARIANT CurrentIsRenewed
PROPERTIES KeepsRenewing ShutdownEndsRenewal
