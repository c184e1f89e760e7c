\* Three requests, two at a time, and two keys of the issuer.
SPECIFICATION Spec
CONSTANTS
  Slots = {r1, r2}
  Calls <- MCCalls
  Settings <- MCSettings
  MaxOffset = 10
  MaxCount = 10
  MaxKeys = 2
  MaxCalls = 3
CHECK_DEADLOCK FALSE
INVARIANTS OnlyVerified RefusedOnlyIfStale EffectMatchesAnswer
PROPERTY Answered
