\* Three calls, with crashes, failures and deletions at any point.
SPECIFICATION TlsSpec
CONSTANTS
  MaxStarts = 3
  MaxKeys = 7
CHECK_DEADLOCK FALSE
INVARIANTS TlsTypeOK AssetsFit NeverStuck
