\* Two goroutines that get and store, a callback, and tokens the store refuses.
SPECIFICATION Spec
CONSTANTS
  Threads = {t1, t2}
  Keys = {k1, k2}
  Names = {WildcardName}
  MaxStores = 2
SYMMETRY Symmetry
INVARIANT ReadsCompletedStores
