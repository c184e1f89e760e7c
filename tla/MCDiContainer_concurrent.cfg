\* Two goroutines get, one updates, and bar needs foo.
SPECIFICATION Spec
CONSTANTS
  foo = foo
  bar = bar
  Getters = {g1, g2}
  Updaters = {u1}
  Services = {foo, bar}
  Dep <- ChainDep
  NilMakers <- SomeNil
  MaxUpdates = 2
  Nobody = Nobody
  Nil = Nil
INVARIANTS TypeOK NoLostUpdate MadeByRegistered
PROPERTY CallsReturn
