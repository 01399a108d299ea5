\* Three requests of every kind for two models and an unknown one, a cache of one, a
\* pool of two threads.
SPECIFICATION Spec
CONSTANTS
  Requests = {r1, r2, r3}
  Models = {"a", "b", "gone"}
  Available = {"a", "b"}
  DefaultModel = "a"
  Switchable = {"a"}
  Instances = {i1, i2, i3, i4}
  MaxLoaded = 1
  Workers = 2
INVARIANTS TypeOK CacheSwitchContained CacheBounded AnsweredByNamed NobodyStuck
CHECK_DEADLOCK FALSE
