SPECIFICATION Spec
CONSTANTS
  Threads = {t1, t2, t3}
  Nobody = Nobody
  NumAttempts = 2
INVARIANTS TypeOK MutualExclusion
PROPERTIES SomeoneEnters ImplementsMutex
