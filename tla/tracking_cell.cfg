SPECIFICATION Spec
CONSTANTS
  Cells = {k1, k2}
  Results = {r1, r2}
  Trackers = {t1, t2}
  Awaiters = {a1}
  Blockers = {b1}
  Callbacks = {c1, c2}
  Nothing = Nothing
  Unwritten = Unwritten
INVARIANT TypeOK
PROPERTIES ImplementsOnceCell CallsReturn
