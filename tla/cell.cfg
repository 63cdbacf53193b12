SPECIFICATION Spec
CONSTANTS
  Writers = {w1, w2}
  Awaiters = {a1}
  Blockers = {b1, b2}
  Callbacks = {c1, c2, c3}
  NoValue = NoValue
  NoCallback = NoCallback
  Unwritten = Unwritten
INVARIANTS TypeOK OneWinner SameResultForAll NoCallbackLost QueuedAtMostOnce
PROPERTIES ImplementsOnceCell BlockersReturn
