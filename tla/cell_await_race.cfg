SPECIFICATION Safety
CONSTANTS
  Writers = {w1}
  Awaiters = {a1, a2}
  Blockers = {b1}
  Callbacks = {c1, c2}
  NoValue = NoValue
  NoCallback = NoCallback
  Unwritten = Unwritten
INVARIANT NoCallbackLost
