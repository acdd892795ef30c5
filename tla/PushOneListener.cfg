SPECIFICATION Spec
CONSTANTS
  Listeners = {w1, w2}
  MaxInbox = 1
INVARIANTS OneListener
