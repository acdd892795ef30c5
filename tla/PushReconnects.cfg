SPECIFICATION FairSpec
CONSTANTS
  Listeners = {w1}
  MaxInbox = 1
PROPERTIES ReconnectsUntilConnected
