SPECIFICATION TriggeredSpec
CONSTANTS
  Listeners = {w1, w2}
  MaxInbox = 2
INVARIANTS TypeOK FlagHasListener
PROPERTIES QuietUntilStart LoggedOutStaysOut KickStops Reconnects KickTakesEffect
