SPECIFICATION FairSpec
CONSTANTS
  Actions = {"sync", "load", "task", "none"}
  Channel = channel
  MaxCalls = 2
  MaxEvents = 2
INVARIANTS InOrder OwnAnswer
PROPERTY ResultsArrive
CHECK_DEADLOCK FALSE
