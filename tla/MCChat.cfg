SPECIFICATION FairSpec
CONSTANTS
  t1 = t1
  t2 = t2
  f1 = f1
  x1 = x1
  Text = {t1, t2}
  File = {f1}
  Theirs = {x1}
  Scenes <- SomeScenes
  MaxTasks = 2
  MaxCopies = 2
  MaxCasts = 1
INVARIANTS SentIsSent PostedOnce FriendIsHeard
PROPERTY UnderWayEnds
