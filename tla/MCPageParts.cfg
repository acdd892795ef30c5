SPECIFICATION Spec
CONSTANTS
  Papers <- SomePapers
  MaxModals = 4
  Plugin = {m1, m2}
  Handler = {h1, h2}
  Nothing = nothing
  Item = {x1, x2, x3}
  NoItem = noItem
  RowsBefore = 0
  RowsToRender = 2
  Row = {y1, y2}
  None = none
  MinMonth = 12
  MaxMonth = 26
  Today = 13
  Group = {g1, g2}
  PickerRows = 2
  Unlisted = unlisted
  Text = {text}
  Empty = empty
  Box = {b1}
  Choice = {c1, c2}
  Tab = {"L", "S"}
  MaxRows = 4
  PerAnswer = 2
  MaxCalls = 2
  MaxRunning = 2
  Query = {"a", "ab"}
  NoQuery = ""
  Never = "never"
  Entry = {"apple", "abbey", "plum"}
  Found <- SomeFound
  Image = {i1, i2, i3}
  Bare = {i3}
  home = home
  pageA = pageA
  pageB = pageB
  pageC = pageC
  Inline = {home, pageA, pageB, pageC}
  Home = home
  Select = select
  Missing = missing
  Documents <- SomeDocuments
  MaxDepth = 4
INVARIANTS
  OneModal
  ReadyOnce
  TouchesAgree
  FieldsFollow
  ListsComplete
  PagesAgree
PROPERTIES
  PreloaderGoes
  ReadyComes
  NavigationGoesOn
CHECK_DEADLOCK FALSE
