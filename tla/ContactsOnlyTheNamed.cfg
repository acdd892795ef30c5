SPECIFICATION Spec
CONSTANTS
    Peers = {p1, p2}
    Mates = {}
    Requests = {"answer", "remove"}
    MaxPush = 2
    MaxOps = 1
PROPERTY OnlyTheNamed
