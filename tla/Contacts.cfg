SPECIFICATION FairSpec
CONSTANTS
    Peers = {p1}
    Mates = {p1}
    Requests = {"answer", "search", "ask", "remove", "check"}
    MaxPush = 1
    MaxOps = 1
INVARIANT TypeOK
PROPERTIES StrangersStayOut AgreedArrives RemovalArrives
