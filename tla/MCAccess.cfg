CONSTANTS
    Req = {r1, r2}
    Browser = {c1}
    UserId = {u1}
    Email = {e1}
    Password = {w1}
    Role = {admin, user}
    DefaultRole = user
    TTL = 1
    MaxTime = 0
    None = None
    Perm = {p1}
    Nobody = Nobody
    NoEntry = NoEntry
    NoCall = NoCall
    Route = {x1}
    Needs <- OneRoute
SPECIFICATION FairAccessSpec
INVARIANTS HandlerRunsRightfully
CONSTRAINTS InOrder FewChanges
PROPERTIES EveryRequestEnds
