CONSTANTS
    Proc = {g1, g2, g3}
    Role = {admin}
    Perm = {p1}
    Nobody = Nobody
    NoEntry = NoEntry
    NoCall = NoCall
SPECIFICATION FairSpec
INVARIANTS TypeOK DecidedOnCurrentGrants NoUselessLoad
PROPERTIES EveryCallReturns
