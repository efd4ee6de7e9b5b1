SPECIFICATION FairSpec
CONSTANTS
    Receivers = {r1, r2}
    Senders = {s1}
    FirstRx = r1
    FirstTx = s1
    Leavers = {}
    MaxSends = 1
    NoCall = NoCall
PROPERTIES RecvEnds
CHECK_DEADLOCK FALSE
