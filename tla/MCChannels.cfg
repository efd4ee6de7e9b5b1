SPECIFICATION ChannelSpec
CONSTANTS
    r1 = r1 r2 = r2 s1 = s1 s2 = s2 None = None
    Receivers = {r1, r2}
    Senders = {s1, s2}
    FirstRx = r1
    FirstTx = s1
    Leavers = {r2}
    MaxSends = 1
    NoCall = NoCall
INVARIANTS
    MpmcSafe SpscSafe ScopeSafe EndIsReal
PROPERTIES
    ReceiversWake JoinsWake
CHECK_DEADLOCK FALSE
