SPECIFICATION IoSpec
CONSTANTS
    c1 = c1 c2 = c2 p1 = p1 None = None
INVARIANTS
    EventDataLive OverlappedHeld SubscribeOutlived CoroutineOnce
PROPERTIES
    IoWakes ReadyRuns CanceledIoWakes
