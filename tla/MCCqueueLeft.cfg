SPECIFICATION Spec
CONSTANTS
    Owner = O
    Sels = {s1, s2}
    Panicky = {s1}
    MaxSends = 1
    None = None
INVARIANTS SelectorsFinished
