SPECIFICATION EventFairSpec
CONSTANTS
    Setters = {s1}
    Conts = {c1}
    Always = {}
    Owner = Owner
    None = None
PROPERTY
    KeepsPromise
