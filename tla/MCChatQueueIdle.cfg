SPECIFICATION Spec
CONSTANTS
    d1 = d1
    d2 = d2
    h1 = h1
    h2 = h2
    NoStamp = NoStamp
    Messages <- MCMessages
    Delegated <- MCDelegated
    MaxQueued = 2
INVARIANTS
    IdleMeansDrained
