SPECIFICATION Spec
CONSTANTS
    p1 = p1
    p2 = p2
    p3 = p3
    p4 = p4
    a = a
    b = b
    c = c
    s1 = s1
    s2 = s2
    NoVote = NoVote
    Salts <- MCSalts
    MaxAge = 1
    MaxTime = 2
    Packets <- MCPackets
    Recipients <- MCRecipients
    InRange = {c}
    To <- MCTo
    CreatedAt <- MCCreatedAt
    Size <- MCSize
    Collides <- MCCollides
    MaxRecipients = 2
    Caps = {100, 60}
PROPERTIES
    ListsKeepThePromise
