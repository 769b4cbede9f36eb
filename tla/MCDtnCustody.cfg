SPECIFICATION Spec
CONSTANTS
    p1 = p1
    p2 = p2
    p3 = p3
    a = a
    b = b
    s1 = s1
    s2 = s2
    NoVote = NoVote
    Salts <- MCSalts
    MaxAge = 1
    MaxTime = 2
    Packets <- MCPackets
    Recipients <- MCRecipients
    InRange = {a}
    To <- MCTo
    CreatedAt <- MCCreatedAt
    Size <- MCSize
    Collides <- MCCollides
    MaxRecipients = 1
    Caps = {100, 50}
INVARIANTS
    TypeOK LiveLossNeedsTwoCollisions RetiredByTwoDraws OneEntryPerPacket
