SPECIFICATION Spec
CONSTANTS
    ann = ann
    bob = bob
    Players = {ann, bob}
    a1 = a1
    a2 = a2
    a3 = a3
    a4 = a4
    a5 = a5
    b1 = b1
    Connections = {a1, a2, a3, a4, a5, b1}
    PlayerOf <- MCPlayerOf
    Casts <- MCCasts
    Faulty = {a4}
    coin = coin
    Things = {coin}
    yard = yard
    lane = lane
    Ways = {yard, lane}
    Room = Room
    Front = yard
    Spawn = yard
    Files <- MCFiles
    admin = admin
    Admins = {admin}
    None = None
SYMMETRY Symmetric
INVARIANTS
    OnePlace
    LostOnlyToTwo
CHECK_DEADLOCK FALSE
