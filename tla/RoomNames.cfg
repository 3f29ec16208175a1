SPECIFICATION Spec
CONSTANTS
    ann = ann
    bob = bob
    lot = lot
    yard = yard
    villa = villa
    t1 = t1
    t2 = t2
    here = here
    b1 = b1
    b2 = b2
    b3 = b3
    al = al
    upAl = upAl
    k1 = k1
    k2 = k2
    withK1 = withK1
    withK2 = withK2
    withPassword = withPassword
    v1 = v1
    v2 = v2
    m1 = m1
    m2 = m2
    r1 = r1
    r2 = r2
    lane = lane
    friend = friend
    w1 = w1
    i1 = i1
    i2 = i2
    c1 = c1
    c2 = c2
    Parcels = {lot, yard}
    Titles = {villa}
    Landlords = {ann, bob}
    Shells = {t1, t2}
    Boards = {b1, b2, b3}
    BoardMax = 1
    MaxEdits = 1
    MaxAwards = 2
    Absent = Absent
    Lookers = {here}
    Users = {al, upAl}
    Keys = {k1, k2}
    People = {withK1, withK2, withPassword}
    KeyPlayer <- MCKeyPlayer
    PasswordPlayer <- MCPasswordPlayer
    ValidNames = {al, upAl}
    Visitors = {v1, v2}
    Nobody = Nobody
    Diners = {ann}
    Mouths = {m1, m2}
    DinerOf <- MCDinerOf
    Threshold = 2
    MaxHunger = 8
    MaxCooldowns = 2
    Residents = {ann}
    Terminals = {r1, r2}
    ResidentOf <- MCResidentOf
    Scenes = {lane}
    Folk = {friend}
    Exits = {"north"}
    MaxPressure = 2
    DefaultLoneliness = 1
    DefaultBoredom = 1
    MaxDay = 3
    MaxSearches = 1
    SshSessions = {c1, c2}
    MailClients = {i1, i2}
    Poll = 1
    Throttle = 2
    Window = 4
    Lease = 1
    MaxClock = 10
    MaxCoord = 2
    Walkers = {w1}
    street = street
    alley = alley
    hall = hall
    shop = shop
    hut = hut
    bell = bell
    fair = fair
    first = first
    second = second
    Fronts = {street, alley}
    EnterNames = {hall, shop, hut, bell, fair}
    ServiceRooms = {hall, shop}
    Lots = {hut}
    FrontOf <- MCFrontOf
    Directories <- UnnamedDirectories
    Loaders = {first, second}
    Missing = Missing
    Casts <- LoadCasts
INVARIANTS
    NamesLeadToOneRoom
CHECK_DEADLOCK FALSE
