SPECIFICATION Spec
CONSTANTS
    player = player
    Players = {player}
    c1 = c1
    c2 = c2
    Connections = {c1, c2}
    PlayerOf <- MCPlayerOf
    Residents = {player}
    Lines = {"move", "enter"}
    Casts <- VisitCasts
    admin = admin
    Admins = {admin}
    square = square
    pier = pier
    alley = alley
    plot = plot
    hall = hall
    v1 = v1
    v2 = v2
    Files <- MCFiles
    Grid = {}
    Rooms = {hall}
    Front <- MCFront
    Exits <- MCExits
    Admission = square
    Spawn = pier
    Pending = Pending
    None = None
SYMMETRY Symmetric
PROPERTIES
    VisitorsOfOpenRoomsStay
