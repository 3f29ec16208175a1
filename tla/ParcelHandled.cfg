SPECIFICATION Spec
CONSTANTS
    s1 = s1
    s2 = s2
    Sessions = {s1, s2}
    owner = owner
    guest = guest
    Players = {owner, guest}
    FirstOwner = owner
    front = front
    back = back
    Desks = {front, back}
    c1 = c1
    Commands = {c1}
    x = x
    Prefixes = {x}
    Matches <- MCMatches
    DesksMax = 2
    Menus <- OnlyWork
    None = None
SYMMETRY Symmetric
INVARIANTS
    HandledAfterLastItem
