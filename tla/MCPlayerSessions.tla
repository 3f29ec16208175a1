-------------------------- MODULE MCPlayerSessions --------------------------
(* Instances of PlayerSessions for TLC: one player on two connections in   *)
(* a world of three views, a parcel beside the square and a service room   *)
(* in the alley, and one reload.                                           *)
EXTENDS PlayerSessions, TLC

CONSTANTS player, c1, c2, admin, square, pier, alley, plot, hall, v1, v2

Dir(vs, rs, v) == [views |-> vs, rooms |-> rs, version |-> v]

(* As first installed; later the alley is closed and the agreement changed. *)
MCFiles == {Dir({square, pier, alley}, Rooms, v1), Dir({square, pier}, Rooms, v2)}
Roomless == {[f EXCEPT !.rooms = {}] : f \in MCFiles}
AllFiles == MCFiles \union Roomless

(* Two connections where no room is, whose statements may fail where nobody
   walks, or one that types everything. *)
Quiet == [connections |-> Connections, lines |-> {}, files |-> Roomless, faulty |-> {}]
Pairs == [Quiet EXCEPT !.lines = {"move", "read", "agree"}]
Failing == [Quiet EXCEPT !.lines = {"read", "agree"}, !.faulty = Connections]
Alone(c) == [connections |-> {c}, lines |-> Lines, files |-> MCFiles,
             faulty |-> {c} \union Admins]
MCCasts == {Pairs, Failing} \union {Alone(c) : c \in Connections}

(* Two connections with a room. *)
Visits == [Quiet EXCEPT !.lines = Lines, !.files = MCFiles]
VisitCasts == {Visits}

MCPlayerOf == [c \in Connections |-> player]
MCFront == [v \in Grid \union Rooms |-> IF v = hall THEN alley ELSE square]
MCExits == [v \in Views |-> Views \intersect
              CASE v = hall -> {} [] v = pier -> {square, alley} [] v = plot -> {square}
                [] OTHER -> {pier}]

Symmetric == Permutations(Connections)
=============================================================================
