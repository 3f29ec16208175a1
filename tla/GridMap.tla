------------------------------ MODULE GridMap ------------------------------
(***************************************************************************)
(* The generated town (core/src/grid_map.rs, runtime/src/grid.rs): road    *)
(* crossings at pairs of i32, four doors around each, and an authored view *)
(* in place of the crossing at zero.  Nothing of it is stored: a view is   *)
(* parsed from its id each time a player stands in it.                     *)
(*                                                                         *)
(* An optional value is a set of at most one element.                      *)
(***************************************************************************)
EXTENDS Integers

CONSTANTS
    MaxCoord,       \* i32::MAX
    Walkers         \* players who walk

ASSUME GridAssumption == MaxCoord \in Nat \ {0}

Coordinates == -(MaxCoord + 1)..MaxCoord
Doors       == 1..4

VARIABLES
    stands,     \* each walker's current_view
    cameFrom    \* the view before, and the direction taken

gridVars == <<stands, cameFrom>>

-----------------------------------------------------------------------------
(* A token: its letter, its number and whether that is spelled the way the *)
(* program does, or with zeros or a plus before it.                        *)
Token == [letter : {"zero", "plus", "minus"}, n : 0..(MaxCoord + 2), plain : BOOLEAN]

EncodeSigned(v) ==
    CASE v = 0 -> [letter |-> "zero",  n |-> 0,  plain |-> TRUE]
      [] v > 0 -> [letter |-> "plus",  n |-> v,  plain |-> TRUE]
      [] v < 0 -> [letter |-> "minus", n |-> -v, plain |-> TRUE]

ParseSymmetric(t) ==    \* a mutant: no i32::MIN
    CASE t.letter = "zero"  -> {v \in {0} : t.n = 0 /\ t.plain}
      [] t.letter = "plus"  -> {t.n} \cap 1..MaxCoord
      [] t.letter = "minus" -> {-v : v \in {t.n} \cap 1..MaxCoord}

ParseSignedToken(t) ==
    CASE t.letter = "zero"  -> {v \in {0} : t.n = 0 /\ t.plain}
      [] t.letter = "plus"  -> {t.n} \cap 1..MaxCoord
      [] t.letter = "minus" -> {-v : v \in {t.n} \cap 1..(MaxCoord + 1)}

(* Doorplates say E, W, N, S and C0 for the same, in either case. *)
AxisCode(v)      == EncodeSigned(v)
ParseAxisCode(t) == ParseSignedToken(t)

(* View ids.  The origin is authored; any other is parsed. *)
Nowhere == [kind |-> "none"]
Origin  == [kind |-> "origin"]

RoadViewId(r) == [kind |-> "road", x |-> EncodeSigned(r[1]), y |-> EncodeSigned(r[2])]

NewRoad(x, y) == {<<x, y>>} \ {<<0, 0>>}

ParseGridRoadCoordinates(id) ==
    IF id.kind = "road" THEN ParseSignedToken(id.x) \X ParseSignedToken(id.y) ELSE {}

RoadFromViewId(id) ==
    {r \in UNION {NewRoad(c[1], c[2]) : c \in ParseGridRoadCoordinates(id)} :
        RoadViewId(r) = id}

(* A building: its road and its door. *)
ParcelId(road, door) == [kind |-> "parcel", x |-> AxisCode(road[1]), y |-> AxisCode(road[2]),
                         door |-> door, padded |-> TRUE]

FromParcelId(id) ==
    {[road |-> r, door |-> id.door] :
        r \in {c \in ParseAxisCode(id.x) \X ParseAxisCode(id.y) :
                  NewRoad(c[1], c[2]) # {} /\ id.door \in Doors}}

CanonicalParcelId(id) == {ParcelId(a.road, a.door) : a \in FromParcelId(id)}

ParcelFromViewId(id) ==
    IF id.kind = "parcel" THEN {a \in FromParcelId(id) : ParcelId(a.road, a.door) = id}
                          ELSE {}

-----------------------------------------------------------------------------
(* checked_add and checked_sub: no exit at the edge of i32. *)
Direction == {"north", "south", "east", "west"}

Neighbour(r, d) == CASE d = "north" -> <<r[1], r[2] + 1>>
                     [] d = "south" -> <<r[1], r[2] - 1>>
                     [] d = "east"  -> <<r[1] + 1, r[2]>>
                     [] d = "west"  -> <<r[1] - 1, r[2]>>

Moved(r, d) == {Neighbour(r, d)} \cap (Coordinates \X Coordinates)

MoveTarget(c) == IF c = <<0, 0>> THEN Origin ELSE RoadViewId(c)

Exit(d, id) == [direction |-> d, target |-> id]

RoadExits(r) == UNION {{Exit(d, MoveTarget(c)) : c \in Moved(r, d)} : d \in Direction}

OriginExits == {Exit("north", RoadViewId(<<0, 1>>)), Exit("south", RoadViewId(<<0, -1>>)),
                Exit("west", RoadViewId(<<-1, 0>>)), Exit("east", RoadViewId(<<1, 0>>))}

ParcelExits(a) == {Exit(IF a.door <= 2 THEN "south" ELSE "north", RoadViewId(a.road))}

(* The exits of the view of an id, when it has one. *)
GridView(id) == {RoadExits(r) : r \in RoadFromViewId(id)}
                  \cup {ParcelExits(a) : a \in ParcelFromViewId(id)}
View(id)     == IF id = Origin THEN {OriginExits} ELSE GridView(id)

(* The doorplates that face a road. *)
ParcelAddresses(id) == {ParcelId(r, door) : r \in RoadFromViewId(id), door \in Doors}

-----------------------------------------------------------------------------
NoWay == [view |-> Nowhere, direction |-> "north"]

(* A walker starts at the origin, or where an id of any spelling put them, *)
(* if it names a view.                                                     *)
RoadIds == [kind : {"road"}, x : Token, y : Token]
Starts  == {Origin} \cup {id \in RoadIds : GridView(id) # {}}

GridInit == /\ stands \in [Walkers -> Starts]
            /\ cameFrom = [w \in Walkers |-> NoWay]

To(w, id, way) == /\ stands' = [stands EXCEPT ![w] = id]
                  /\ cameFrom' = [cameFrom EXCEPT ![w] = way]

Go(w, d) == \E exits \in View(stands[w]) : \E e \in exits :
               /\ e.direction = d
               /\ To(w, e.target, [view |-> stands[w], direction |-> d])

(* The doorplate is typed in some spelling. *)
Plates == [kind : {"parcel"}, x : Token, y : Token, door : 0..5, padded : BOOLEAN]

EnterDoor(w, plate) == \E id \in CanonicalParcelId(plate) \cap ParcelAddresses(stands[w]) :
                          To(w, id, NoWay)

GridStep(w, plates) == \/ \E d \in Direction : Go(w, d)
                       \/ \E plate \in plates : EnterDoor(w, plate)

-----------------------------------------------------------------------------
GridTypeOK == \A w \in Walkers : stands[w].kind \in {"origin", "road", "parcel"}

(* No step leads out of the town, and each can be taken back: from where   *)
(* an exit led, the exit the other way leads to where it was taken, and a  *)
(* building that was left faces the road it was left to; around the origin *)
(* and at the edge of i32 too, where sums do not exist.                    *)
Opposite(d) == CASE d = "north" -> "south" [] d = "south" -> "north"
                 [] d = "east"  -> "west"  [] d = "west"  -> "east"

WaysBack ==
    \A w \in Walkers :
        /\ View(stands[w]) # {}
        /\ cameFrom[w] # NoWay =>
              \/ \E exits \in View(stands[w]) :
                    Exit(Opposite(cameFrom[w].direction), cameFrom[w].view) \in exits
              \/ cameFrom[w].view \in ParcelAddresses(stands[w])
=============================================================================
