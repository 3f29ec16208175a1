----------------------------- MODULE TownProofs -----------------------------
(* What TLC checks of the town on one set of casts, for every set of casts *)
(* and all values of the constants.  The parts of the town share no rows:  *)
(* each invariant is that of one part, kept by the part's own steps and    *)
(* left alone by the others'.  The streets and the names of rooms come     *)
(* first: every step can be taken back, for any i32::MAX, and names differ *)
(* after a load that ran alone, for any loads side by side.                *)
EXTENDS Town, LandProofs, PeopleProofs, TLAPS

Road    == (Coordinates \X Coordinates) \ {<<0, 0>>}
RoadView(id)     == \E r \in Road : id = RoadViewId(r)
BuildingView(id) == \E r \in Road, door \in Doors : id = ParcelId(r, door)
InTown(id)         == id = Origin \/ RoadView(id) \/ BuildingView(id)

(* From where one stands, the way one came can be taken back. *)
TakenBack(id, way) ==
  \/ \E exits \in View(id) : Exit(Opposite(way.direction), way.view) \in exits
  \/ way.view \in ParcelAddresses(id)

GridInv ==
  /\ DOMAIN stands = Walkers /\ DOMAIN cameFrom = Walkers
  /\ \A w \in Walkers : /\ InTown(stands[w])
                        /\ cameFrom[w] # NoWay => TakenBack(stands[w], cameFrom[w])

---------------------------------------------------------------------------
(* Coordinates and ids. *)

(* What is written for a coordinate is read as that coordinate. *)
LEMMA CoordinatesRead ==
  ASSUME NEW v \in Coordinates
  PROVE  ParseSignedToken(EncodeSigned(v)) = {v}
<1>1. v \in Int /\ -(MaxCoord + 1) <= v /\ v <= MaxCoord /\ MaxCoord \in Nat
  BY GridAssumption DEF Coordinates
<1>2. CASE v = 0
  <2>1. EncodeSigned(v) = [letter |-> "zero", n |-> 0, plain |-> TRUE]
    BY <1>2 DEF EncodeSigned
  <2> QED
    BY <1>2, <2>1 DEF ParseSignedToken
<1>3. CASE v > 0
  <2>1. EncodeSigned(v) = [letter |-> "plus", n |-> v, plain |-> TRUE]
    BY <1>1, <1>3 DEF EncodeSigned
  <2>2. ParseSignedToken(EncodeSigned(v)) = {v} \cap 1..MaxCoord
    BY <2>1 DEF ParseSignedToken
  <2> QED
    BY <1>1, <1>3, <2>2
<1>4. CASE v < 0
  <2>1. EncodeSigned(v) = [letter |-> "minus", n |-> -v, plain |-> TRUE]
    BY <1>1, <1>4 DEF EncodeSigned
  <2>2. ParseSignedToken(EncodeSigned(v)) = {-x : x \in {-v} \cap 1..(MaxCoord + 1)}
    BY <2>1 DEF ParseSignedToken
  <2>3. {-v} \cap 1..(MaxCoord + 1) = {-v}
    BY <1>1, <1>4
  <2>4. -(-v) = v
    BY <1>1
  <2> QED
    BY <2>2, <2>3, <2>4
<1> QED
  BY <1>1, <1>2, <1>3, <1>4

(* Whatever is read is a coordinate. *)
LEMMA ReadInRange ==
  ASSUME NEW t \in Token
  PROVE  ParseSignedToken(t) \subseteq Coordinates
<1>1. MaxCoord \in Nat /\ 0 \in Coordinates
  BY GridAssumption DEF Coordinates
<1>2. CASE t.letter = "zero"
  BY <1>1, <1>2 DEF ParseSignedToken
<1>3. CASE t.letter = "plus"
  BY <1>1, <1>3 DEF ParseSignedToken, Coordinates
<1>4. CASE t.letter = "minus"
  BY <1>1, <1>4 DEF ParseSignedToken, Coordinates
<1> QED
  BY <1>2, <1>3, <1>4 DEF Token

(* A road's id reads as the road. *)
LEMMA RoadsRead ==
  ASSUME NEW r \in Road
  PROVE  RoadFromViewId(RoadViewId(r)) = {r} /\ RoadViewId(r).kind = "road"
<1>1. r = <<r[1], r[2]>> /\ r[1] \in Coordinates /\ r[2] \in Coordinates /\ r # <<0, 0>>
  BY DEF Road
<1> DEFINE id == RoadViewId(r)
<1>2. id = [kind |-> "road", x |-> EncodeSigned(r[1]), y |-> EncodeSigned(r[2])]
  BY DEF RoadViewId
<1>3. ParseGridRoadCoordinates(id) = {r[1]} \X {r[2]}
  BY <1>1, <1>2, CoordinatesRead DEF ParseGridRoadCoordinates
<1>4. {r[1]} \X {r[2]} = {r}
  BY <1>1
<1>5. NewRoad(r[1], r[2]) = {r}
  BY <1>1 DEF NewRoad
<1>6. UNION {NewRoad(c[1], c[2]) : c \in ParseGridRoadCoordinates(id)} = {r}
  BY <1>3, <1>4, <1>5
<1> QED
  BY <1>2, <1>6 DEF RoadFromViewId

(* A building's id reads as its road and door. *)
LEMMA BuildingsRead ==
  ASSUME NEW r \in Road, NEW door \in Doors
  PROVE  /\ ParcelFromViewId(ParcelId(r, door)) = {[road |-> r, door |-> door]}
         /\ ParcelId(r, door).kind = "parcel"
<1>1. r = <<r[1], r[2]>> /\ r[1] \in Coordinates /\ r[2] \in Coordinates /\ r # <<0, 0>>
  BY DEF Road
<1> DEFINE id == ParcelId(r, door)
<1>2. id = [kind |-> "parcel", x |-> AxisCode(r[1]), y |-> AxisCode(r[2]),
            door |-> door, padded |-> TRUE]
  BY DEF ParcelId
<1>3. ParseAxisCode(id.x) = {r[1]} /\ ParseAxisCode(id.y) = {r[2]}
  BY <1>1, <1>2, CoordinatesRead DEF ParseAxisCode, AxisCode
<1>4. ParseAxisCode(id.x) \X ParseAxisCode(id.y) = {r}
  BY <1>1, <1>3
<1>5. NewRoad(r[1], r[2]) # {}
  BY <1>1 DEF NewRoad
<1>6. {c \in ParseAxisCode(id.x) \X ParseAxisCode(id.y) :
         NewRoad(c[1], c[2]) # {} /\ id.door \in Doors} = {r}
  BY <1>2, <1>4, <1>5
<1>7. FromParcelId(id) = {[road |-> r, door |-> door]}
  BY <1>2, <1>6 DEF FromParcelId
<1> HIDE DEF id
<1>8. ParcelFromViewId(id) = {[road |-> r, door |-> door]}
  <2>1. id.kind = "parcel" /\ id = ParcelId(r, door)
    BY <1>2 DEF id
  <2>2. ParcelFromViewId(id) = {a \in FromParcelId(id) : ParcelId(a.road, a.door) = id}
    BY <2>1 DEF ParcelFromViewId
  <2> DEFINE it == [road |-> r, door |-> door]
  <2>3. it.road = r /\ it.door = door
    OBVIOUS
  <2> HIDE DEF it
  <2>4. FromParcelId(id) = {it}
    BY <1>7 DEF it
  <2>5. ParcelId(it.road, it.door) = id
    BY <2>1, <2>3
  <2>6. ParcelFromViewId(id) = {it}
    BY <2>2, <2>4, <2>5
  <2> QED
    BY <2>6 DEF it
<1>9. id.kind = "parcel"
  BY <1>2 DEF id
<1> QED
  BY <1>8, <1>9 DEF id

---------------------------------------------------------------------------
(* Views. *)

(* A road of the town has a view. *)
LEMMA RoadsViewed ==
  ASSUME NEW r \in Road
  PROVE  /\ View(RoadViewId(r)) = {RoadExits(r)}
         /\ RoadViewId(r) # Origin
<1>1. RoadFromViewId(RoadViewId(r)) = {r} /\ RoadViewId(r).kind = "road"
  BY RoadsRead
<1>2. RoadViewId(r) # Origin
  BY <1>1 DEF Origin
<1>3. ParcelFromViewId(RoadViewId(r)) = {}
  BY <1>1 DEF ParcelFromViewId
<1> QED
  BY <1>1, <1>2, <1>3 DEF View, GridView

(* A building of the town has a view. *)
LEMMA BuildingsViewed ==
  ASSUME NEW r \in Road, NEW door \in Doors
  PROVE  View(ParcelId(r, door)) = {ParcelExits([road |-> r, door |-> door])}
<1> DEFINE id == ParcelId(r, door)
<1>1. ParcelFromViewId(id) = {[road |-> r, door |-> door]} /\ id.kind = "parcel"
  BY BuildingsRead
<1> HIDE DEF id
<1>2. id # Origin
  BY <1>1 DEF Origin
<1>3. ParseGridRoadCoordinates(id) = {}
  BY <1>1 DEF ParseGridRoadCoordinates
<1>4. RoadFromViewId(id) = {}
  BY <1>3 DEF RoadFromViewId
<1>5. View(id) = {ParcelExits([road |-> r, door |-> door])}
  BY <1>1, <1>2, <1>4 DEF View, GridView
<1> QED
  BY <1>5 DEF id

(* Every place of the town has a view. *)
LEMMA TownIsViewed == \A id : InTown(id) => View(id) # {}
BY RoadsViewed, BuildingsViewed DEF InTown, RoadView, BuildingView, View

(* The addresses of a road are the buildings around it. *)
LEMMA AddressesOfARoad ==
  ASSUME NEW r \in Road
  PROVE  ParcelAddresses(RoadViewId(r)) = {ParcelId(r, door) : door \in Doors}
BY RoadsRead DEF ParcelAddresses

(* The addresses at a road are buildings of the town. *)
LEMMA AddressesAreBuildings ==
  ASSUME NEW id, InTown(id), NEW b \in ParcelAddresses(id)
  PROVE  BuildingView(b)
<1>1. PICK r \in RoadFromViewId(id), door \in Doors : b = ParcelId(r, door)
  BY DEF ParcelAddresses
<1>2. id.kind = "road"
  BY <1>1 DEF RoadFromViewId, ParseGridRoadCoordinates
<1>3. id # Origin
  BY <1>2 DEF Origin
<1>4. ~BuildingView(id)
  BY <1>2, BuildingsRead DEF BuildingView
<1>5. r \in Road
  BY <1>1, <1>3, <1>4, RoadsRead DEF InTown, RoadView
<1> QED
  BY <1>1, <1>5 DEF BuildingView

---------------------------------------------------------------------------
(* One step, out of each kind of view. *)

(* The opposite of a direction is one, and its opposite the first. *)
LEMMA OppositeDirection ==
  ASSUME NEW d \in Direction
  PROVE  Opposite(d) \in Direction /\ Opposite(Opposite(d)) = d
BY DEF Direction, Opposite

(* An exit of a road leads to its neighbour, and there an exit leads back. *)
LEMMA NeighbourBack ==
  ASSUME NEW r \in Coordinates \X Coordinates, NEW d \in Direction, NEW c \in Moved(r, d)
  PROVE  /\ c \in Coordinates \X Coordinates
         /\ r \in Moved(c, Opposite(d))
<1>1. r = <<r[1], r[2]>> /\ r[1] \in Int /\ r[2] \in Int
  BY DEF Coordinates
<1>2. c = Neighbour(r, d) /\ c \in Coordinates \X Coordinates
  BY DEF Moved
<1>3. Neighbour(c, Opposite(d)) = r
  <2>1. CASE d = "north"
    BY <1>1, <1>2, <2>1 DEF Neighbour, Opposite
  <2>2. CASE d = "south"
    BY <1>1, <1>2, <2>2 DEF Neighbour, Opposite
  <2>3. CASE d = "east"
    BY <1>1, <1>2, <2>3 DEF Neighbour, Opposite
  <2>4. CASE d = "west"
    BY <1>1, <1>2, <2>4 DEF Neighbour, Opposite
  <2> QED
    BY <2>1, <2>2, <2>3, <2>4 DEF Direction
<1> QED
  BY <1>2, <1>3 DEF Moved

(* The exits of the origin lead to its neighbours, which are roads. *)
O == <<0, 0>>

(* The exits of the origin lead to its neighbours. *)
LEMMA OriginExitsOut ==
  /\ \A d \in Direction : Exit(d, RoadViewId(Neighbour(O, d))) \in OriginExits
  /\ \A e \in OriginExits :
       \E d \in Direction : e = Exit(d, RoadViewId(Neighbour(O, d)))
  /\ O \in Coordinates \X Coordinates
  /\ \A d \in Direction : Neighbour(O, d) \in Moved(O, d) /\ Neighbour(O, d) \in Road
<1>1. /\ Neighbour(O, "north") = <<0, 1>> /\ Neighbour(O, "south") = <<0, -1>>
      /\ Neighbour(O, "east") = <<1, 0>>  /\ Neighbour(O, "west") = <<-1, 0>>
  BY DEF Neighbour, O
<1>2. O \in Coordinates \X Coordinates
  BY GridAssumption DEF Coordinates, O
<1>3. \A n \in {<<0, 1>>, <<0, -1>>, <<1, 0>>, <<-1, 0>>} :
         n \in Coordinates \X Coordinates /\ n # O
  BY GridAssumption DEF Coordinates, O
<1>4. \A d \in Direction : Neighbour(O, d) \in {<<0, 1>>, <<0, -1>>, <<1, 0>>, <<-1, 0>>}
  BY <1>1 DEF Direction
<1>5. \A d \in Direction : Neighbour(O, d) \in Moved(O, d) /\ Neighbour(O, d) \in Road
  BY <1>3, <1>4 DEF Moved, Road, O
<1>6. \A d \in Direction : Exit(d, RoadViewId(Neighbour(O, d))) \in OriginExits
  BY <1>1 DEF Direction, OriginExits
<1>7. ASSUME NEW e \in OriginExits
      PROVE  \E d \in Direction : e = Exit(d, RoadViewId(Neighbour(O, d)))
  <2>1. \/ e = Exit("north", RoadViewId(Neighbour(O, "north")))
        \/ e = Exit("south", RoadViewId(Neighbour(O, "south")))
        \/ e = Exit("west", RoadViewId(Neighbour(O, "west")))
        \/ e = Exit("east", RoadViewId(Neighbour(O, "east")))
    BY <1>1 DEF OriginExits
  <2> QED
    BY <2>1 DEF Direction
<1> QED
  BY <1>2, <1>5, <1>6, <1>7

(* An exit is its direction and where it leads. *)
LEMMA ExitFields ==
  ASSUME NEW d, NEW id
  PROVE  Exit(d, id).direction = d /\ Exit(d, id).target = id
BY DEF Exit

(* A step from a road. *)
LEMMA FromARoad ==
  ASSUME NEW r \in Road, NEW e \in RoadExits(r)
  PROVE  /\ InTown(e.target)
         /\ TakenBack(e.target, [view |-> RoadViewId(r), direction |-> e.direction])
<1>0. PICK d \in Direction : \E c \in Moved(r, d) : e = Exit(d, MoveTarget(c))
  BY DEF RoadExits
<1>1. PICK c \in Moved(r, d) : e = Exit(d, MoveTarget(c))
  BY <1>0
<1>2. e.direction = d /\ e.target = MoveTarget(c)
  BY <1>1, ExitFields
<1>3. r \in Coordinates \X Coordinates /\ r # O
  BY DEF Road, O
<1>4. c \in Coordinates \X Coordinates /\ r \in Moved(c, Opposite(d))
  BY <1>3, NeighbourBack
<1>5. Opposite(d) \in Direction
  BY OppositeDirection
<1> DEFINE way == [view |-> RoadViewId(r), direction |-> d]
<1>6. way.view = RoadViewId(r) /\ way.direction = d
  OBVIOUS
<1> HIDE DEF way
<1>7. CASE c = O
  <2>1. e.target = Origin
    BY <1>2, <1>7 DEF MoveTarget, O
  <2>2. r = Neighbour(O, Opposite(d))
    BY <1>4, <1>7 DEF Moved
  <2>3. Exit(Opposite(d), RoadViewId(r)) \in OriginExits
    BY <1>5, <2>2, OriginExitsOut
  <2>4. View(Origin) = {OriginExits}
    BY DEF View
  <2>5. TakenBack(Origin, way)
    BY <1>6, <2>3, <2>4 DEF TakenBack
  <2> QED
    BY <1>2, <2>1, <2>5 DEF InTown, way
<1>8. CASE c # O
  <2>1. e.target = RoadViewId(c) /\ c \in Road
    BY <1>2, <1>4, <1>8 DEF MoveTarget, O, Road
  <2>2. Exit(Opposite(d), MoveTarget(r)) \in RoadExits(c)
    BY <1>4, <1>5 DEF RoadExits
  <2>3. MoveTarget(r) = RoadViewId(r)
    BY <1>3 DEF MoveTarget, O
  <2>4. TakenBack(RoadViewId(c), way)
    BY <1>6, <2>1, <2>2, <2>3, RoadsViewed DEF TakenBack
  <2> QED
    BY <1>2, <2>1, <2>4 DEF InTown, RoadView, way
<1> QED
  BY <1>7, <1>8

(* A step from the origin. *)
LEMMA FromTheOrigin ==
  ASSUME NEW e \in OriginExits
  PROVE  /\ InTown(e.target)
         /\ TakenBack(e.target, [view |-> Origin, direction |-> e.direction])
<1>1. PICK d \in Direction : e = Exit(d, RoadViewId(Neighbour(O, d)))
  BY OriginExitsOut
<1> DEFINE n == Neighbour(O, d)
<1>2. e.direction = d /\ e.target = RoadViewId(n)
  BY <1>1, ExitFields
<1>3. n \in Road /\ n \in Moved(O, d) /\ O \in Coordinates \X Coordinates
  BY OriginExitsOut
<1> HIDE DEF n
<1>4. O \in Moved(n, Opposite(d))
  BY <1>3, NeighbourBack
<1>5. Exit(Opposite(d), MoveTarget(O)) \in RoadExits(n)
  BY <1>4, OppositeDirection DEF RoadExits
<1>6. MoveTarget(O) = Origin
  BY DEF MoveTarget, O
<1> DEFINE way == [view |-> Origin, direction |-> d]
<1>7. way.view = Origin /\ way.direction = d
  OBVIOUS
<1> HIDE DEF way
<1>8. TakenBack(RoadViewId(n), way)
  BY <1>3, <1>5, <1>6, <1>7, RoadsViewed DEF TakenBack
<1> QED
  BY <1>2, <1>3, <1>8 DEF InTown, RoadView, way

(* A step out of a building. *)
LEMMA FromABuilding ==
  ASSUME NEW r \in Road, NEW door \in Doors,
         NEW e \in ParcelExits([road |-> r, door |-> door])
  PROVE  /\ InTown(e.target)
         /\ TakenBack(e.target, [view |-> ParcelId(r, door), direction |-> e.direction])
<1>1. e.target = RoadViewId(r)
  BY ExitFields DEF ParcelExits
<1>2. ParcelId(r, door) \in ParcelAddresses(RoadViewId(r))
  BY AddressesOfARoad
<1> QED
  BY <1>1, <1>2 DEF InTown, RoadView, TakenBack

---------------------------------------------------------------------------
(* The invariant. *)

(* Walkers start in the town: a road's id is its own, whatever its tokens. *)
LEMMA StartsAreInTown == \A id \in Starts : InTown(id)
<1> SUFFICES ASSUME NEW id \in RoadIds, GridView(id) # {}
             PROVE  InTown(id)
  BY DEF Starts, InTown
<1>1. id.kind = "road" /\ id.x \in Token /\ id.y \in Token
  BY DEF RoadIds
<1>2. ParcelFromViewId(id) = {}
  BY <1>1 DEF ParcelFromViewId
<1>3. PICK r \in RoadFromViewId(id) : TRUE
  BY <1>2 DEF GridView
<1>4. PICK c \in ParseGridRoadCoordinates(id) : r \in NewRoad(c[1], c[2])
  BY <1>3 DEF RoadFromViewId
<1>5. c \in Coordinates \X Coordinates
  BY <1>1, <1>4, ReadInRange DEF ParseGridRoadCoordinates
<1>6. r \in Road
  BY <1>4, <1>5 DEF NewRoad, Road
<1>7. id = RoadViewId(r)
  BY <1>3 DEF RoadFromViewId
<1> QED
  BY <1>6, <1>7 DEF InTown, RoadView

(* It holds at first, it is about the walkers alone, and it says that what *)
(* was walked can be walked back.                                          *)
LEMMA GridInvInit == GridInit => GridInv
BY StartsAreInTown DEF GridInit, GridInv

(* Steps of the other parts of the town leave the walkers alone. *)
LEMMA GridUnchanged == GridInv /\ UNCHANGED gridVars => GridInv'
<1> SUFFICES ASSUME GridInv, UNCHANGED gridVars PROVE GridInv'
  OBVIOUS
<1>1. stands' = stands /\ cameFrom' = cameFrom
  BY DEF gridVars
<1> QED
  BY <1>1 DEF GridInv

(* The property is a part of the invariant. *)
LEMMA GridInvImplies == GridInv => WaysBack
BY TownIsViewed DEF GridInv, WaysBack, TakenBack

(* A step through an exit leads to a place of the town. *)
LEMMA GoKeeps ==
  ASSUME GridInv, NEW w \in Walkers, NEW d \in Direction, Go(w, d)
  PROVE  GridInv'
<1> DEFINE id == stands[w]
<1>0. PICK exits \in View(id) : \E e \in exits :
         /\ e.direction = d
         /\ To(w, e.target, [view |-> id, direction |-> d])
  BY DEF Go
<1>1. PICK e \in exits :
         /\ e.direction = d
         /\ To(w, e.target, [view |-> id, direction |-> d])
  BY <1>0
<1>2. InTown(e.target) /\ TakenBack(e.target, [view |-> id, direction |-> d])
  <2>1. InTown(id)
    BY DEF GridInv
  <2>2. CASE id = Origin
    <3>1. exits = OriginExits
      BY <1>1, <2>2 DEF View
    <3> QED
      BY <1>1, <2>2, <3>1, FromTheOrigin
  <2>3. CASE RoadView(id)
    <3>1. PICK r \in Road : id = RoadViewId(r)
      BY <2>3 DEF RoadView
    <3>2. exits = RoadExits(r)
      BY <1>1, <3>1, RoadsViewed
    <3> QED
      BY <1>1, <3>1, <3>2, FromARoad
  <2>4. CASE BuildingView(id)
    <3>1. PICK r \in Road, door \in Doors : id = ParcelId(r, door)
      BY <2>4 DEF BuildingView
    <3>2. exits = ParcelExits([road |-> r, door |-> door])
      BY <1>1, <3>1, BuildingsViewed
    <3> QED
      BY <1>1, <3>1, <3>2, FromABuilding
  <2> QED
    BY <2>1, <2>2, <2>3, <2>4 DEF InTown
<1> QED
  BY <1>1, <1>2 DEF To, GridInv

(* So does a door. *)
LEMMA EnterDoorKeeps ==
  ASSUME GridInv, NEW w \in Walkers, NEW plate, EnterDoor(w, plate)
  PROVE  GridInv'
<1>1. PICK id \in ParcelAddresses(stands[w]) : To(w, id, NoWay)
  BY DEF EnterDoor
<1>2. InTown(id)
  BY <1>1, AddressesAreBuildings DEF GridInv, InTown
<1> QED
  BY <1>1, <1>2 DEF To, GridInv

(* Every step of a walker keeps it in the town. *)
LEMMA GridStepKeeps ==
  ASSUME GridInv, NEW w \in Walkers, NEW plates, GridStep(w, plates)
  PROVE  GridInv'
BY GoKeeps, EnterDoorKeeps DEF GridStep

---------------------------------------------------------------------------
(* ROOMS *)

(* The rooms that a load has come to, or that its list has not.            *)
Decided(a) == {r \in ServiceRooms : OpenRoom(r) /\ r \notin Listed(loads[a].rest)}

(* A registration's names are none of a parcel's that has its title still. *)
ApartFromParcels(g) ==
    \A p \in Lots \ retitled : FrontOf[p] = g.front => Declared(g) \cap ParcelNames(p) = {}

(* What a load that runs alone has decided: the open rooms have claimed    *)
(* their names, each its own, and the head of the list those it will have. *)
Deciding(a) ==
    /\ \A r \in Decided(a) : /\ Claims(roomRow[r]) \subseteq loads[a].claimed
                             /\ ApartFromParcels(roomRow[r])
    /\ \A r, q \in Decided(a) : r # q => Claims(roomRow[r]) \cap Claims(roomRow[q]) = {}
    /\ loads[a].at = "upsert" /\ loads[a].enabled =>
         /\ Claims(Head(loads[a].rest)) \subseteq loads[a].claimed
         /\ ApartFromParcels(Head(loads[a].rest))
         /\ \A r \in Decided(a) : Claims(Head(loads[a].rest)) \cap Claims(roomRow[r]) = {}

SoleLoad(a) == /\ \A b \in Loaders \ {a} : ~Running(b)
               /\ Deciding(a)

RoomsInv ==
    /\ RoomsTypeOK
    /\ \A a \in Loaders : Running(a) => ~settled
    /\ \A a \in Loaders : Running(a) /\ loads[a].alone => SoleLoad(a)
    /\ DeclaredNamesDiffer

---------------------------------------------------------------------------
(* Lists and registrations. *)

LEMMA ListParts ==
  ASSUME NEW list \in Seq(Registration), list # <<>>
  PROVE  /\ Head(list) \in Registration /\ Tail(list) \in Seq(Registration)
         /\ Listed(list) = {Head(list).view} \cup Listed(Tail(list))
<1>1. Head(list) \in Registration /\ Tail(list) \in Seq(Registration) /\ Len(list) \in Nat \ {0}
  OBVIOUS
<1>2. Head(list) = list[1] /\ Len(Tail(list)) = Len(list) - 1
  OBVIOUS
<1>3. \A i \in 1..Len(Tail(list)) : Tail(list)[i] = list[i + 1]
  OBVIOUS
<1>4. DOMAIN list = 1..Len(list) /\ DOMAIN Tail(list) = 1..Len(Tail(list))
  BY <1>1
<1>5. ASSUME NEW i \in DOMAIN list
      PROVE  i = 1 \/ (i - 1 \in DOMAIN Tail(list) /\ list[i] = Tail(list)[i - 1])
  BY <1>1, <1>2, <1>3, <1>4
<1>6. \A i \in DOMAIN Tail(list) : i + 1 \in DOMAIN list
  BY <1>1, <1>2, <1>4
<1>7. 1 \in DOMAIN list
  BY <1>1, <1>4
<1>8. Listed(list) \subseteq {Head(list).view} \cup Listed(Tail(list))
  <2> SUFFICES ASSUME NEW i \in DOMAIN list
               PROVE  list[i].view \in {Head(list).view} \cup Listed(Tail(list))
    BY DEF Listed
  <2>1. CASE i = 1
    BY <1>2, <2>1
  <2>2. CASE i # 1
    BY <1>5, <2>2 DEF Listed
  <2> QED
    BY <2>1, <2>2
<1>9. \A i \in DOMAIN Tail(list) : Tail(list)[i].view = list[i + 1].view
  BY <1>3, <1>4
<1>10. Listed(Tail(list)) \subseteq Listed(list)
  BY <1>6, <1>9 DEF Listed
<1>11. Head(list).view \in Listed(list)
  BY <1>2, <1>7 DEF Listed
<1> QED
  BY <1>1, <1>8, <1>10, <1>11

(* Whether a registration is enabled is no part of its names. *)
LEMMA EnabledIsNoName ==
  ASSUME NEW g \in Registration, NEW on \in BOOLEAN
  PROVE  /\ [g EXCEPT !.enabled = on] \in Registration
         /\ [g EXCEPT !.enabled = on].view = g.view /\ [g EXCEPT !.enabled = on].front = g.front
         /\ [g EXCEPT !.enabled = on].enabled = on
         /\ Declared([g EXCEPT !.enabled = on]) = Declared(g)
         /\ Claims([g EXCEPT !.enabled = on]) = Claims(g)
BY DEF Registration, Declared, Claims

LEMMA NamesAreEntered ==
  ASSUME NEW g \in Registration
  PROVE  Declared(g) \subseteq EnterNames
BY DEF Registration, Declared

LEMMA NoLoadIsLoading == NoLoad \in Loading /\ Loaded \in Loading
BY DEF NoLoad, Loaded, Idle, Loading

(* What is said of the rows and of a load speaks of them alone. *)
LEMMA RowsUnchanged ==
  ASSUME UNCHANGED <<roomRow, titles, settled, retitled>>
  PROVE  DeclaredNamesDiffer' = DeclaredNamesDiffer
<1>1. \A s, n : DeclaredAs(s, n)' = DeclaredAs(s, n)
  BY DEF DeclaredAs, RoomsOf, OpenRoom
<1>2. \A p : ParcelNames(p)' = ParcelNames(p)
  BY DEF ParcelNames
<1> QED
  BY <1>1, <1>2 DEF DeclaredNamesDiffer

LEMMA LoadUnchanged ==
  ASSUME UNCHANGED <<roomRow, titles, settled, retitled>>, NEW b \in Loaders,
         loads'[b] = loads[b]
  PROVE  Deciding(b)' = Deciding(b)
<1>1. Decided(b)' = Decided(b)
  BY DEF Decided, OpenRoom
<1>2. \A g : ApartFromParcels(g)' = ApartFromParcels(g)
  BY DEF ApartFromParcels, ParcelNames
<1> QED
  BY <1>1, <1>2 DEF Deciding

(* Nothing of these rows changes. *)
LEMMA RoomsUnchanged == RoomsInv /\ UNCHANGED roomVars => RoomsInv'
<1> SUFFICES ASSUME RoomsInv, UNCHANGED roomVars PROVE RoomsInv'
  OBVIOUS
<1>1. UNCHANGED <<roomRow, titles, settled, retitled>> /\ UNCHANGED loads
  BY DEF roomVars
<1>2. RoomsTypeOK'
  BY <1>1 DEF RoomsInv, RoomsTypeOK
<1>3. \A a : Running(a)' = Running(a)
  BY <1>1 DEF Running
<1>4. \A a \in Loaders : SoleLoad(a)' = SoleLoad(a)
  BY <1>1, <1>3, LoadUnchanged DEF SoleLoad
<1>5. DeclaredNamesDiffer'
  BY <1>1, RowsUnchanged DEF RoomsInv
<1> QED
  BY <1>1, <1>2, <1>3, <1>4, <1>5 DEF RoomsInv

(* Nobody has a name at first, and nobody loads. *)
LEMMA RoomsInvInit == RoomsInit => RoomsInv
<1> SUFFICES ASSUME RoomsInit PROVE RoomsInv
  OBVIOUS
<1>2. RoomsTypeOK
  BY NoLoadIsLoading DEF RoomsInit, RoomsTypeOK, NoLoad, Idle
<1>3. \A a \in Loaders : ~Running(a)
  BY DEF RoomsInit, Running, NoLoad, Idle
<1> QED
  BY <1>2, <1>3 DEF RoomsInit, RoomsInv, DeclaredNamesDiffer

---------------------------------------------------------------------------
(* The steps of a load. *)

LEMMA NoRegistrationsKeeps ==
  ASSUME RoomsInv, NEW a \in Loaders, NoRegistrations(a)
  PROVE  RoomsInv'
<1> USE DEF NoRegistrations, End
<1>1. RoomsTypeOK /\ Loaded \in Loading
  BY NoLoadIsLoading DEF RoomsInv
<1>2. loads'[a] = Loaded /\ (\A b \in Loaders \ {a} : loads'[b] = loads[b])
  BY <1>1 DEF RoomsTypeOK
<1>3. RoomsTypeOK'
  BY <1>1, <1>2 DEF RoomsTypeOK, Loaded, Idle
<1>4. ~Running(a)' /\ (\A b \in Loaders \ {a} : Running(b)' = Running(b)) /\ ~Running(a)
  BY <1>2 DEF Running, Loaded, Idle
<1>5. ASSUME NEW b \in Loaders, Running(b)', loads'[b].alone
      PROVE  SoleLoad(b)'
  <2>1. b # a /\ loads'[b] = loads[b] /\ Running(b)
    BY <1>2, <1>4, <1>5
  <2>2. SoleLoad(b) /\ Deciding(b)'
    BY <1>5, <2>1, LoadUnchanged DEF RoomsInv, SoleLoad
  <2> QED
    BY <1>4, <2>2 DEF SoleLoad
<1>6. DeclaredNamesDiffer'
  BY RowsUnchanged DEF RoomsInv
<1> QED
  BY <1>3, <1>4, <1>5, <1>6 DEF RoomsInv

LEMMA DisableKeeps ==
  ASSUME RoomsInv, NEW a \in Loaders, NEW d \in Directories, DisableServiceRooms(a, d)
  PROVE  RoomsInv'
<1> DEFINE alone == \A b \in Loaders : ~Running(b)
           load  == [at |-> "next", streets |-> d.streets, rest |-> d.rooms,
                     claimed |-> {}, enabled |-> FALSE, alone |-> alone]
<1>1. RoomsTypeOK /\ d.streets \subseteq Fronts /\ d.rooms \in Seq(Registration)
  BY RoomsAssumption DEF RoomsInv, RoomsAssumption, DisableServiceRooms
<1>2. alone \in BOOLEAN
  OBVIOUS
<1>3. load \in Loading
  BY <1>1, <1>2 DEF Loading
<1>4. /\ loads'[a] = load
      /\ \A b \in Loaders \ {a} :
           loads'[b] = IF Running(b) THEN [loads[b] EXCEPT !.alone = FALSE] ELSE loads[b]
      /\ loads' = [b \in Loaders |-> loads'[b]]
  BY DEF DisableServiceRooms
<1>5. \A b \in Loaders \ {a} :
        /\ loads'[b] \in Loading /\ loads'[b].at = loads[b].at /\ loads'[b].rest = loads[b].rest
        /\ Running(b) => ~loads'[b].alone
  <2> SUFFICES ASSUME NEW b \in Loaders \ {a}
               PROVE  /\ loads'[b] \in Loading /\ loads'[b].at = loads[b].at
                      /\ loads'[b].rest = loads[b].rest
                      /\ Running(b) => ~loads'[b].alone
    OBVIOUS
  <2>1. loads[b] \in Loading
    BY <1>1 DEF RoomsTypeOK
  <2>2. CASE ~Running(b)
    BY <1>4, <2>1, <2>2
  <2>3. CASE Running(b)
    <3>1. loads'[b] = [loads[b] EXCEPT !.alone = FALSE]
      BY <1>4, <2>3
    <3>2. loads'[b] \in Loading
      BY <2>1, <3>1 DEF Loading
    <3>3. loads'[b].at = loads[b].at /\ loads'[b].rest = loads[b].rest /\ ~loads'[b].alone
      BY <2>1, <3>1 DEF Loading
    <3> QED
      BY <3>2, <3>3
  <2> QED
    BY <2>2, <2>3
<1>6. \A r \in ServiceRooms : roomRow[r] # Missing =>
        /\ [roomRow[r] EXCEPT !.enabled = FALSE] \in Registration
        /\ [roomRow[r] EXCEPT !.enabled = FALSE].view = r
        /\ ~[roomRow[r] EXCEPT !.enabled = FALSE].enabled
  BY <1>1, EnabledIsNoName DEF RoomsTypeOK
<1>7. roomRow' = DisabledExcept(Listed(d.rooms)) /\ UNCHANGED titles /\ ~settled' /\ retitled' = {}
      /\ settled' \in BOOLEAN
  BY DEF DisableServiceRooms
<1>8. RoomsTypeOK'
  <2>1. loads' \in [Loaders -> Loading]
    BY <1>3, <1>4, <1>5
  <2>2. \A b \in Loaders : loads'[b].at = "upsert" => loads'[b].rest # <<>>
    BY <1>1, <1>4, <1>5 DEF RoomsTypeOK
  <2>3. /\ roomRow' \in [ServiceRooms -> Registration \cup {Missing}]
        /\ \A r \in ServiceRooms : roomRow'[r] # Missing => roomRow'[r].view = r
    BY <1>1, <1>6, <1>7 DEF RoomsTypeOK, DisabledExcept
  <2> QED
    BY <1>1, <1>7, <2>1, <2>2, <2>3 DEF RoomsTypeOK
<1>9. Decided(a)' = {}
  <2> SUFFICES ASSUME NEW r \in ServiceRooms, OpenRoom(r)', r \notin Listed(d.rooms) PROVE FALSE
    BY <1>4 DEF Decided
  <2>1. roomRow'[r] # Missing /\ roomRow'[r].enabled
    BY DEF OpenRoom
  <2> QED
    BY <1>6, <1>7, <2>1 DEF DisabledExcept
<1>10. ASSUME NEW b \in Loaders, Running(b)', loads'[b].alone
       PROVE  SoleLoad(b)'
  <2>1. b = a
    BY <1>5, <1>10 DEF Running
  <2>2. \A c \in Loaders \ {a} : ~Running(c)'
    BY <1>4, <1>5, <1>10, <2>1 DEF Running
  <2>3. loads'[a].at = "next"
    BY <1>4
  <2> QED
    BY <1>9, <2>1, <2>2, <2>3 DEF SoleLoad, Deciding
<1> QED
  BY <1>7, <1>8, <1>10 DEF RoomsInv, DeclaredNamesDiffer

(* What a running load does leaves the others as they are. *)
LEMMA OtherLoads ==
  ASSUME RoomsInv, NEW a \in Loaders, Running(a), UNCHANGED settled,
         \A b \in Loaders \ {a} : loads'[b] = loads[b],
         RoomsTypeOK', Running(a)' /\ loads'[a].alone => loads[a].alone /\ Deciding(a)'
  PROVE  RoomsInv'
<1>1. \A b \in Loaders \ {a} : Running(b)' = Running(b)
  BY DEF Running
<1>2. ~settled'
  BY DEF RoomsInv
<1>3. ASSUME NEW b \in Loaders, Running(b)', loads'[b].alone
      PROVE  SoleLoad(b)'
  <2>1. CASE b = a
    BY <1>1, <1>3, <2>1 DEF RoomsInv, SoleLoad
  <2>2. CASE b # a
    BY <1>1, <1>3, <2>2 DEF RoomsInv, SoleLoad
  <2> QED
    BY <2>1, <2>2
<1> QED
  BY <1>2, <1>3 DEF RoomsInv, DeclaredNamesDiffer

LEMMA CheckRegistrationKeeps ==
  ASSUME RoomsInv, NEW a \in Loaders, CheckRegistration(a)
  PROVE  RoomsInv'
<1> DEFINE g     == Head(loads[a].rest)
           opens == g.front \in loads[a].streets /\ g.enabled /\ ~Taken(a, g)
           claimed == loads[a].claimed \cup (IF opens THEN Claims(g) ELSE {})
           load  == [at |-> "upsert", streets |-> loads[a].streets, rest |-> loads[a].rest,
                     claimed |-> claimed, enabled |-> opens, alone |-> loads[a].alone]
<1>1. RoomsTypeOK /\ loads[a] \in Loading /\ loads[a].at = "next" /\ loads[a].rest # <<>>
      /\ Running(a)
  BY DEF RoomsInv, RoomsTypeOK, CheckRegistration, Running
<1>2. g \in Registration
  BY <1>1, ListParts DEF Loading
<1>3. opens \in BOOLEAN /\ (opens => g.front \in Fronts)
  BY <1>1, <1>2 DEF Loading, Registration
<1>4. claimed \in SUBSET (Fronts \X EnterNames)
  BY <1>1, <1>2, <1>3, NamesAreEntered DEF Loading, Claims
<1>5. /\ loads'[a] = load /\ (\A b \in Loaders \ {a} : loads'[b] = loads[b])
      /\ loads' = [loads EXCEPT ![a] = load] /\ UNCHANGED <<roomRow, titles, settled, retitled>>
  BY <1>1 DEF CheckRegistration, Proceeds, RoomsTypeOK
<1> HIDE DEF opens, claimed
<1>6. load \in Loading
  BY <1>1, <1>3, <1>4 DEF Loading
<1>7. RoomsTypeOK'
  BY <1>1, <1>5, <1>6 DEF RoomsTypeOK
<1>8. ASSUME loads[a].alone PROVE Deciding(a)'
  <2>1. Deciding(a)
    BY <1>1, <1>8 DEF RoomsInv, SoleLoad
  <2>2. Decided(a)' = Decided(a) /\ loads'[a].claimed = claimed
    BY <1>5 DEF Decided, OpenRoom
  <2>3. loads[a].claimed \subseteq claimed
    BY DEF claimed
  <2>4. ASSUME opens
        PROVE  /\ Claims(g) \subseteq claimed
               /\ ApartFromParcels(g)
               /\ \A r \in Decided(a) : Claims(g) \cap Claims(roomRow[r]) = {}
    BY <2>1, <2>4 DEF opens, claimed, Taken, TakenByParcel, TakenByRoom, ApartFromParcels, Deciding
  <2>5. \A h : ApartFromParcels(h)' = ApartFromParcels(h)
    BY <1>5 DEF ApartFromParcels, ParcelNames
  <2>6. loads'[a].enabled = opens /\ Head(loads'[a].rest) = g
    BY <1>5
  <2> QED
    BY <1>5, <2>1, <2>2, <2>3, <2>4, <2>5, <2>6 DEF Deciding
<1> QED
  BY <1>1, <1>5, <1>7, <1>8, OtherLoads

LEMMA UpsertKeeps ==
  ASSUME RoomsInv, NEW a \in Loaders, UpsertServiceRoom(a)
  PROVE  RoomsInv'
<1> DEFINE g    == Head(loads[a].rest)
           row  == [g EXCEPT !.enabled = loads[a].enabled]
           load == [at |-> "next", streets |-> loads[a].streets, rest |-> Tail(loads[a].rest),
                    claimed |-> loads[a].claimed, enabled |-> FALSE, alone |-> loads[a].alone]
<1>1. RoomsTypeOK /\ loads[a] \in Loading /\ loads[a].at = "upsert" /\ loads[a].rest # <<>>
      /\ Running(a)
  BY DEF RoomsInv, RoomsTypeOK, UpsertServiceRoom, Running
<1>2. /\ g \in Registration /\ Tail(loads[a].rest) \in Seq(Registration)
      /\ Listed(loads[a].rest) = {g.view} \cup Listed(Tail(loads[a].rest))
  BY <1>1, ListParts DEF Loading
<1>3. /\ row \in Registration /\ row.view = g.view /\ row.front = g.front
      /\ row.enabled = loads[a].enabled /\ Declared(row) = Declared(g) /\ Claims(row) = Claims(g)
  BY <1>1, <1>2, EnabledIsNoName DEF Loading
<1>4. /\ loads'[a] = load /\ (\A b \in Loaders \ {a} : loads'[b] = loads[b])
      /\ loads' = [loads EXCEPT ![a] = load] /\ UNCHANGED <<titles, settled, retitled>>
      /\ roomRow' = [roomRow EXCEPT ![g.view] = row]
  BY <1>1 DEF UpsertServiceRoom, Proceeds, RoomsTypeOK
<1> HIDE DEF g, row
<1>5. load \in Loading
  BY <1>1, <1>2 DEF Loading
<1>6. g.view \in ServiceRooms /\ row # Missing
  BY <1>2, <1>3, RoomsAssumption DEF Registration, RoomsAssumption
<1>7. /\ roomRow'[g.view] = row /\ (\A r \in ServiceRooms \ {g.view} : roomRow'[r] = roomRow[r])
      /\ roomRow' \in [ServiceRooms -> Registration \cup {Missing}]
  BY <1>1, <1>3, <1>4, <1>6 DEF RoomsTypeOK
<1>8. RoomsTypeOK'
  BY <1>1, <1>3, <1>4, <1>5, <1>7 DEF RoomsTypeOK
<1>9. ASSUME loads[a].alone PROVE Deciding(a)'
  <2>1. Deciding(a)
    BY <1>1, <1>9 DEF RoomsInv, SoleLoad
  <2>2. /\ loads'[a].claimed = loads[a].claimed /\ loads'[a].at = "next"
        /\ loads'[a].rest = Tail(loads[a].rest)
    BY <1>4
  <2>3. ASSUME NEW r \in Decided(a)', r # g.view
        PROVE  r \in Decided(a) /\ roomRow'[r] = roomRow[r]
    BY <1>2, <1>7, <2>2, <2>3 DEF Decided, OpenRoom
  <2>4. ASSUME g.view \in Decided(a)'
        PROVE  /\ Claims(row) \subseteq loads[a].claimed /\ ApartFromParcels(g)
               /\ \A r \in Decided(a) : Claims(row) \cap Claims(roomRow[r]) = {}
    <3>1. row.enabled
      BY <1>7, <2>4 DEF Decided, OpenRoom
    <3> QED
      BY <1>1, <1>3, <2>1, <3>1 DEF Deciding, g
  <2>5. \A h : ApartFromParcels(h)' = ApartFromParcels(h)
    BY <1>4 DEF ApartFromParcels, ParcelNames
  <2>6. ApartFromParcels(row) = ApartFromParcels(g)
    BY <1>3 DEF ApartFromParcels
  <2>7. \A r \in Decided(a)' : r \in ServiceRooms
    BY DEF Decided
  <2>8. \A r \in Decided(a)' : /\ Claims(roomRow'[r]) \subseteq loads'[a].claimed
                               /\ ApartFromParcels(roomRow'[r])
    BY <1>7, <2>1, <2>2, <2>3, <2>4, <2>6, <2>7 DEF Deciding
  <2>9. \A r, q \in Decided(a)' : r # q => Claims(roomRow'[r]) \cap Claims(roomRow'[q]) = {}
    BY <1>7, <2>1, <2>3, <2>4, <2>7 DEF Deciding
  <2> QED
    BY <2>2, <2>5, <2>8, <2>9 DEF Deciding
<1> QED
  BY <1>1, <1>4, <1>8, <1>9, OtherLoads

(* At the end of the list every open room is decided. *)
LEMMA LoadEndsKeeps ==
  ASSUME RoomsInv, NEW a \in Loaders, LoadEnds(a)
  PROVE  RoomsInv'
<1>1. RoomsTypeOK /\ loads[a] \in Loading /\ Running(a) /\ Loaded \in Loading
  BY NoLoadIsLoading DEF RoomsInv, RoomsTypeOK, LoadEnds, Running
<1>2. /\ loads'[a] = Loaded /\ (\A b \in Loaders \ {a} : loads'[b] = loads[b])
      /\ loads' = [loads EXCEPT ![a] = Loaded] /\ UNCHANGED <<roomRow, titles, retitled>>
      /\ settled' = loads[a].alone /\ loads[a].rest = <<>>
  BY <1>1 DEF LoadEnds, End, RoomsTypeOK
<1>3. RoomsTypeOK'
  BY <1>1, <1>2 DEF RoomsTypeOK, Loading, Loaded, Idle
<1>4. ~Running(a)' /\ (\A b \in Loaders \ {a} : Running(b)' = Running(b))
  BY <1>2 DEF Running, Loaded, Idle
<1>5. ASSUME NEW b \in Loaders, Running(b)'
      PROVE  ~settled' /\ ~loads'[b].alone
  <2>1. b # a /\ Running(b) /\ loads'[b].alone = loads[b].alone
    BY <1>2, <1>4, <1>5
  <2> QED
    BY <1>1, <1>2, <2>1 DEF RoomsInv, SoleLoad
<1>6. ASSUME settled' PROVE DeclaredNamesDiffer'
  <2>1. Deciding(a)
    BY <1>1, <1>2, <1>6 DEF RoomsInv, SoleLoad
  <2>2. Decided(a) = {r \in ServiceRooms : OpenRoom(r)}
    BY <1>2 DEF Decided, Listed
  <2>3. ASSUME NEW s \in Fronts, NEW n \in EnterNames, NEW r \in DeclaredAs(s, n)
        PROVE  r \in Decided(a) /\ roomRow[r].front = s /\ n \in Declared(roomRow[r])
               /\ <<s, n>> \in Claims(roomRow[r])
    BY <2>2, <2>3 DEF DeclaredAs, RoomsOf, Claims
  <2>4. ASSUME NEW s \in Fronts, NEW n \in EnterNames, NEW r \in DeclaredAs(s, n),
               NEW q \in DeclaredAs(s, n)
        PROVE  r = q
    BY <2>1, <2>3, <2>4 DEF Deciding
  <2>5. ASSUME NEW s \in Fronts, NEW n \in EnterNames, NEW p \in Lots \ retitled,
               FrontOf[p] = s, n \in ParcelNames(p), NEW r \in DeclaredAs(s, n)
        PROVE  FALSE
    BY <2>1, <2>3, <2>5 DEF Deciding, ApartFromParcels
  <2>6. DeclaredNamesDiffer
    BY <2>4, <2>5 DEF DeclaredNamesDiffer
  <2>7. \A s, n : DeclaredAs(s, n)' = DeclaredAs(s, n)
    BY <1>2 DEF DeclaredAs, RoomsOf, OpenRoom
  <2>8. \A p : ParcelNames(p)' = ParcelNames(p)
    BY <1>2 DEF ParcelNames
  <2> QED
    BY <1>2, <2>4, <2>5, <2>7, <2>8 DEF DeclaredNamesDiffer
<1>7. DeclaredNamesDiffer'
  BY <1>6 DEF DeclaredNamesDiffer
<1> QED
  BY <1>3, <1>5, <1>7 DEF RoomsInv

LEMMA LoadFailsKeeps ==
  ASSUME RoomsInv, NEW a \in Loaders, LoadFails(a)
  PROVE  RoomsInv'
<1>1. RoomsTypeOK /\ Loaded \in Loading /\ Running(a)
  BY NoLoadIsLoading DEF RoomsInv, LoadFails
<1>2. loads'[a] = Loaded /\ (\A b \in Loaders \ {a} : loads'[b] = loads[b])
      /\ UNCHANGED <<roomRow, titles, settled, retitled>> /\ loads' = [loads EXCEPT ![a] = Loaded]
  BY <1>1 DEF RoomsTypeOK, LoadFails, End
<1>3. RoomsTypeOK'
  BY <1>1, <1>2 DEF RoomsTypeOK, Loaded, Idle
<1>4. ~Running(a)'
  BY <1>2 DEF Running, Loaded, Idle
<1> QED
  BY <1>1, <1>2, <1>3, <1>4, OtherLoads

(* A load's steps and the owners' titles keep the invariant. *)
LEMMA LoadStepKeeps ==
  ASSUME RoomsInv, NEW a \in Loaders, LoadStep(a)
  PROVE  RoomsInv'
BY NoRegistrationsKeeps, DisableKeeps, CheckRegistrationKeeps, UpsertKeeps, LoadEndsKeeps, LoadFailsKeeps
   DEF LoadStep

LEMMA UpdateTitleKeeps ==
  ASSUME RoomsInv, NEW p \in Lots, NEW n \in EnterNames, UpdateTitle(p, n)
  PROVE  RoomsInv'
<1> USE DEF UpdateTitle
<1>1. RoomsTypeOK'
  BY DEF RoomsInv, RoomsTypeOK
<1>2. retitled' = retitled \cup {p} /\ (\A q \in Lots \ retitled' : ParcelNames(q)' = ParcelNames(q))
  BY DEF RoomsInv, RoomsTypeOK, ParcelNames
<1>3. \A g : ApartFromParcels(g) => ApartFromParcels(g)'
  BY <1>2 DEF ApartFromParcels
<1>4. \A a \in Loaders : Decided(a)' = Decided(a)
  BY DEF Decided, OpenRoom
<1>5. \A a \in Loaders : Deciding(a) => Deciding(a)'
  BY <1>3, <1>4 DEF Deciding
<1>6. DeclaredNamesDiffer'
  BY <1>2 DEF RoomsInv, DeclaredNamesDiffer, DeclaredAs, RoomsOf, OpenRoom
<1>7. \A a \in Loaders : Running(a)' = Running(a)
  BY DEF Running
<1>8. \A a \in Loaders : SoleLoad(a) => SoleLoad(a)'
  BY <1>5, <1>7 DEF SoleLoad
<1> QED
  BY <1>1, <1>6, <1>7, <1>8 DEF RoomsInv
---------------------------------------------------------------------------
(* The whole of the town. *)

(* Who takes part is who there is. *)
CastInv == cast \in Cast

TownInv == /\ CastInv /\ LandInv /\ OwnersInv /\ CacheInv /\ PoolInv /\ HungerInv
           /\ IdInv /\ IdTypes /\ ResInv /\ ResTypes /\ GridInv /\ RoomsInv

(* What a cast is made of. *)
LEMMA CastParts ==
  ASSUME CastInv
  PROVE  /\ cast.shells \subseteq Shells /\ cast.lines \subseteq Line
         /\ cast.grounds \subseteq Parcels
         /\ cast.looked \in SUBSET Views
         /\ cast.clients \subseteq MailClients /\ cast.sessions \subseteq SshSessions
         /\ cast.mouths \subseteq Mouths
         /\ cast.visitors \subseteq Visitors /\ cast.calls \in SUBSET IdentityCall
         /\ cast.watchers \cup cast.actors \subseteq Terminals
         /\ cast.steps \subseteq TaskCommands /\ cast.sights \subseteq Observation
         /\ cast.walkers \subseteq Walkers /\ cast.loaders \subseteq Loaders
BY DEF CastInv, Cast

(* Every part holds at first. *)
LEMMA TownInvInit == Init => TownInv
<1> SUFFICES ASSUME Init PROVE TownInv
  OBVIOUS
<1>1. CastInv
  BY CastsAssumption DEF Init, CastInv
<1>2. LandInit /\ PoolInit /\ HungerInit /\ IdentitiesInit /\ ResidentsInit /\ GridInit
      /\ RoomsInit /\ RoomCacheInit
  BY DEF Init
<1> QED
  BY <1>1, <1>2, LandInvInit, OwnersInit, CacheInvInit, PoolInvInit, HungerInvInit, IdInvInit,
     IdTypesInit, ResInvInit, ResTypesInit, GridInvInit, RoomsInvInit DEF TownInv

(* The steps of each part. *)
LEMMA ParcelledKeeps ==
  ASSUME TownInv, Parcelled
  PROVE  LandInv' /\ OwnersInv' /\ (awards' = awards \/ AwardStep)
<1>0. /\ LandInv /\ OwnersInv /\ cast.shells \subseteq Shells /\ cast.lines \subseteq Line
      /\ cast.grounds \subseteq Parcels
  BY CastParts DEF TownInv
<1>1. ASSUME NEW s \in cast.shells, NEW l \in cast.lines, Type(s, l)
      PROVE  LandInv' /\ OwnersInv' /\ awards' = awards
  BY <1>0, <1>1, TypingKeeps, OwnersType
<1>2. ASSUME NEW s \in cast.shells, LineStep(s) \/ InvalidateForParcel(s)
      PROVE  LandInv' /\ OwnersInv' /\ (awards' = awards \/ AwardStep)
  BY <1>0, <1>2, EffectsKeep, OwnersEffects DEF LineStep, InvalidateForParcel
<1>3. ASSUME NEW l \in Landlords, Walks(l)
      PROVE  LandInv' /\ OwnersInv' /\ awards' = awards
  <2>1. Agree(l) \/ (\E v \in Views : Walk(l, v))
    BY <1>0, <1>3 DEF Walks, Views
  <2> QED
    BY <1>0, <2>1, WalkingAboutKeeps, OwnersWalk
<1> QED
  BY <1>1, <1>2, <1>3 DEF Parcelled, Lines

(* What the caches show, while lines change the rows. *)
LEMMA ParcelledKeepsCaches ==
  ASSUME TownInv, Parcelled
  PROVE  CacheInv'
<1>0. /\ LineInv /\ RowsInv /\ CacheInv
      /\ cast.shells \subseteq Shells /\ cast.lines \subseteq Line
      /\ cast.grounds \subseteq Parcels
  BY CastParts DEF TownInv, OwnersInv
<1>1. ASSUME NEW s \in cast.shells, NEW l \in cast.lines, Type(s, l), UNCHANGED cacheVars
      PROVE  CacheInv'
  BY <1>0, <1>1, CacheTyped
<1>2. ASSUME NEW s \in cast.shells, LineStep(s) \/ InvalidateForParcel(s)
      PROVE  CacheInv'
  BY <1>0, <1>2, CacheLine, CacheInvalidate
<1>3. ASSUME NEW l \in Landlords, Walks(l), UNCHANGED cacheVars
      PROVE  CacheInv'
  <2>1. Agree(l) \/ (\E v \in Views : Walk(l, v))
    BY <1>0, <1>3 DEF Walks, Views
  <2>2. UNCHANGED <<land, line, todo>>
    BY <2>1 DEF Agree, Walk, tables, shells
  <2> QED
    BY <1>0, <1>3, <2>2, CacheUnchanged
<1> QED
  BY <1>1, <1>2, <1>3 DEF Parcelled, Lines

(* Lookups, and entries that grow old: the caches only read the rows. *)
LEMMA CachesKeep ==
  ASSUME TownInv, Caches
  PROVE  CacheInv' /\ UNCHANGED landVars
<1>1. RowsInv /\ CacheInv /\ cast.looked \in SUBSET Views
  BY CastParts DEF TownInv, OwnersInv
<1>2. CacheStep(cast.looked)
  BY DEF Caches
<1>3. CacheInv'
  BY <1>1, <1>2, CacheKeeps
<1>4. UNCHANGED landVars
  BY <1>2 DEF CacheStep, LookStep, Look, Get, ReadRows, Put, Expire, ClearRoomCache
<1> QED
  BY <1>3, <1>4

(* Logins and accounts. *)
LEMMA AccountsKeep ==
  ASSUME TownInv, Accounts
  PROVE  IdInv' /\ IdTypes'
BY CastParts, IdentityStepKeeps, IdTypesKeep DEF TownInv, Accounts

(* The gate of hunger. *)
LEMMA HungerGateKeeps ==
  ASSUME TownInv, HungerGate
  PROVE  HungerInv'
BY CastParts, MouthStepKeeps, DinerStepKeeps DEF TownInv, HungerGate

(* The loops of the residents. *)
LEMMA LoopsKeep ==
  ASSUME TownInv, Loops
  PROVE  ResInv' /\ ResTypes'
<1>0. /\ ResInv /\ ResTypes /\ cast.watchers \cup cast.actors \subseteq Terminals
      /\ cast.steps \subseteq TaskCommands /\ cast.sights \subseteq Observation
  BY CastParts DEF TownInv
<1>1. ASSUME NEW obs \in cast.sights, NEW t \in cast.watchers, BeginContext(t, obs)
      PROVE  ResInv' /\ ResTypes'
  BY <1>0, <1>1, BeginTurnKeeps, BeginTurnTyped
<1>2. ASSUME NEW obs \in cast.sights, NEW t \in cast.actors, NEW c \in cast.steps,
             BeginStep(t, obs, c)
      PROVE  ResInv' /\ ResTypes'
  BY <1>0, <1>2, BeginTurnKeeps, BeginTurnTyped
<1>3. ASSUME NEW t \in cast.watchers \cup cast.actors, TurnStep(t)
      PROVE  ResInv' /\ ResTypes'
  BY <1>0, <1>3, TurnStepKeeps, TurnStepTyped
<1>4. DayPasses \/ Upgrade => ResInv' /\ ResTypes'
  BY <1>0, DayPassesKeeps, UpgradeKeeps, DaysTyped
<1> QED
  BY <1>1, <1>2, <1>3, <1>4 DEF Loops

(* The pool of workers. *)
LEMMA WorkingKeeps ==
  ASSUME TownInv, Working
  PROVE  PoolInv'
<1>1. PoolInv /\ cast.clients \subseteq MailClients /\ cast.sessions \subseteq SshSessions
  BY CastParts DEF TownInv
<1>2. CASE \E m \in cast.clients : MailStep(m)
  BY <1>1, <1>2, MailStepKeeps
<1>3. CASE Tick \/ SetToken
  BY <1>1, <1>3, TickKeeps, SetTokenKeeps
<1>4. CASE Join
  BY <1>1, <1>4, JoinKeeps
<1>5. CASE \E c \in cast.sessions : WorkerStep(c, cast.orders)
  BY <1>1, <1>5, WorkerStepKeeps
<1> QED
  BY <1>2, <1>3, <1>4, <1>5 DEF Working

(* The ways of the town. *)
LEMMA WalkingKeeps ==
  ASSUME TownInv, Walking
  PROVE  GridInv'
BY CastParts, GridStepKeeps DEF TownInv, Walking

(* The loads of the rooms, and the titles of the parcels beside them. *)
LEMMA RegisteringKeeps ==
  ASSUME TownInv, Registering
  PROVE  RoomsInv'
BY CastParts, LoadStepKeeps, UpdateTitleKeeps DEF TownInv, Registering

(* Every step keeps every part. *)
LEMMA TownInvStep == TownInv /\ [Next]_vars => TownInv' /\ (awards' = awards \/ AwardStep)
<1> SUFFICES ASSUME TownInv, [Next]_vars
             PROVE  TownInv' /\ (awards' = awards \/ AwardStep)
  OBVIOUS
<1>0. UNCHANGED cast => CastInv'
  BY DEF TownInv, CastInv
<1>u. /\ UNCHANGED landVars    => LandInv' /\ OwnersInv' /\ awards' = awards
      /\ UNCHANGED poolVars     => PoolInv'
      /\ UNCHANGED hungerVars   => HungerInv'
      /\ UNCHANGED idVars       => IdInv' /\ IdTypes'
      /\ UNCHANGED residentVars => ResInv' /\ ResTypes'
      /\ UNCHANGED gridVars     => GridInv'
      /\ UNCHANGED roomVars     => RoomsInv'
  BY LandUnchanged, OwnersUnchanged, PoolUnchanged, HungerUnchanged, IdUnchanged,
     IdTypesUnchanged, ResUnchanged, ResTypesUnchanged, GridUnchanged, RoomsUnchanged DEF TownInv
<1>c. UNCHANGED townVars => CacheInv'
  BY CacheUnchanged DEF TownInv, townVars, landVars, tables, shells
<1>1. CASE UNCHANGED vars
  BY <1>0, <1>u, <1>c, <1>1 DEF vars, townVars, TownInv
<1>2. CASE Next
  <2>0. CastInv'
    BY <1>0, <1>2 DEF Next
  <2>1. CASE Parcelled
    BY <1>u, <2>0, <2>1, ParcelledKeeps, ParcelledKeepsCaches DEF Parcelled, TownInv
  <2>2. CASE Caches
    BY <1>u, <2>0, <2>2, CachesKeep DEF Caches, TownInv
  <2>3. CASE Accounts
    BY <1>u, <1>c, <2>0, <2>3, AccountsKeep DEF Accounts, townVars, TownInv
  <2>4. CASE HungerGate
    BY <1>u, <1>c, <2>0, <2>4, HungerGateKeeps DEF HungerGate, townVars, TownInv
  <2>5. CASE Loops
    BY <1>u, <1>c, <2>0, <2>5, LoopsKeep DEF Loops, townVars, TownInv
  <2>6. CASE Working
    BY <1>u, <1>c, <2>0, <2>6, WorkingKeeps DEF Working, townVars, TownInv
  <2>7. CASE Walking
    BY <1>u, <1>c, <2>0, <2>7, WalkingKeeps DEF Walking, townVars, TownInv
  <2>8. CASE Registering
    BY <1>u, <1>c, <2>0, <2>8, RegisteringKeeps DEF Registering, townVars, TownInv
  <2> QED
    BY <1>2, <2>1, <2>2, <2>3, <2>4, <2>5, <2>6, <2>7, <2>8 DEF Next
<1> QED
  BY <1>1, <1>2

(* So every part holds in every state. *)
LEMMA TownInvariant == Spec => []TownInv
<1> QED
  BY TownInvInit, TownInvStep, PTL DEF Spec

---------------------------------------------------------------------------
(* The theorems. *)

(* Every variable of the town has its type, in all its parts: among them   *)
(* the awards and the places of players, the rows the caches hold, the     *)
(* statements of logins and the bounds of hunger, pressures and searches.  *)
THEOREM TownTypes == Spec => []TypeOK
<1>1. GridInv => GridTypeOK
  <2>1. \A id : InTown(id) => id.kind \in {"origin", "road", "parcel"}
    BY RoadsRead, BuildingsRead DEF InTown, RoadView, BuildingView, Origin
  <2> QED
    BY <2>1 DEF GridInv, GridTypeOK
<1>2. TownInv => LandTypeOK /\ RoomCacheTypeOK
  BY OwnersImply, CacheImplies DEF TownInv
<1>3. TownInv => IdentitiesTypeOK /\ ResidentsTypeOK
  BY ResTyped DEF TownInv, IdTypes
<1>4. TownInv => HungerTypeOK /\ PoolTypeOK /\ RoomsTypeOK
  BY DEF TownInv, HungerInv, PoolInv, RoomsInv
<1>5. TownInv => TypeOK
  BY <1>1, <1>2, <1>3, <1>4 DEF TypeOK, TownInv
<1> QED
  BY TownInvariant, <1>5, PTL

(* Whatever transfers and rotations interleave, and wherever they are cut  *)
(* off, the mail token of a room is its owner's, but for a transfer        *)
(* between its two calls (dispatch/registry.rs).                           *)
THEOREM TokensOfOwners == Spec => []TokensAreOfTheOwner
<1>1. TownInv => TokensAreOfTheOwner
  BY TokenInvImplies DEF TownInv, LandInv
<1> QED
  BY TownInvariant, <1>1, PTL

(* A line that is worked on is of a player who has agreed to the           *)
(* conditions of the world, but for settings; once past its checks, of one *)
(* who stood at the parcel it names when it was read, but for claims,      *)
(* transfers, tokens and building, which are done from afar; and the list  *)
(* a post or a subscription writes to is of the room the player stood in,  *)
(* unless the line called that room by a title and it has been retitled    *)
(* since the guard looked for it, however the players walk meanwhile (the  *)
(* admission gate, ensure_inside, the two resolutions of a list).          *)
THEOREM ActsInside == Spec => []ActsOnlyInside
<1>1. TownInv => ActsOnlyInside
  BY OwnersImply DEF TownInv
<1> QED
  BY TownInvariant, <1>1, PTL

(* The limits of the desks, job guides and badges of a parcel are read     *)
(* before the row is inserted: connections that create boards              *)
(* together exceed a limit by no more than the connections there are       *)
(* beyond the first (PARCEL_*_PER_PARCEL_MAX).                             *)
THEOREM BoardsCapped == Spec => []BoardsNearTheirCaps
<1>1. TownInv => BoardsNearTheirCaps
  BY OwnersImply DEF TownInv
<1> QED
  BY TownInvariant, <1>1, PTL

(* An entry of the caches that shows a parcel as it no longer is has an     *)
(* excuse: the change's event is on its way or was lost with its call, or  *)
(* a lookup put back rows it had read before an event dropped the others   *)
(* (RoomDirectoryCache in protocol/ssh/src/lib.rs), for any parcels,       *)
(* lookups and lines.                                                      *)
THEOREM StaleIsExcused == Spec => []StaleOnlyIfRaced
<1>1. TownInv => StaleOnlyIfRaced
  BY CacheImplies DEF TownInv
<1> QED
  BY TownInvariant, <1>1, PTL

(* The rows of badge awards are history, and a recipient wears a badge     *)
(* once, however many connections award and revoke it together             *)
(* (storage_badges.rs).                                                    *)
THEOREM AwardsAreHistory == Spec => AwardsStand
<1>1. TownInv /\ [Next]_vars => [AwardStep]_awards
  BY TownInvStep
<1>2. [][AwardStep]_awards <=> AwardsStand
  BY PTL DEF AwardStep, AwardsStand
<1> QED
  BY TownInvariant, <1>1, <1>2, PTL DEF Spec

(* An idling worker that the pool counted is counted as long as it idles:  *)
(* the stamp of its token never ages past the window (MAIL_CLIENT_WINDOW   *)
(* in storage/src/work_pool.rs), for all clients, rotations and periods    *)
(* with Poll + Throttle <= Window.                                         *)
THEOREM IdlersStay == Spec => []IdlersStayPooled
<1>1. TownInv => IdlersStayPooled
  BY PoolInvImplies DEF TownInv
<1> QED
  BY TownInvariant, <1>1, PTL

(* Work done in hunger without money is paced by the cooldown of the       *)
(* allowance (app/src/hunger.rs), however many connections of a player     *)
(* pass the gate together.                                                 *)
THEOREM HungryWorkPaced == Spec => []HungryWorkIsPaced
<1>1. TownInv => HungryWorkIsPaced
  BY DEF TownInv, HungerInv
<1> QED
  BY TownInvariant, <1>1, PTL

(* A name is one player: keys, passwords and mail tokens of a name are of  *)
(* the player its account names (ensure_user_account), whatever logins     *)
(* interleave.                                                             *)
THEOREM NamesOnePlayer == Spec => []NamesAreOnePlayer
<1>1. TownInv => NamesAreOnePlayer
  BY DEF TownInv, IdInv
<1> QED
  BY TownInvariant, <1>1, PTL

(* A resident's progress is no more than the last day whose report counted *)
(* (app/src/resident_loop.rs), though connections overwrite each other's   *)
(* states with stale ones.                                                 *)
THEOREM ProgressIsOfDays == Spec => []ProgressCountsDays
<1>1. TownInv => ProgressCountsDays
  BY ResInvImplies DEF TownInv
<1> QED
  BY TownInvariant, <1>1, PTL

(* Every step through the generated town can be taken back, for i32::MAX   *)
(* as for the instance's coordinates (core/src/grid_map.rs).               *)
THEOREM StepsTakenBack == Spec => []WaysBack
<1>1. TownInv => WaysBack
  BY GridInvImplies DEF TownInv
<1> QED
  BY TownInvariant, <1>1, PTL

(* When a load of the service rooms has gone to its end with none beside   *)
(* it, no declared name of a street is one of two open rooms, nor one of a *)
(* parcel not retitled since (app/src/registration.rs), for any            *)
(* directories and whatever failed or interleaved loads left before.       *)
THEOREM NamesDiffer == Spec => []DeclaredNamesDiffer
<1>1. TownInv => DeclaredNamesDiffer
  BY DEF TownInv, RoomsInv
<1> QED
  BY TownInvariant, <1>1, PTL
=============================================================================
