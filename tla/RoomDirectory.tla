--------------------------- MODULE RoomDirectory ---------------------------
(***************************************************************************)
(* Which names lead into which room of a street (crates/app registration   *)
(* and rooms, crates/storage storage_rooms).  The service rooms of         *)
(* rooms.ron are registered at each start and reload, one statement after  *)
(* another, with no transaction around them; requests of the admin socket  *)
(* are served side by side.  Meanwhile owners give their parcels titles,   *)
(* which lead into them, too.                                              *)
(*                                                                         *)
(* Names are folded: two that differ in case or blanks are one here.       *)
(***************************************************************************)
EXTENDS Sequences, FiniteSets

CONSTANTS
    Fronts,         \* front views
    EnterNames,     \* what is typed after /enter
    ServiceRooms,   \* view ids of service rooms
    Lots,           \* parcel ids
    FrontOf,        \* the street of a parcel
    Directories,    \* versions of the world directory, see RoomsAssumption
    Loaders,        \* loads of the registrations: at a start, or by a request
    Missing

Registration == [view : ServiceRooms, front : Fronts \cup {Missing},
                 address : EnterNames \cup {Missing}, label : EnterNames \cup {Missing},
                 aliases : SUBSET EnterNames, enabled : BOOLEAN]

(* The ids of rooms and parcels are names, too.  A directory may have no   *)
(* rooms.ron; its entries may name streets it has not.                     *)
ASSUME RoomsAssumption ==
    /\ ServiceRooms \cup Lots \subseteq EnterNames /\ FrontOf \in [Lots -> Fronts]
    /\ Missing \notin EnterNames \cup Fronts \cup Seq(Registration) \cup Registration
    /\ \A d \in Directories : /\ d.streets \subseteq Fronts
                              /\ d.rooms = Missing \/ d.rooms \in Seq(Registration)

VARIABLES
    roomRow,    \* rows of service_rooms, Missing without one
    titles,     \* parcels.title, Missing before it is given
    loads,      \* what a load does next and what it holds
    settled,    \* (history) the last load went to its end with no other beside it
    retitled    \* (history) parcels named since the last load began

Loading == [at : {"todo", "next", "upsert", "done"}, streets : SUBSET Fronts,
            rest : Seq(Registration), claimed : SUBSET (Fronts \X EnterNames),
            enabled : BOOLEAN, alone : BOOLEAN]

roomVars == <<roomRow, titles, loads, settled, retitled>>

Idle(step) == [at |-> step, streets |-> {}, rest |-> <<>>, claimed |-> {}, enabled |-> FALSE,
               alone |-> TRUE]
NoLoad == Idle("todo")
Loaded == Idle("done")

RoomsInit == /\ roomRow = [r \in ServiceRooms |-> Missing]
             /\ titles = [p \in Lots |-> Missing]
             /\ loads = [a \in Loaders |-> NoLoad]
             /\ settled = FALSE /\ retitled = {}

(* What a registration declares: what is not written is no name.  When the *)
(* room is listed its id stands for an address or a label that is missing. *)
Declared(g)     == ({g.address, g.label} \cup g.aliases) \ {Missing}
Or(name, id)    == IF name = Missing THEN id ELSE name
EnterMatches(g) == {Or(g.address, g.view), Or(g.label, g.view)} \cup g.aliases
ParcelNames(p)  == {p, titles[p]} \ {Missing}

-----------------------------------------------------------------------------
Running(a) == loads[a].at \notin {"todo", "done"}

End(a) == loads' = [loads EXCEPT ![a] = Loaded]

Proceeds(a, step, rest, claimed, enabled) ==
    loads' = [loads EXCEPT ![a] =
        [at |-> step, streets |-> loads[a].streets, rest |-> rest, claimed |-> claimed,
         enabled |-> enabled, alone |-> loads[a].alone]]

(* Without a rooms.ron the rows stay as they are. *)
NoRegistrations(a) ==
    /\ loads[a].at = "todo"
    /\ \E d \in Directories : d.rooms = Missing
    /\ End(a)
    /\ UNCHANGED <<roomRow, titles, settled, retitled>>

(* disable_service_rooms_except: rows the new list does not name are       *)
(* disabled, the others stay as they were until their registration comes.  *)
DisabledExcept(views) ==
    [r \in ServiceRooms |-> IF roomRow[r] = Missing \/ r \in views
                              THEN roomRow[r]
                              ELSE [roomRow[r] EXCEPT !.enabled = FALSE]]

Listed(registrations) == {registrations[i].view : i \in DOMAIN registrations}

DisableServiceRooms(a, d) ==
    LET alone == \A b \in Loaders : ~Running(b)
    IN  /\ loads[a].at = "todo" /\ d.rooms # Missing
        /\ roomRow' = DisabledExcept(Listed(d.rooms))
        /\ loads' = [b \in Loaders |->
              IF b = a THEN [at |-> "next", streets |-> d.streets, rest |-> d.rooms,
                             claimed |-> {}, enabled |-> FALSE, alone |-> alone]
              ELSE IF Running(b) THEN [loads[b] EXCEPT !.alone = FALSE] ELSE loads[b]]
        /\ settled' = FALSE /\ retitled' = {}
        /\ UNCHANGED titles

(* service_room_registration_enabled reads the parcels of the front and    *)
(* looks through the names this load has claimed for rooms before.         *)
Claims(g) == {<<g.front, n>> : n \in Declared(g)}
TakenByParcel(a, g) ==
    \E p \in Lots : FrontOf[p] = g.front /\ Declared(g) \cap ParcelNames(p) # {}
TakenByRoom(a, g) == Claims(g) \cap loads[a].claimed # {}
Taken(a, g) == TakenByParcel(a, g) \/ TakenByRoom(a, g)

CheckRegistration(a) ==
    LET g == Head(loads[a].rest)
        opens == g.front \in loads[a].streets /\ g.enabled /\ ~Taken(a, g)
    IN  /\ loads[a].at = "next" /\ loads[a].rest # <<>>
        /\ Proceeds(a, "upsert", loads[a].rest,
                    loads[a].claimed \cup (IF opens THEN Claims(g) ELSE {}), opens)
        /\ UNCHANGED <<roomRow, titles, settled, retitled>>

UpsertServiceRoom(a) ==
    LET g == Head(loads[a].rest)
    IN  /\ loads[a].at = "upsert"
        /\ roomRow' = [roomRow EXCEPT ![g.view] = [g EXCEPT !.enabled = loads[a].enabled]]
        /\ Proceeds(a, "next", Tail(loads[a].rest), loads[a].claimed, FALSE)
        /\ UNCHANGED <<titles, settled, retitled>>

LoadEnds(a) == /\ loads[a].at = "next" /\ loads[a].rest = <<>>
               /\ End(a)
               /\ settled' = loads[a].alone
               /\ UNCHANGED <<roomRow, titles, retitled>>

(* A statement fails or the server stops: the rows written so far stay. *)
LoadFails(a) == /\ Running(a)
                /\ End(a)
                /\ UNCHANGED <<roomRow, titles, settled, retitled>>

LoadStep(a) == \/ NoRegistrations(a)
               \/ \E d \in Directories : DisableServiceRooms(a, d)
               \/ CheckRegistration(a) \/ UpsertServiceRoom(a)
               \/ LoadEnds(a) \/ LoadFails(a)

(* The owner's build title, which no registration is asked about. *)
UpdateTitle(p, n) == /\ n # titles[p]
                     /\ titles' = [titles EXCEPT ![p] = n]
                     /\ retitled' = retitled \cup {p}
                     /\ UNCHANGED <<roomRow, loads, settled>>

-----------------------------------------------------------------------------
(* room_bindings_by_front_view and visible_room_enter_events: the enabled  *)
(* rooms and the parcels of a street that a name matches; the first of     *)
(* them in the order of their addresses is entered.                        *)
OpenRoom(r)   == roomRow[r] # Missing /\ roomRow[r].enabled /\ roomRow[r].front # Missing
RoomsOf(s)    == {r \in ServiceRooms : OpenRoom(r) /\ roomRow[r].front = s}
RoomsNamed(s, n) == {r \in RoomsOf(s) : n \in EnterMatches(roomRow[r])}
DeclaredAs(s, n) == {r \in RoomsOf(s) : n \in Declared(roomRow[r])}

RoomsTypeOK ==
    /\ roomRow \in [ServiceRooms -> Registration \cup {Missing}]
    /\ \A r \in ServiceRooms : roomRow[r] # Missing => roomRow[r].view = r
    /\ titles \in [Lots -> EnterNames \cup {Missing}]
    /\ loads \in [Loaders -> Loading]
    /\ \A a \in Loaders : loads[a].at = "upsert" => loads[a].rest # <<>>
    /\ settled \in BOOLEAN /\ retitled \subseteq Lots

(* When a load has gone to its end alone, no name that the rooms of a      *)
(* street declare is one of two rooms, in whatever state an earlier load   *)
(* that failed or one beside another had left the table; nor is it one of  *)
(* a parcel beside them that has had its title since.                      *)
DeclaredNamesDiffer ==
    settled => \A s \in Fronts, n \in EnterNames :
        /\ \A r, q \in DeclaredAs(s, n) : r = q
        /\ \A p \in Lots \ retitled : FrontOf[p] = s /\ n \in ParcelNames(p) => DeclaredAs(s, n) = {}

(* The test load_service_room_registrations_disables_same_front_view_      *)
(* conflicts: a name leads into one room of a street.                      *)
NamesLeadToOneRoom ==
    settled => \A s \in Fronts, n \in EnterNames : \A r, q \in RoomsNamed(s, n) : r = q
=============================================================================
