------------------------------- MODULE MCTown -------------------------------
(* Instances of Town for TLC. *)
EXTENDS Town, TLC

CONSTANTS ann, bob, lot, yard, villa, t1, t2, here, b1, b2, b3, al, upAl, k1, k2, withK1, withK2, withPassword, v1, v2, m1, m2,
          r1, r2, lane, friend, w1,
          i1, i2, c1, c2, street, alley, hall, shop, hut, bell, fair, first, second

(* al and upAl are one name in two cases: ids fold it. *)
MCKeyPlayer == [u \in Users, k \in Keys |-> IF k = k1 THEN withK1 ELSE withK2]
MCPasswordPlayer == [u \in Users |-> withPassword]
MCResidentOf == [t \in Terminals |-> ann]
MCDinerOf == [m \in Mouths |-> ann]

Says(by, command, target, slug) ==
    [by |-> by, command |-> command, parcel |-> lot, target |-> target, slug |-> slug,
     named |-> villa]
P(family, op) == <<"parcel", family, op>>

NoOne == [shells |-> {}, lines |-> {}, grounds |-> {lot}, estate |-> {}, looked |-> {},
            visitors |-> {}, calls |-> {}, mouths |-> {},
          watchers |-> {}, actors |-> {}, sights |-> {}, steps |-> {}, days |-> 1, upgrades |-> FALSE,
          sessions |-> {}, clients |-> {}, until |-> 0, orders |-> {}, walkers |-> {}, plates |-> {},
          loaders |-> {}]
Settlers(lines) == [NoOne EXCEPT !.shells = Shells, !.lines = lines]
Owners(lines)   == [Settlers(lines) EXCEPT !.estate = {villa}]

Owning == {Says(l, <<"parcel", op>>, t, b1) :
              l \in Landlords, t \in Landlords, op \in {"claim", "transfer", "token"}}
Awarding == {Says(l, P("badge", op), bob, b1) : l \in Landlords, op \in {"create", "award", "revoke"}}
Boarding == {Says(ann, P(f[1], f[2]), ann, b) :
               f \in {<<"desk", "create">>, <<"job", "publish">>}, b \in Boards}
Building == {Says(ann, <<"parcel", "claim">>, ann, b1), Says(ann, P("build", "set"), ann, b1)}
Publishing == Building \cup {Says(ann, P("build", op), ann, b1) : op \in {"apply", "publish"}}
Elsewise   == {Says(ann, command, ann, b1) :
                 command \in {c \in SemanticCommand : Script(c, FALSE) # <<>>}
                               \ Under("parcel", Under("build", One(BuildAction)))}

Offer(u, k) == [op |-> "key", user |-> u, player |-> MCKeyPlayer[u, k], key |-> k]
Ask(op, u, p) == [op |-> op, user |-> u, player |-> p, key |-> Nobody]
LogIns == {Offer(al, k1), Offer(al, k2), Offer(upAl, k1), Ask("password", al, withPassword)}
            \cup {Ask(op, al, p) : op \in {"token", "rename"}, p \in People}

(* Two rooms that may take each other's title, each with a list of the same *)
(* name; a member posts to the one called so.                              *)
Titling  == {[Says(ann, P("build", "set"), ann, b1) EXCEPT !.named = lot],
             Says(bob, P("build", "set"), bob, b1)}
Listing  == {[Says(ann, P("mailingList", "create"), ann, b1) EXCEPT !.parcel = lot],
             [Says(bob, P("mailingList", "create"), bob, b1) EXCEPT !.parcel = yard]}
Posting  == {[Says(ann, <<"parcel", "chat">>, ann, b1) EXCEPT !.named = n] :
                n \in {villa, lot}}
ListCast == [Owners(Titling \cup Listing \cup Posting) EXCEPT
               !.grounds = {lot, yard}, !.estate = {villa, lot}]

LandCasts == {ListCast,
              Owners(Owning),
              Owners(Awarding \cup {Says(ann, <<"parcel", "transfer">>, bob, b1)}),
              Owners(Boarding),
              [Settlers(Elsewise) EXCEPT !.shells = {t1}],
              [Settlers(Publishing) EXCEPT !.shells = {t1}]}
CacheCast(views) == [Settlers(Building) EXCEPT !.shells = {t1}, !.looked = views]
LogInCast == [NoOne EXCEPT !.visitors = Visitors, !.calls = LogIns]
DinerCast == [NoOne EXCEPT !.mouths = Mouths]

Alone     == [scene |-> lane, users |-> {}]
LoopCast  == [NoOne EXCEPT !.sights = {Alone}, !.steps = {Bare("look"), ReportCommand},
                           !.days = 3]
BothAct   == [LoopCast EXCEPT !.actors = Terminals]
OneActs   == [LoopCast EXCEPT !.actors = {r1}, !.watchers = {r2}]
MetCast   == [NoOne EXCEPT !.actors = {r1}, !.watchers = {r1}, !.sights = Observation,
                           !.steps = TaskCommands, !.days = 2, !.upgrades = TRUE]

(* The clients of a worker at the mail sidecar, and at the gate. *)
Orders   == Under("parcel", {<<"work", "claim">>, <<"shift", "end">>})
PoolCast == [NoOne EXCEPT !.clients = MailClients, !.until = MaxClock]
GateCast == [NoOne EXCEPT !.clients = {i1}, !.sessions = SshSessions, !.orders = Orders,
                           !.until = Start + 2]

(* Any way of writing the doors at one and minus one, and some that are none. *)
Typed == {plate \in Plates : plate.x.n \in {0, 1} /\ plate.y.n \in {0, 1}
                               /\ plate.door \in {0, 1, 3}}
WalkCast  == [NoOne EXCEPT !.walkers = Walkers, !.plates = Typed]

(* Directories with the hall alone; the shop under the hall's old name,    *)
(* before the hall; both under names they share; a street that is not      *)
(* there; no rooms.ron.                                                    *)
MCFrontOf == [p \in Lots |-> street]
Reg(v, front, address, aliases) ==
    [view |-> v, front |-> front, address |-> address, label |-> Missing, aliases |-> aliases,
     enabled |-> TRUE]
World(rooms) == [streets |-> {street}, rooms |-> rooms]
MCDirectories ==
    {World(<<Reg(hall, street, bell, {})>>),
     World(<<Reg(shop, street, bell, {}), Reg(hall, street, fair, {})>>),
     World(<<Reg(hall, street, bell, {fair}), Reg(shop, street, fair, {})>>),
     World(<<Reg(hall, alley, bell, {}), Reg(shop, street, bell, {hut})>>),
     World(Missing)}
LoadCast == [NoOne EXCEPT !.loaders = Loaders]

(* A room without an address beside one that has the first one's id. *)
UnnamedDirectories == {World(<<Reg(hall, street, Missing, {}), Reg(shop, street, hall, {})>>)}
LoadCasts == {LoadCast}

MCCasts == LandCasts \cup {CacheCast({lot}), CacheCast({Street}), LogInCast, DinerCast,
                           BothAct, OneActs, MetCast, PoolCast, GateCast, WalkCast,
                           LoadCast}
=============================================================================
