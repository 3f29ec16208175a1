-------------------------------- MODULE Land --------------------------------
(***************************************************************************)
(* The parcels and the boards their owners keep: claim, transfer, the      *)
(* room's mail token, the build sheet (storage/src/storage_ext.rs,         *)
(* identities.rs), mailing lists, desks, job guides and badges             *)
(* (storage_mailing_lists.rs, storage_badges.rs).  A line typed by a       *)
(* player runs the steps Console gives it, each a statement that commits   *)
(* by itself; what it read of the player and the view is as old as the     *)
(* line.  Most commands name their parcel by its id, which never changes;  *)
(* a post or a subscription may name it by the title, and looks for it     *)
(* twice.                                                                  *)
(***************************************************************************)
EXTENDS Console, Naturals, FiniteSets

CONSTANTS
    Parcels,        \* grid parcels
    Landlords,      \* players
    Shells,         \* SSH connections; a player may have several
    Titles,         \* titles of rooms; the id of a parcel may be one as well
    Boards,         \* slugs of lists, desks, guides and badges
    BoardMax,       \* PARCEL_*_PER_PARCEL_MAX
    MaxEdits,       \* bound on the edits of a parcel's title
    MaxAwards,      \* bound on the rows of parcel_badge_awards
    Absent

Street == "street"      \* the view all the parcels front

ASSUME LandAssumption ==
    /\ Absent \notin Landlords \cup Parcels \cup Titles /\ Street \notin Parcels
    /\ {BoardMax, MaxEdits} \subseteq Nat \ {0} /\ MaxAwards \in Nat
    /\ IsFiniteSet(Shells)

BoardKinds == {"list", "desk", "guide", "badge"}
Views      == Parcels \cup {Street}
Names      == Parcels \cup Titles      \* texts, upper and lower case alike

(* A line: who types it, the command and what it names; named is a title,  *)
(* or the room a list is looked for in.                                    *)
Line == [by : Landlords, command : SemanticCommand, parcel : Parcels,
         target : Landlords, slug : Boards, named : Names]

Plot  == [owner : Landlords \cup {Absent}, status : {"vacant", "claimed", "built"},
          title : Names \cup {Absent}, text : BOOLEAN, edits : 0..MaxEdits]
Board == [kind : BoardKinds, parcel : Parcels, slug : Boards]
Award == [parcel : Parcels, slug : Boards, to : Landlords, active : BOOLEAN]

VARIABLES
    land,       \* parcels, and how often each was retitled
    roomToken,  \* mail_auth_tokens of the rooms: for whom it was made
    boards,     \* rows of parcel_mailing_lists, _work_desks, _job_guides, _badges
    awards,     \* rows of parcel_badge_awards, by id
    place,      \* each player's current_view in the runtime
    agreed,     \* players admitted
    line,       \* per connection: its line, and current_view when it began
    todo,       \* and the steps left of it
    seen,       \* and what was read for the first of them
    cutOff      \* parcels whose transfer ended before its second call

tables   == <<land, roomToken, boards, awards>>
shells   == <<line, todo, seen, cutOff>>
landVars == <<tables, place, agreed, shells>>

NoLine == [by |-> Absent, command |-> <<"help">>, parcel |-> Absent,
           target |-> Absent, slug |-> Absent, named |-> Absent, view |-> Street]
Vacant       == [owner |-> Absent, status |-> "vacant", title |-> Absent, text |-> FALSE,
                 edits |-> 0]
Estate(l, n) == [owner |-> l, status |-> "built", title |-> n, text |-> TRUE, edits |-> 0]

(* Parcels are free, or have been claimed and built. *)
LandInit ==
    /\ land \in [Parcels -> {Vacant} \cup {Estate(l, n) : l \in Landlords, n \in Names}]
    /\ roomToken = [p \in Parcels |-> land[p].owner]
    /\ boards = {} /\ awards = <<>>
    /\ agreed \in SUBSET Landlords
    /\ place \in [Landlords -> Views]
    /\ \A l \in Landlords \ agreed : place[l] = Street
    /\ line = [s \in Shells |-> NoLine] /\ todo = [s \in Shells |-> <<>>]
    /\ seen = [s \in Shells |-> <<>>] /\ cutOff = {}

AtStep(s, label)       == todo[s] # <<>> /\ Head(todo[s]) = label
AtStatement(s, label, what) == AtStep(s, label) /\ seen[s] = what

Busy(s, steps) == /\ todo' = [todo EXCEPT ![s] = steps]
                  /\ line' = IF steps = <<>> THEN [line EXCEPT ![s] = NoLine] ELSE line
                  /\ seen' = [seen EXCEPT ![s] = <<>>]

Step(s)       == Busy(s, Tail(todo[s]))
EndLine(s)    == Busy(s, <<>>)
Read(s, what) == seen' = [seen EXCEPT ![s] = what] /\ UNCHANGED <<todo, line>>

(* A read that goes on when the row is there, and is refused otherwise. *)
ReadIf(s, found, what) == IF found THEN Read(s, what) ELSE EndLine(s)
Untouched == UNCHANGED <<tables, place, agreed, cutOff>>

-----------------------------------------------------------------------------
(* The line. *)
Walk(l, view) == /\ place' = [place EXCEPT ![l] = view]
                 /\ UNCHANGED <<tables, agreed, shells>>

Agree(l) == /\ agreed' = agreed \cup {l}
            /\ UNCHANGED <<tables, place, shells>>

(* The player is read, then the gate decides; a command with nothing to    *)
(* write changes nothing.                                                  *)
Type(s, l) ==
    /\ todo[s] = <<>>
    /\ PendingAdmission(l.command, l.by \in agreed, FALSE) # "block"
    /\ Script(l.command, FALSE) # <<>>
    /\ todo' = [todo EXCEPT ![s] = Script(l.command, FALSE)]
    /\ line' = [line EXCEPT ![s] =
                  [f \in DOMAIN NoLine |-> IF f = "view" THEN place[l.by] ELSE l[f]]]
    /\ UNCHANGED <<tables, place, agreed, seen, cutOff>>

(* ensure_inside_parcel. *)
EnsureInside(s) == /\ AtStep(s, "inside")
                   /\ IF line[s].parcel = line[s].view THEN Step(s) ELSE EndLine(s)
                   /\ UNCHANGED <<tables, place, agreed, cutOff>>

(* resolve_parcel_mailing_list: the list of that slug in the built parcel  *)
(* whose id or title the line names, if there is one only.                 *)
Bears(p, name) == name \in {p, land[p].title}
Resolved(s) == {p \in Parcels : /\ Bears(p, line[s].named) /\ land[p].status = "built"
                                /\ [kind |-> "list", parcel |-> p,
                                    slug |-> line[s].slug] \in boards}

(* ensure_inside_parcel_mailing_list_target, which forgets the list that   *)
(* it found; how often the room had been retitled is remembered here.      *)
EnsureInsideList(s) ==
    /\ AtStatement(s, "onList", <<>>)
    /\ ReadIf(s, Resolved(s) = {line[s].view}, <<"inside", land[line[s].view].edits>>)
    /\ Untouched

(* The operation looks for the list anew, and its other statements, which  *)
(* may refuse, are of the list it finds.                                   *)
OnList(s) ==
    /\ AtStep(s, "onList") /\ seen[s] # <<>>
    /\ \/ /\ seen[s][1] = "inside"
          /\ IF \E p \in Parcels : Resolved(s) = {p}
               THEN \E p \in Resolved(s) : Read(s, <<"list", seen[s][2], p>>)
               ELSE EndLine(s)
       \/ /\ seen[s][1] = "list"
          /\ Step(s) \/ EndLine(s)
    /\ Untouched

(* A statement of another module, or an event: it may be refused. *)
Elsewhere(s) == /\ \E label \in {"store", "live", "item"} : AtStep(s, label)
                /\ Step(s) \/ EndLine(s)
                /\ UNCHANGED <<tables, place, agreed, cutOff>>

(* The connection goes, or the server stops. *)
Transferring(s) == line[s].command = <<"parcel", "transfer">>

HangUp(s) ==
    /\ todo[s] # <<>>
    /\ EndLine(s)
    /\ cutOff' = IF AtStep(s, "roomToken") /\ Transferring(s)
                   THEN cutOff \cup {line[s].parcel} ELSE cutOff
    /\ UNCHANGED <<tables, place, agreed>>

-----------------------------------------------------------------------------
(* Ownership: an update of parcels where ...; no row, no more steps. *)
Update(s, p, guard, row) ==
    /\ IF guard THEN land' = [land EXCEPT ![p] = row] /\ Step(s)
                ELSE UNCHANGED land /\ EndLine(s)
    /\ UNCHANGED <<roomToken, boards, awards, place, agreed, cutOff>>

ClaimParcelAnyStatus(s) ==      \* a mutant: the status is not set
    LET p == line[s].parcel
    IN  /\ AtStep(s, "claim")
        /\ Update(s, p, land[p].owner = Absent, [land[p] EXCEPT !.owner = line[s].by])

ClaimParcel(s) ==
    LET p == line[s].parcel
    IN  /\ AtStep(s, "claim")
        /\ Update(s, p, land[p].owner = Absent,
                  [land[p] EXCEPT !.owner = line[s].by, !.status = "claimed"])

TransferParcel(s) ==
    LET p == line[s].parcel
    IN  /\ AtStep(s, "transfer")
        /\ Update(s, p, land[p].owner = line[s].by,
                  [land[p] EXCEPT !.owner = line[s].target])

(* One transaction, guarded by the owner: the new one after a transfer. *)
TokenFor(s) == IF Transferring(s) THEN line[s].target ELSE line[s].by
TokenForAnyone(p, l) == TRUE    \* a mutant: no owner in the where
MayHoldToken(p, l) == land[p].owner = l

SetRoomMailAuthToken(s) ==
    LET p == line[s].parcel
    IN  /\ AtStep(s, "roomToken")
        /\ IF MayHoldToken(p, TokenFor(s))
             THEN /\ roomToken' = [roomToken EXCEPT ![p] = TokenFor(s)]
                  /\ cutOff' = cutOff \ {p}
                  /\ Step(s)
             ELSE UNCHANGED <<roomToken, cutOff>> /\ EndLine(s)
        /\ UNCHANGED <<land, boards, awards, place, agreed>>

(* The build sheet of the parcel the player stands in, if it is one. *)
Sheet  == {"title", "description", "commands", "field"}
InPlot(s) == line[s].view # Street

BuildNowhere(s) == /\ \E label \in Sheet \cup {"publish"} : AtStep(s, label)
                   /\ ~InPlot(s) /\ EndLine(s)
                   /\ UNCHANGED <<tables, place, agreed, cutOff>>

UpdateBuild(s, guard, row) ==
    Update(s, line[s].view, land[line[s].view].owner = line[s].by /\ guard, row)

UpdateBuildField(s) ==
    /\ InPlot(s)
    /\ LET plot == land[line[s].view]
       IN  \/ /\ AtStep(s, "title") \/ AtStep(s, "field")
              /\ plot.edits < MaxEdits
              /\ UpdateBuild(s, TRUE, [plot EXCEPT !.title = line[s].named, !.edits = @ + 1])
           \/ /\ AtStep(s, "description") \/ AtStep(s, "field")
              /\ UpdateBuild(s, TRUE, [plot EXCEPT !.text = TRUE])
           \/ /\ AtStep(s, "commands") \/ AtStep(s, "field")
              /\ UpdateBuild(s, TRUE, plot)
           \/ /\ AtStep(s, "title") \/ AtStep(s, "description")  \* not in the sheet
              /\ Step(s) /\ UNCHANGED <<tables, place, agreed, cutOff>>

PublishBuild(s) ==
    /\ AtStep(s, "publish") /\ InPlot(s)
    /\ LET plot == land[line[s].view]
       IN  UpdateBuild(s, plot.title # Absent /\ plot.text, [plot EXCEPT !.status = "built"])

(* The event the connection gets when every call returned. *)
Invalidate(s) == /\ AtStep(s, "invalidate")
                 /\ Step(s)
                 /\ UNCHANGED <<tables, place, agreed, cutOff>>

-----------------------------------------------------------------------------
(* Lists, desks, job guides and badges: four statements, the slug and the  *)
(* count read before the insert.  A list or a desk is new; the others may  *)
(* be replaced.                                                            *)
AlwaysNew == {"list", "desk"}

OwnedBuilt(s) == LET p == line[s].parcel
                 IN  land[p].owner = line[s].by /\ land[p].status = "built"

BoardOf(s, kind)  == [kind |-> kind, parcel |-> line[s].parcel, slug |-> line[s].slug]
BoardsOf(kind, p) == {b \in boards : b.kind = kind /\ b.parcel = p}

HasRoomUpTo(s, kind) ==         \* a mutant: <= for <
    Cardinality(BoardsOf(kind, line[s].parcel)) <= BoardMax
HasRoom(s, kind) == Cardinality(BoardsOf(kind, line[s].parcel)) < BoardMax

CreateBoard(s, kind) ==
    \/ /\ AtStatement(s, kind, <<>>)
       /\ ReadIf(s, OwnedBuilt(s), <<"owned">>) /\ Untouched
    \/ /\ AtStatement(s, kind, <<"owned">>)
       /\ IF BoardOf(s, kind) \in boards
            THEN ReadIf(s, kind \notin AlwaysNew, <<"room">>)
            ELSE Read(s, <<"new">>)
       /\ Untouched
    \/ /\ AtStatement(s, kind, <<"new">>)
       /\ ReadIf(s, HasRoom(s, kind), <<"room">>) /\ Untouched
    \/ /\ AtStatement(s, kind, <<"room">>)
       /\ boards' = boards \cup {BoardOf(s, kind)}
       /\ IF kind \in AlwaysNew /\ BoardOf(s, kind) \in boards     \* unique key
            THEN EndLine(s) ELSE Step(s)
       /\ UNCHANGED <<land, roomToken, awards, place, agreed, cutOff>>

-----------------------------------------------------------------------------
(* Awards: the badge is read before the transaction; one active award per  *)
(* badge and recipient is a unique index.                                  *)
ActiveAwards(s) == {i \in DOMAIN awards : /\ awards[i].parcel = line[s].parcel
                                          /\ awards[i].slug = line[s].slug
                                          /\ awards[i].to = line[s].target
                                          /\ awards[i].active}

OwnedBadge(s, label) == /\ AtStatement(s, label, <<>>)
                        /\ ReadIf(s, OwnedBuilt(s) /\ BoardOf(s, "badge") \in boards,
                                  <<"badge">>)
                        /\ Untouched

(* on conflict do nothing; when the row it met is gone before it is read,  *)
(* the call fails, and it has changed nothing either way.                  *)
InsertAwardAgain(s) ==          \* a mutant: no unique index of active awards
    Append(awards, [parcel |-> line[s].parcel, slug |-> line[s].slug,
                    to |-> line[s].target, active |-> TRUE])
InsertAward(s) == IF ActiveAwards(s) # {} THEN awards
                    ELSE Append(awards, [parcel |-> line[s].parcel, slug |-> line[s].slug,
                                         to |-> line[s].target, active |-> TRUE])

AwardBadge(s) ==
    \/ OwnedBadge(s, "award")
    \/ /\ AtStatement(s, "award", <<"badge">>)
       /\ ReadIf(s, ActiveAwards(s) = {}, <<"none">>) /\ Untouched
    \/ /\ AtStatement(s, "award", <<"none">>)
       /\ Len(awards) < MaxAwards
       /\ awards' = InsertAward(s) /\ Step(s)
       /\ UNCHANGED <<land, roomToken, boards, place, agreed, cutOff>>

(* The row is found active and updated by its id. *)
RevokedRow(row) == [row EXCEPT !.active = FALSE]

RevokeBadge(s) ==
    \/ OwnedBadge(s, "revoke")
    \/ /\ AtStatement(s, "revoke", <<"badge">>)
       /\ IF ActiveAwards(s) = {} THEN EndLine(s)
            ELSE \E i \in ActiveAwards(s) : Read(s, <<"row", i>>)
       /\ Untouched
    \/ /\ AtStep(s, "revoke") /\ seen[s] # <<>> /\ seen[s][1] = "row"
       /\ awards' = [awards EXCEPT ![seen[s][2]] = RevokedRow(@)]
       /\ Step(s)
       /\ UNCHANGED <<land, roomToken, boards, place, agreed, cutOff>>

-----------------------------------------------------------------------------
Effects(s) ==
    \/ EnsureInside(s) \/ EnsureInsideList(s) \/ OnList(s) \/ Elsewhere(s)
    \/ ClaimParcel(s) \/ TransferParcel(s) \/ SetRoomMailAuthToken(s)
    \/ BuildNowhere(s) \/ UpdateBuildField(s) \/ PublishBuild(s)
    \/ \E kind \in BoardKinds : CreateBoard(s, kind)
    \/ AwardBadge(s) \/ RevokeBadge(s)

-----------------------------------------------------------------------------
LandTypeOK ==
    /\ land \in [Parcels -> Plot]
    /\ \A p \in Parcels : land[p].owner = Absent <=> land[p].status = "vacant"
    /\ roomToken \in [Parcels -> Landlords \cup {Absent}]
    /\ boards \subseteq Board
    /\ awards \in Seq(Award) /\ Len(awards) <= MaxAwards
    /\ place \in [Landlords -> Views] /\ agreed \subseteq Landlords
    /\ \A s \in Shells : /\ todo[s] = <<>> <=> line[s] = NoLine
                         /\ line[s].command \in SemanticCommand

(* What a room's mail token opens belongs to the owner of the room, but    *)
(* for a transfer between its two calls, or cut off there: two transfers   *)
(* in a row, or a rotation beside a transfer, never leave the token of an  *)
(* owner before.                                                           *)
InTransfer(p) == \E s \in Shells : /\ AtStep(s, "roomToken") /\ Transferring(s)
                                   /\ line[s].parcel = p

TokensAreOfTheOwner ==
    \A p \in Parcels \ cutOff :
        roomToken[p] \in {Absent, land[p].owner} \/ InTransfer(p)

(* The limits of lists, desks, guides and badges are read before the insert, so   *)
(* connections of the owner pass them together; but each passes it once:   *)
(* a parcel exceeds a limit by the other connections at most.              *)
BoardsNearTheirCaps ==
    \A p \in Parcels, kind \in BoardKinds :
        Cardinality(BoardsOf(kind, p)) <= BoardMax + Cardinality(Shells) - 1

(* The award of a badge is history: a row is never taken back or given     *)
(* anew, what was revoked stays revoked, and a recipient wears a badge     *)
(* once, though awards and revocations of it interleave.                   *)
WornOnce(rows) == \A i, j \in DOMAIN rows :
                     rows[i].active /\ rows[j] = rows[i] => i = j

AwardsStand ==
    [][/\ \A i \in DOMAIN awards : /\ i \in DOMAIN awards'
                                   /\ awards'[i] \in {awards[i], RevokedRow(awards[i])}
       /\ WornOnce(awards')]_awards

(* Whatever command of a parcel's owner, staff or subscribers reaches the  *)
(* storage was typed by an admitted player who stood in that parcel; only  *)
(* owning one (claim, transfer, token) is done from afar.  A post or a     *)
(* subscription reaches the list of another room only when the line called *)
(* its own room by a title and the room was retitled between the guard and *)
(* the operation; a room called by its id is the one that is meant.        *)
FromAfar == One({"claim", "transfer", "token"})
OnLists  == One({"subscribe", "unsubscribe", "chat"}) \cup {<<"mailingList", "send">>}

Retitled(s) == line[s].named # line[s].view /\ land[line[s].view].edits > seen[s][2]

ActsOnlyInside ==
    \A s \in {sh \in Shells : todo[sh] # <<>>} :
        LET command == line[s].command
        IN  /\ line[s].by \in agreed \/ command[1] = "settings"
            /\ (/\ command[1] = "parcel" /\ Tail(command) \notin FromAfar \cup OnLists
                /\ command[2] # "build"
                /\ Head(todo[s]) # "inside")
                 => line[s].view = line[s].parcel
            /\ (Head(todo[s]) = "onList" /\ seen[s] # <<>> /\ seen[s][1] = "list")
                 => seen[s][3] = line[s].view \/ Retitled(s)
=============================================================================
