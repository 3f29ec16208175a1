----------------------------- MODULE ParcelWork -----------------------------
(***************************************************************************)
(* Parcel commands and work desks: a visitor's command is stored, put in   *)
(* the room's inbox and routed to the work desks; assigned workers start a *)
(* shift, claim the queued items and finish them; the owner manages desks, *)
(* routes and staff, asks for payment and may give the parcel away.        *)
(*                                                                         *)
(* Every statement is a step of its own: the storage functions check with  *)
(* one statement and write with a later one, mostly without a transaction. *)
(* todo[s] holds the statements session s has yet to issue, call[s] its    *)
(* arguments and read[s] what it has read and not used yet.                *)
(***************************************************************************)
EXTENDS Naturals, Sequences, FiniteSets

CONSTANTS
    Sessions,       \* callers that run one storage operation at a time
    Players,        \* players: owners, workers and visitors
    FirstOwner,     \* the owner of the built parcel at the start
    Desks,          \* desk slugs of the parcel
    Commands,       \* rows of operator_commands
    Prefixes,       \* command prefixes of routes
    Matches,        \* which commands' raw input each prefix matches
    DesksMax,       \* PARCEL_WORK_DESKS_PER_PARCEL_MAX
    Menus,          \* sets of calls, of which callers have one to make
    None            \* no player, desk, command or prefix

Operations == {"createDesk", "hire", "fire", "addRoute", "dropRoute",
               "transfer", "say", "request", "startShift", "endShift",
               "claim", "finish"}

Arguments == [op : Operations, player : Players, whom : Players \cup {None},
              desk : Desks \cup {None}, command : Commands \cup {None},
              prefix : Prefixes \cup {None}]

(* A call has the arguments its operation takes. *)
Call == {c \in Arguments :
           /\ c.op \in {"hire", "fire", "transfer"} => c.whom # None
           /\ c.op \notin {"transfer", "say", "request"} => c.desk # None
           /\ c.op \in {"say", "request", "claim", "finish"} => c.command # None
           /\ c.op \in {"addRoute", "dropRoute"} => c.prefix # None}

ASSUME ConstantsAssumption ==
    /\ FirstOwner \in Players
    /\ None \notin Sessions \cup Players \cup Desks \cup Commands \cup Prefixes
    /\ Matches \in [Prefixes -> SUBSET Commands]
    /\ DesksMax \in Nat
    /\ \A calls \in Menus : calls \subseteq Call

VARIABLES
    parcelOwner,    \* parcels.owner_player_id
    cachedOwner,    \* the owner in the room cache of the SSH server
    deskOwner,      \* parcel_work_desks: the owner at creation, or None
    staff,          \* parcel_work_staff
    shift,          \* the active rows of parcel_work_shifts
    route,          \* parcel_work_routes
    command,        \* operator_commands
    item,           \* parcel_work_items
    requested,      \* the commands with a row in payment_requests
    inbox,          \* inbox items made for commands and for requests
    holder,         \* who holds the FOR UPDATE lock of a command's row
    todo, call, read,
    menu            \* the calls of this behaviour, which never change

tables   == <<parcelOwner, deskOwner, staff, shift, route, command, item,
              requested, inbox>>
sessions == <<todo, call, read>>
vars     == <<tables, cachedOwner, holder, sessions, menu>>

-----------------------------------------------------------------------------
Item == [status : {"none", "queued", "claimed", "done"},
         by : Players \cup {None}]
Read == [owner : Players \cup {None}, desks : SUBSET Desks, last : BOOLEAN]

NoItem    == [status |-> "none", by |-> None]
NoRead    == [owner |-> None, desks |-> {}, last |-> FALSE]
NoCall    == [op |-> "say", player |-> FirstOwner, whom |-> None,
              desk |-> None, command |-> None, prefix |-> None]
NoCommand == [status |-> "none", owner |-> None]

(* The statements of each operation, in order. *)
ScriptRoutesFirst(op) ==
    CASE op = "createDesk" -> <<"owned", "count", "createDesk">>
      [] op = "hire"       -> <<"owned", "desk", "hire">>
      [] op = "fire"       -> <<"owned", "desk", "fire", "endShifts">>
      [] op = "addRoute"   -> <<"owned", "desk", "addRoute">>
      [] op = "dropRoute"  -> <<"owned", "desk", "dropRoute">>
      [] op = "transfer"   -> <<"transfer">>
      [] op = "say"        -> <<"store", "routes", "queue", "notify">>
      [] op = "request"    -> <<"lock", "request", "bill">>
      [] op = "startShift" -> <<"assigned", "absent", "startShift">>
      [] op = "endShift"   -> <<"endShift">>
      [] op = "claim"      -> <<"queued", "assigned", "active", "claim">>
      [] op = "finish"     -> <<"mine", "assigned", "active", "lock", "finish",
                                "open", "commit">>

ScriptOf(op) ==
    CASE op = "createDesk" -> <<"owned", "count", "createDesk">>
      [] op = "hire"       -> <<"owned", "desk", "hire">>
      [] op = "fire"       -> <<"owned", "desk", "fire", "endShifts">>
      [] op = "addRoute"   -> <<"owned", "desk", "addRoute">>
      [] op = "dropRoute"  -> <<"owned", "desk", "dropRoute">>
      [] op = "transfer"   -> <<"transfer">>
      [] op = "say"        -> <<"store", "notify", "routes", "queue">>
      [] op = "request"    -> <<"lock", "request", "bill">>
      [] op = "startShift" -> <<"assigned", "absent", "startShift">>
      [] op = "endShift"   -> <<"endShift">>
      [] op = "claim"      -> <<"queued", "assigned", "active", "claim">>
      [] op = "finish"     -> <<"mine", "assigned", "active", "lock", "finish",
                                "open", "commit">>

At(s, label) == todo[s] # <<>> /\ Head(todo[s]) = label

Advance(s) == todo' = [todo EXCEPT ![s] = Tail(@)]

Release(s) == holder' = [c \in Commands |-> IF holder[c] = s THEN None
                                                            ELSE holder[c]]

(* The operation is over: its result, an error or nobody is left to hear.  *)
(* A transaction it had open is rolled back; earlier statements stay.      *)
End(s) ==
    /\ todo' = [todo EXCEPT ![s] = <<>>]
    /\ call' = [call EXCEPT ![s] = NoCall]
    /\ read' = [read EXCEPT ![s] = NoRead]
    /\ Release(s)

(* A write of its own transaction; the operation ends with its last one. *)
AdvanceOrEnd(s) == IF Len(todo[s]) = 1
                     THEN End(s)
                     ELSE Advance(s) /\ UNCHANGED <<call, read, holder>>

-----------------------------------------------------------------------------
Init ==
    /\ parcelOwner = FirstOwner
    /\ cachedOwner = FirstOwner
    /\ deskOwner = [d \in Desks |-> None]
    /\ staff     = [d \in Desks |-> [p \in Players |-> "none"]]
    /\ shift     = [d \in Desks |-> {}]
    /\ route     = {}
    /\ command   = [c \in Commands |-> NoCommand]
    /\ item      = [d \in Desks |-> [c \in Commands |-> NoItem]]
    /\ requested = {}
    /\ inbox     = {}
    /\ holder    = [c \in Commands |-> None]
    /\ todo      = [s \in Sessions |-> <<>>]
    /\ call      = [s \in Sessions |-> NoCall]
    /\ read      = [s \in Sessions |-> NoRead]
    /\ menu \in Menus

(* A visitor's line is given to handle_parcel_input with the parcel as the *)
(* room cache has it; the owner's own lines are not stored.  Each line     *)
(* gets a row of its own.                                                  *)
Storable(c) == /\ c.player # cachedOwner
               /\ command[c.command] = NoCommand
               /\ \A s \in Sessions : call[s].op = "say" =>
                                        call[s].command # c.command

Begin(s, c) ==
    /\ todo[s] = <<>>
    /\ c.op = "say" => Storable(c)
    /\ todo' = [todo EXCEPT ![s] = ScriptOf(c.op)]
    /\ call' = [call EXCEPT ![s] = c]
    /\ read' = IF c.op = "say"
                 THEN [read EXCEPT ![s].owner = cachedOwner]
                 ELSE read
    /\ UNCHANGED <<tables, holder>>

-----------------------------------------------------------------------------
(* The checks: what a statement that only reads must find for the next one *)
(* to be issued.                                                           *)
DesksOpen == {d \in Desks : deskOwner[d] # None}

(* ensure_worker_assigned: the desk's recorded owner, or active staff. *)
AnyoneAssigned(d, p) == deskOwner[d] # None

Assigned(d, p) == deskOwner[d] # None /\ (deskOwner[d] = p \/ staff[d][p] = "active")

ItemOf(s) == item[call[s].desk][call[s].command]

Finds(s) ==
    LET c == call[s]
    IN  \/ At(s, "owned")    /\ parcelOwner = c.player
        \/ At(s, "desk")     /\ deskOwner[c.desk] # None
        \/ At(s, "count")    /\ deskOwner[c.desk] = None
                             /\ Cardinality(DesksOpen) < DesksMax
        \/ At(s, "assigned") /\ Assigned(c.desk, c.player)
        \/ At(s, "absent")   /\ c.player \notin shift[c.desk]
        \/ At(s, "active")   /\ c.player \in shift[c.desk]
        \/ At(s, "queued")   /\ ItemOf(s).status = "queued"
        \/ At(s, "mine")     /\ ItemOf(s) = [status |-> "claimed", by |-> c.player]

Checks == {"owned", "desk", "count", "assigned", "absent", "active", "queued",
           "mine"}

Check(s) ==
    /\ Finds(s)
    /\ Advance(s)
    /\ UNCHANGED <<tables, holder, call, read>>

(* An error return, or nothing to do. *)
Refuse(s) ==
    /\ \E label \in Checks : At(s, label)
    /\ ~Finds(s)
    /\ End(s)
    /\ UNCHANGED tables

-----------------------------------------------------------------------------
(* The owner's writes. *)
CreateDesk(s) ==
    LET d == call[s].desk
    IN  /\ At(s, "createDesk")
        /\ deskOwner' = IF deskOwner[d] = None
                          THEN [deskOwner EXCEPT ![d] = call[s].player]
                          ELSE deskOwner    \* unique (parcel_id, slug)
        /\ End(s)
        /\ UNCHANGED <<parcelOwner, staff, shift, route, command, item,
                       requested, inbox>>

Hire(s) ==
    /\ At(s, "hire")
    /\ staff' = [staff EXCEPT ![call[s].desk][call[s].whom] = "active"]
    /\ End(s)
    /\ UNCHANGED <<parcelOwner, deskOwner, shift, route, command, item,
                   requested, inbox>>

(* remove_parcel_staff: first the assignment, then, in a statement of its  *)
(* own, the worker's active shifts.                                        *)
Fire(s) ==
    LET d == call[s].desk
        w == call[s].whom
    IN  /\ At(s, "fire")
        /\ IF staff[d][w] = "none"
             THEN End(s) /\ UNCHANGED staff
             ELSE /\ staff' = [staff EXCEPT ![d][w] = "removed"]
                  /\ AdvanceOrEnd(s)
        /\ UNCHANGED <<parcelOwner, deskOwner, shift, route, command, item,
                       requested, inbox>>

EndShifts(s) ==
    /\ At(s, "endShifts")
    /\ shift' = [shift EXCEPT ![call[s].desk] = @ \ {call[s].whom}]
    /\ End(s)
    /\ UNCHANGED <<parcelOwner, deskOwner, staff, route, command, item,
                   requested, inbox>>

AddRoute(s) ==
    /\ At(s, "addRoute")
    /\ route' = route \cup {<<call[s].desk, call[s].prefix>>}
    /\ End(s)
    /\ UNCHANGED <<parcelOwner, deskOwner, staff, shift, command, item,
                   requested, inbox>>

(* The select of the route's id and the delete by id are one step here: a  *)
(* route that goes in between makes the delete a step that does nothing,   *)
(* as a disconnect before it does.                                         *)
DropRoute(s) ==
    /\ At(s, "dropRoute")
    /\ route' = route \ {<<call[s].desk, call[s].prefix>>}
    /\ End(s)
    /\ UNCHANGED <<parcelOwner, deskOwner, staff, shift, command, item,
                   requested, inbox>>

(* UPDATE parcels ... WHERE owner_player_id = the caller: nothing else of  *)
(* the parcel (desks, staff, shifts) follows the new owner.                *)
TransferParcel(s) ==
    /\ At(s, "transfer")
    /\ parcelOwner' = IF parcelOwner = call[s].player THEN call[s].whom
                                                      ELSE parcelOwner
    /\ End(s)
    /\ UNCHANGED <<deskOwner, staff, shift, route, command, item,
                   requested, inbox>>

-----------------------------------------------------------------------------
(* A visitor's command: the row, the room's inbox item, then the routes    *)
(* that match it, read once, and one insert per desk.                      *)
StoreCommandPending(s) ==
    LET c == call[s].command
    IN  /\ At(s, "store")
        /\ command' = [command EXCEPT ![c] = [status |-> "pending",
                                              owner |-> read[s].owner]]
        /\ AdvanceOrEnd(s)
        /\ UNCHANGED <<parcelOwner, deskOwner, staff, shift, route, item,
                       requested, inbox>>

StoreCommand(s) ==
    LET c == call[s].command
    IN  /\ At(s, "store")
        /\ command' = [command EXCEPT ![c] = [status |-> "delivered",
                                              owner |-> read[s].owner]]
        /\ AdvanceOrEnd(s)
        /\ UNCHANGED <<parcelOwner, deskOwner, staff, shift, route, item,
                       requested, inbox>>

NotifyRoom(s) ==
    /\ At(s, "notify")
    /\ inbox' = inbox \cup {<<"command", call[s].command>>}
    /\ AdvanceOrEnd(s)
    /\ UNCHANGED <<parcelOwner, deskOwner, staff, shift, route, command, item,
                   requested>>

Targets(c) == {d \in Desks : \E p \in Prefixes : /\ <<d, p>> \in route
                                                 /\ c \in Matches[p]}

ReadRoutes(s) ==
    /\ At(s, "routes")
    /\ read' = [read EXCEPT ![s].desks = Targets(call[s].command)]
    /\ Advance(s)
    /\ UNCHANGED <<tables, call, holder>>

(* The foreign key takes a KEY SHARE lock on the command's row, which      *)
(* waits for a FOR UPDATE lock.                                            *)
QueueItem(s, d) ==
    LET c == call[s].command
    IN  /\ At(s, "queue")
        /\ d \in read[s].desks
        /\ holder[c] = None
        /\ item' = IF item[d][c] = NoItem
                     THEN [item EXCEPT ![d][c].status = "queued"]
                     ELSE item
        /\ read' = [read EXCEPT ![s].desks = @ \ {d}]
        /\ UNCHANGED <<parcelOwner, deskOwner, staff, shift, route, command,
                       requested, inbox, todo, call, holder>>

Routed(s) ==
    /\ At(s, "queue")
    /\ read[s].desks = {}
    /\ AdvanceOrEnd(s)
    /\ UNCHANGED tables

-----------------------------------------------------------------------------
(* create_payment_request and finish_parcel_work lock the command's row:   *)
(* SELECT ... FOR UPDATE.                                                  *)
LockNothing(s) ==
    /\ At(s, "lock")
    /\ Advance(s)
    /\ UNCHANGED <<tables, call, read, holder>>

LockCommand(s) ==
    LET c == call[s].command
    IN  /\ At(s, "lock")
        /\ command[c] # NoCommand
        /\ holder[c] = None
        /\ holder' = [holder EXCEPT ![c] = s]
        /\ Advance(s)
        /\ UNCHANGED <<tables, call, read>>

CommandNotFound(s) ==
    /\ At(s, "lock")
    /\ command[call[s].command] = NoCommand
    /\ End(s)
    /\ UNCHANGED tables

(* Not the owner the command was stored with, or a request exists: an      *)
(* error, or the existing request and no inbox item for it.                *)
Requestable(s) == /\ command[call[s].command].owner = call[s].player
                  /\ call[s].command \notin requested

RequestPayment(s) ==
    LET c == call[s].command
    IN  /\ At(s, "request")
        /\ Requestable(s)
        /\ requested' = requested \cup {c}
        /\ command' = [command EXCEPT ![c].status = "handled"]
        /\ Advance(s)
        /\ Release(s)
        /\ UNCHANGED <<parcelOwner, deskOwner, staff, shift, route, item, inbox,
                       call, read>>

NoNewRequest(s) ==
    /\ At(s, "request")
    /\ ~Requestable(s)
    /\ End(s)
    /\ UNCHANGED tables

BillPayer(s) ==
    /\ At(s, "bill")
    /\ inbox' = inbox \cup {<<"request", call[s].command>>}
    /\ End(s)
    /\ UNCHANGED <<parcelOwner, deskOwner, staff, shift, route, command, item,
                   requested>>

-----------------------------------------------------------------------------
(* The worker's writes. *)
StartShift(s) ==
    /\ At(s, "startShift")
    /\ shift' = [shift EXCEPT ![call[s].desk] = @ \cup {call[s].player}]
    /\ End(s)
    /\ UNCHANGED <<parcelOwner, deskOwner, staff, route, command, item,
                   requested, inbox>>

EndShift(s) ==
    /\ At(s, "endShift")
    /\ shift' = [shift EXCEPT ![call[s].desk] = @ \ {call[s].player}]
    /\ End(s)
    /\ UNCHANGED <<parcelOwner, deskOwner, staff, route, command, item,
                   requested, inbox>>

(* UPDATE parcel_work_items ... WHERE status = 'queued'. *)
ClaimAnyway(s) ==
    /\ At(s, "claim")
    /\ item' = [item EXCEPT ![call[s].desk][call[s].command] =
                    [status |-> "claimed", by |-> call[s].player]]
    /\ End(s)
    /\ UNCHANGED <<parcelOwner, deskOwner, staff, shift, route, command,
                   requested, inbox>>

ClaimItem(s) ==
    /\ At(s, "claim")
    /\ item' = IF ItemOf(s).status = "queued"
                 THEN [item EXCEPT ![call[s].desk][call[s].command] =
                            [status |-> "claimed", by |-> call[s].player]]
                 ELSE item
    /\ End(s)
    /\ UNCHANGED <<parcelOwner, deskOwner, staff, shift, route, command,
                   requested, inbox>>

(* In the transaction: the item is done (seen by this transaction only),   *)
(* the command's open items are counted, and the commit publishes both.    *)
FinishItem(s) ==
    /\ At(s, "finish")
    /\ IF ItemOf(s) = [status |-> "claimed", by |-> call[s].player]
         THEN Advance(s) /\ UNCHANGED <<call, read, holder>>
         ELSE End(s)
    /\ UNCHANGED tables

OpenBesides(d, c) == {e \in Desks \ {d} : item[e][c].status \in {"queued", "claimed"}}

CountOpen(s) ==
    /\ At(s, "open")
    /\ read' = [read EXCEPT ![s].last =
                    OpenBesides(call[s].desk, call[s].command) = {}]
    /\ Advance(s)
    /\ UNCHANGED <<tables, call, holder>>

CommitFinish(s) ==
    LET c == call[s].command
    IN  /\ At(s, "commit")
        /\ item' = [item EXCEPT ![call[s].desk][c].status = "done"]
        /\ command' = IF read[s].last
                        THEN [command EXCEPT ![c].status = "handled"]
                        ELSE command
        /\ End(s)
        /\ UNCHANGED <<parcelOwner, deskOwner, staff, shift, route, requested,
                       inbox>>

-----------------------------------------------------------------------------
(* The caller's session or the server goes away between two statements. *)
Disconnect(s) ==
    /\ todo[s] # <<>>
    /\ End(s)
    /\ UNCHANGED tables

Statement(s) ==
    \/ Check(s)
    \/ Refuse(s)
    \/ CreateDesk(s)
    \/ Hire(s)
    \/ Fire(s)
    \/ EndShifts(s)
    \/ AddRoute(s)
    \/ DropRoute(s)
    \/ TransferParcel(s)
    \/ StoreCommand(s)
    \/ NotifyRoom(s)
    \/ ReadRoutes(s)
    \/ \E d \in Desks : QueueItem(s, d)
    \/ Routed(s)
    \/ LockCommand(s)
    \/ CommandNotFound(s)
    \/ RequestPayment(s)
    \/ NoNewRequest(s)
    \/ BillPayer(s)
    \/ StartShift(s)
    \/ EndShift(s)
    \/ ClaimItem(s)
    \/ FinishItem(s)
    \/ CountOpen(s)
    \/ CommitFinish(s)

(* The cached parcel expires, or is invalidated some time after a change. *)
RefreshCache ==
    /\ cachedOwner # parcelOwner
    /\ cachedOwner' = parcelOwner
    /\ UNCHANGED <<tables, holder, sessions>>

SessionStep(s) == /\ \/ \E c \in menu : Begin(s, c)
                     \/ Statement(s)
                     \/ Disconnect(s)
                  /\ UNCHANGED cachedOwner

Next == /\ RefreshCache \/ \E s \in Sessions : SessionStep(s)
        /\ UNCHANGED menu

Spec == Init /\ [][Next]_vars

-----------------------------------------------------------------------------
Labels == Checks \cup (Operations \ {"say"}) \cup
          {"endShifts", "store", "notify", "routes", "queue", "lock", "bill",
           "open", "commit"}

(* Every variable has its type; a stored command is delivered or handled,  *)
(* never pending, since every caller of save_operator_command delivers it. *)
TypeOK ==
    /\ {parcelOwner, cachedOwner} \subseteq Players
    /\ deskOwner \in [Desks -> Players \cup {None}]
    /\ staff \in [Desks -> [Players -> {"none", "active", "removed"}]]
    /\ shift \in [Desks -> SUBSET Players]
    /\ route \in SUBSET (Desks \X Prefixes)
    /\ command \in [Commands -> [status : {"none", "delivered", "handled"},
                                 owner : Players \cup {None}]]
    /\ item \in [Desks -> [Commands -> Item]]
    /\ requested \in SUBSET Commands
    /\ inbox \in SUBSET ({"command", "request"} \X Commands)
    /\ holder \in [Commands -> Sessions \cup {None}]
    /\ todo \in [Sessions -> Seq(Labels)]
    /\ call \in [Sessions -> Call \cup {NoCall}]
    /\ read \in [Sessions -> Read]

(* finish_parcel_work: when the last item of a command is done the command *)
(* is handled, whoever finishes whichever item at the same time; no        *)
(* command is left delivered for good with all its work done.              *)
DrainedCommandsHandled ==
    \A c \in Commands :
        LET statuses == {item[d][c].status : d \in Desks} \ {"none"}
        IN  statuses = {"done"} => command[c].status = "handled"

(* Statement by statement, the desks do what WorkBoard does in one step    *)
(* each: an item is claimed once, finished once and by who claimed it, and *)
(* what is queued for the staff is in the room's inbox before, wherever    *)
(* the visitor disconnects.                                                *)
Board == INSTANCE WorkBoard
            WITH handled  <- {c \in Commands : command[c].status = "handled"},
                 notified <- {c \in Commands : <<"command", c>> \in inbox}

ImplementsWorkBoard == Board!Spec

(* ensure_worker_assigned guards every step of the work: nobody has a      *)
(* shift or an item at a desk who never was its staff or its owner.        *)
OnlyHiredWorkersWork ==
    \A d \in Desks, p \in Players :
        p \in shift[d] \/ (\E c \in Commands : item[d][c].by = p)
            => deskOwner[d] = p \/ staff[d][p] # "none"

(* docs/parcel-blueprints/newspaper.md:322, "This story fails if ... a     *)
(* removed worker can still consume work": who claims is assigned.         *)
RemovedWorkersConsumeNothing ==
    [][\A d \in Desks, c \in Commands :
          item[d][c].status = "queued" /\ item'[d][c].status = "claimed"
              => Assigned(d, item'[d][c].by)]_vars

(* crates/storage/tests/parcel_mailing_lists.rs:1077: a command with an    *)
(* open item at one desk stays delivered when another desk's item is done. *)
HandledAfterLastItem ==
    \A c \in Commands :
        command[c].status = "handled" /\ c \notin requested
            => \A d \in Desks : item[d][c].status \in {"none", "done"}
=============================================================================
