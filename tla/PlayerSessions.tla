--------------------------- MODULE PlayerSessions ---------------------------
(***************************************************************************)
(* SSH connections of players (crates/protocol/ssh) over the world runtime *)
(* (crates/runtime).  Where a player is exists three times: in the         *)
(* runtime, in player_states and, for each connection, in the presence     *)
(* registry.  A connection logs in, passes the admission gate and handles  *)
(* one command line after another; an administrator may reload the world   *)
(* files meanwhile, and the server may be restarted.                       *)
(*                                                                         *)
(* A step is one lock region of the server or one SQL statement: every     *)
(* await between two of them lets other connections run.  Any statement may  *)
(* fail, or be done and only its answer be lost.  The inventory, room      *)
(* commands and everything a command only prints are left out.             *)
(***************************************************************************)
EXTENDS Naturals, FiniteSets

CONSTANTS
  Players,      \* player ids
  Connections,  \* connection ids, never reused while the server runs
  PlayerOf,     \* the player a connection authenticates
  Residents,    \* players admitted before, who left from the admission view
  Lines,        \* kinds of command lines that are typed
  Casts,        \* who takes part in a behaviour, with which lines and files
  Admins,       \* reload requests of the admin socket
  Files,        \* versions of the world directory, see FilesAssumption
  Grid,         \* generated views (parcels), observable with any files
  Rooms,        \* service rooms, views that no file has
  Front,        \* the view a room or parcel is entered from
  Exits,        \* the views a view has exits to
  Admission,    \* admission_view_id
  Spawn,        \* current_view of local_player, where new players start
  Pending,      \* PENDING_PRESENCE_VIEW_ID
  None          \* no view, no agreement version

(* The directory at one time: its views, the rooms rooms.ron enables, the  *)
(* agreement version of meta.ron.  The loader refuses a world without the  *)
(* views its players and its grid origin name.                             *)
FilesAssumption ==
  \A f \in Files : {Admission, Spawn} \subseteq f.views /\ f.rooms \subseteq Rooms

Views == (UNION {f.views : f \in Files}) \union Grid \union Rooms
           \union {Front[v] : v \in Grid \union Rooms}
Agreements == {f.version : f \in Files}
(* "look" stands for every command that leaves a player where it is. *)
AllLines == {"shell", "look", "move", "enter", "read", "agree"}

(* The statements of the faulty ones may fail, a bound. *)
Cast == [connections : SUBSET Connections, lines : SUBSET Lines, files : SUBSET Files,
         faulty : SUBSET (Connections \union Admins)]

ASSUME ConstantsAssumption ==
  /\ FilesAssumption
  /\ Residents \subseteq Players /\ Lines \subseteq AllLines
  /\ PlayerOf \in [Connections -> Players] /\ Casts \subseteq Cast
  /\ Front \in [Grid \union Rooms -> Views]
  /\ Exits \in [Views -> SUBSET Views]
  /\ Pending \notin Views /\ None \notin Views \union Agreements \union {Pending}

VARIABLES
  views,    \* static views of the runtime's world
  place,    \* the runtime's PlayerState.current_view, None without a state
  stored,   \* player_states.current_view, None without a row
  present,  \* presence record of a connection, None without one
  enabled,  \* service_rooms.enabled
  cache,    \* room_context_views for the rooms
  version,  \* app_config.agreement_version
  read,     \* player_profiles.agreement_read_version
  agreed,   \* player_profiles.agreement_version of admitted players
  wallet,   \* players with a wallet and their initial grant
  at,       \* what a connection does next
  seen,     \* what its handler has read so far
  reload,   \* what a reload does next and what it has read
  cast,     \* the cast of this behaviour, which never changes
  unsaved,  \* history: players whose last save failed
  unpaid    \* history: connections whose login was over when a grant failed

world == <<views, enabled, cache, version>>
profile == <<read, agreed, wallet>>
faults == <<unsaved, unpaid>>
vars == <<views, place, stored, present, enabled, cache, version, read, agreed,
          wallet, at, seen, reload, cast, unsaved, unpaid>>

Visible(v) == v \in views \union Grid
Opened(f) == {r \in f.rooms : Front[r] \in f.views}
Fresh == [line |-> "shell", view |-> None, here |-> None, context |-> "street",
          admitted |-> FALSE, version |-> None]
Waiting == [at |-> "todo", files |-> None, rooms |-> {}, room |-> None, visits |-> {},
            visit |-> None, context |-> "street"]

Init ==
  \E who \in Casts : \E f \in who.files :
    /\ cast = who
    /\ views = f.views /\ enabled = Opened(f) /\ version = f.version
    /\ cache = [r \in Rooms |-> "unknown"]
    /\ place = [p \in Players |-> None]
    /\ stored = [p \in Players |-> IF p \in Residents THEN Admission ELSE None]
    /\ present = [c \in Connections |-> None]
    /\ read = [p \in Players |-> IF p \in Residents THEN f.version ELSE None]
    /\ agreed = read /\ wallet = Residents
    /\ at = [c \in Connections |-> "new"]
    /\ seen = [c \in Connections |-> Fresh]
    /\ reload = [a \in Admins |-> Waiting]
    /\ unsaved = {} /\ unpaid = {}

LoginSteps == {"admission", "load", "create", "arrive", "hold", "save", "online"}
LineSteps == {"context", "fill", "observe", "config", "gate", "mark", "accept", "admit",
              "grant", "view", "set", "persist", "present"}

(* Connection c goes on with another step, having read `what`. *)
Goto(c, step, what) ==
  /\ at' = [at EXCEPT ![c] = step]
  /\ seen' = [seen EXCEPT ![c] = what]
Done(c) == Goto(c, "idle", Fresh)

---------------------------------------------------------------------------
(* Login: finish_authentication *)

(* Admission is only ever given, so reading it and creating the wallet are
   one step here: a later admission is seen by neither. *)
NoWalletsDue(c) == {}
WalletsDue(c) == {p \in {PlayerOf[c]} : agreed[p] # None}

EnsureWalletIfAdmitted(c) ==
  /\ at[c] = "new"
  /\ wallet' = wallet \union WalletsDue(c)
  /\ Goto(c, "admission", Fresh)
  /\ UNCHANGED <<world, place, stored, present, read, agreed, reload, faults>>

PlayerAdmission(c) ==
  /\ at[c] = "admission"
  /\ Goto(c, "load", [seen[c] EXCEPT !.admitted = agreed[PlayerOf[c]] # None])
  /\ UNCHANGED <<world, place, stored, present, profile, reload, faults>>

LoadPlayerState(c) ==
  /\ at[c] = "load"
  /\ Goto(c, "create", [seen[c] EXCEPT !.view = stored[PlayerOf[c]]])
  /\ UNCHANGED <<world, place, stored, present, profile, reload, faults>>

(* set_or_create_player: the stored state replaces the runtime's; without one
   a player the runtime knows is kept and a new one starts at the spawn view. *)
PlacedFromTemplate(p, view) == IF view # None THEN view ELSE Spawn
PlacedAtLogin(p, view) ==
  IF view # None THEN view ELSE IF place[p] # None THEN place[p] ELSE Spawn

SetOrCreatePlayer(c) ==
  LET p == PlayerOf[c] IN
  /\ at[c] = "create"
  /\ place' = [place EXCEPT ![p] = PlacedAtLogin(p, seen[c].view)]
  /\ Goto(c, "arrive", seen[c])
  /\ UNCHANGED <<world, stored, present, profile, reload, faults>>

Arrive(c) ==
  /\ at[c] = "arrive"
  /\ IF seen[c].admitted
     THEN Goto(c, "save", [seen[c] EXCEPT !.view = place[PlayerOf[c]]])
     ELSE Goto(c, "hold", [seen[c] EXCEPT !.view = Admission])
  /\ UNCHANGED <<world, place, stored, present, profile, reload, faults>>

HoldAtAdmission(c) ==
  /\ at[c] = "hold"
  /\ place' = [place EXCEPT ![PlayerOf[c]] = seen[c].view]
  /\ Goto(c, "save", seen[c])
  /\ UNCHANGED <<world, stored, present, profile, reload, faults>>

SaveAtLogin(c) ==
  /\ at[c] = "save"
  /\ stored' = [stored EXCEPT ![PlayerOf[c]] = seen[c].view]
  /\ unsaved' = unsaved \ {PlayerOf[c]}
  /\ Goto(c, "online", seen[c])
  /\ UNCHANGED <<world, place, present, profile, reload, unpaid>>

MarkOnline(c) ==
  /\ at[c] = "online"
  /\ present' = [present EXCEPT ![c] = IF seen[c].admitted THEN seen[c].view ELSE Pending]
  /\ Done(c)
  /\ UNCHANGED <<world, place, stored, profile, reload, faults>>

---------------------------------------------------------------------------
(* A command line: prepare_command_line_state *)

Line(c, line) ==
  /\ at[c] = "idle"
  /\ Goto(c, "context", [Fresh EXCEPT !.line = line, !.view = place[PlayerOf[c]]])
  /\ UNCHANGED <<world, place, stored, present, profile, reload, faults>>

(* room_context_for_view answers from the cache or, when there is no entry
   or its 30 seconds are over, reads the table and puts the answer into the
   cache in a later lock region.  Only the context of rooms ever differs;
   the entry stands for those of the bindings it is made from, too. *)
TableContext(v) == IF v \in enabled THEN "open" ELSE "closed"

WithContext(c, context) ==
  IF seen[c].line \in {"relocate", "escape"}
  THEN Goto(c, "set", [Fresh EXCEPT !.line = seen[c].line, !.view = seen[c].view])
  ELSE Goto(c, "observe", [seen[c] EXCEPT !.context = context])

RoomContext(c) ==
  LET v == seen[c].view IN
  /\ at[c] = "context"
  /\ \/ v \notin Rooms /\ WithContext(c, "street") /\ UNCHANGED cache
     \/ v \in Rooms /\ cache[v] # "unknown" /\ WithContext(c, cache[v]) /\ UNCHANGED cache
     \/ /\ v \in Rooms
        /\ cache' = [cache EXCEPT ![v] = "unknown"]
        /\ Goto(c, "fill", [seen[c] EXCEPT !.context = TableContext(v)])
  /\ UNCHANGED <<views, enabled, version, place, stored, present, profile, reload, faults>>

FillCache(c) ==
  /\ at[c] = "fill"
  /\ cache' = [cache EXCEPT ![seen[c].view] = seen[c].context]
  /\ WithContext(c, seen[c].context)
  /\ UNCHANGED <<views, enabled, version, place, stored, present, profile, reload, faults>>

(* A relocation starts with the context of the target.  One that an event
   asks for ends the connection when it fails; the escape from where nobody
   can be any more is part of observing, whose errors are printed. *)
Sends(c, line, target) ==
  Goto(c, "context", [Fresh EXCEPT !.line = line, !.view = target])
Relocate(c, target) == Sends(c, "relocate", target)

(* The runtime shows the views it has; what it does not have may be an open
   room, and a player who is in neither is sent out. *)
Observe(c) ==
  LET s == seen[c]
      here == place[PlayerOf[c]] IN
  /\ at[c] = "observe"
  /\ \/ /\ Visible(here) \/ s.context = "open"
        /\ \/ s.line = "shell" /\ Done(c)
           \/ s.line # "shell"
              /\ Goto(c, IF s.line \in {"read", "agree"} THEN "config" ELSE "gate",
                         [s EXCEPT !.here = IF Visible(here) THEN here ELSE s.view])
     \/ /\ ~Visible(here) /\ s.context # "open"
        /\ Sends(c, "escape", IF s.context = "closed" THEN Front[s.view] ELSE Admission)
  /\ UNCHANGED <<world, place, stored, present, profile, reload, faults>>

---------------------------------------------------------------------------
(* The admission gate: handle_pending_admission_command, accept_admission *)

(* app_service clones the configuration; reading and agreeing use the clone. *)
AppService(c) ==
  /\ at[c] = "config"
  /\ Goto(c, "gate", [seen[c] EXCEPT !.version = version])
  /\ UNCHANGED <<world, place, stored, present, profile, reload, faults>>

PassesGate(c) == agreed[PlayerOf[c]] # None

Gate(c) ==
  /\ at[c] = "gate"
  /\ \/ PassesGate(c) /\ Goto(c, "view", [seen[c] EXCEPT !.version = None])
     \/ ~PassesGate(c) /\ seen[c].line = "read" /\ Goto(c, "mark", seen[c])
     \/ ~PassesGate(c) /\ seen[c].line = "agree" /\ Goto(c, "accept", seen[c])
     \/ ~PassesGate(c) /\ seen[c].line \notin {"read", "agree"} /\ Done(c)
  /\ UNCHANGED <<world, place, stored, present, profile, reload, faults>>

MarkAgreementRead(c) ==
  /\ at[c] = "mark"
  /\ read' = [read EXCEPT ![PlayerOf[c]] = seen[c].version]
  /\ Done(c)
  /\ UNCHANGED <<world, place, stored, present, agreed, wallet, reload, faults>>

AcceptAdmission(c) ==
  LET p == PlayerOf[c] IN
  /\ at[c] = "accept"
  /\ IF agreed[p] = None /\ read[p] = seen[c].version
     THEN Goto(c, "admit", seen[c])
     ELSE Done(c)
  /\ UNCHANGED <<world, place, stored, present, profile, reload, faults>>

(* The UPDATE of admit_player names the version in its condition. *)
AdmitsUnguarded(c) == TRUE
Admits(c) == read[PlayerOf[c]] = seen[c].version

AdmitPlayer(c) ==
  /\ at[c] = "admit"
  /\ \/ /\ Admits(c)
        /\ agreed' = [agreed EXCEPT ![PlayerOf[c]] = seen[c].version]
        /\ Goto(c, "grant", seen[c])
     \/ ~Admits(c) /\ Done(c) /\ UNCHANGED agreed
  /\ UNCHANGED <<world, place, stored, present, read, wallet, reload, faults>>

EnsureWalletAndEnter(c) ==
  /\ at[c] = "grant"
  /\ wallet' = wallet \union {PlayerOf[c]}
  /\ Relocate(c, Admission)
  /\ UNCHANGED <<world, place, stored, present, read, agreed, reload, faults>>

---------------------------------------------------------------------------
(* Commands of admitted players: handle_view_command, then the runtime *)

InRoom(c) == seen[c].context = "open"

Enter(c) ==
  /\ at[c] = "view" /\ seen[c].line = "enter"
  /\ \/ /\ ~InRoom(c)
        /\ \E v \in Grid \union enabled : Front[v] = seen[c].here /\ Relocate(c, v)
     \/ Done(c)
  /\ UNCHANGED <<world, place, stored, present, profile, reload, faults>>

LeaveRoom(c) ==
  /\ at[c] = "view" /\ seen[c].line = "move" /\ InRoom(c)
  /\ Relocate(c, Front[seen[c].view])
  /\ UNCHANGED <<world, place, stored, present, profile, reload, faults>>

(* What a room answers itself, and commands without effect on a place. *)
AnswerLine(c) ==
  /\ at[c] = "view"
  /\ \/ seen[c].line = "agree"
     \/ InRoom(c) /\ seen[c].line \in {"look", "read", "move"}
  /\ Done(c)
  /\ UNCHANGED <<world, place, stored, present, profile, reload, faults>>

(* RuntimeHandle::execute moves the player, or fails, and returns the state.
   Two executions share the runtime's read lock; that the state returned to
   one of them may already hold the other's move is left out. *)
Execute(c) ==
  LET p == PlayerOf[c] IN
  /\ at[c] = "view" /\ ~InRoom(c) /\ seen[c].line \in {"look", "read", "move"}
  /\ \/ /\ Visible(place[p])
        /\ \E v \in IF seen[c].line = "move"
                     THEN {w \in Exits[place[p]] : Visible(w)} ELSE {place[p]} :
             /\ place' = [place EXCEPT ![p] = v]
             /\ Goto(c, "persist", [seen[c] EXCEPT !.view = v])
     \/ Done(c) /\ UNCHANGED place
  /\ UNCHANGED <<world, stored, present, profile, reload, faults>>

SetPlayerState(c) ==
  /\ at[c] = "set"
  /\ place' = [place EXCEPT ![PlayerOf[c]] = seen[c].view]
  /\ Goto(c, "persist", seen[c])
  /\ UNCHANGED <<world, stored, present, profile, reload, faults>>

(* update_view changes a record there is and inserts none. *)
InsertedView(c, v) == [present EXCEPT ![c] = v]
UpdatedView(c, v) == [present EXCEPT ![c] = IF @ = None THEN None ELSE v]

NothingPersisted(c) == stored
Persisted(c) == [stored EXCEPT ![PlayerOf[c]] = seen[c].view]

PersistPlayerState(c) ==
  /\ at[c] = "persist"
  /\ stored' = Persisted(c)
  /\ unsaved' = unsaved \ {PlayerOf[c]}
  /\ Goto(c, "present", seen[c])
  /\ UNCHANGED <<world, place, present, profile, reload, unpaid>>

UpdateView(c) ==
  /\ at[c] = "present"
  /\ present' = UpdatedView(c, seen[c].view)
  /\ Done(c)
  /\ UNCHANGED <<world, place, stored, profile, reload, faults>>

(* /quit, a kick seen at the next input, an idle timeout, a lost connection;
   dropping the handler spawns the removal of its presence record. *)
Disconnect(c) ==
  /\ at[c] = "idle"
  /\ Goto(c, "leaving", Fresh)
  /\ UNCHANGED <<world, place, stored, present, profile, reload, faults>>

RemovePresence(c) ==
  /\ at[c] = "leaving"
  /\ present' = [present EXCEPT ![c] = None]
  /\ Goto(c, "gone", Fresh)
  /\ UNCHANGED <<world, place, stored, profile, reload, faults>>

---------------------------------------------------------------------------
(* An administrator's reload: reload_world_from_dir.  The files do not     *)
(* change while it runs.                                                   *)

Proceed(a, step, what) == reload' = [reload EXCEPT ![a] = [what EXCEPT !.at = step]]

(* A player stays where the new files, or the grid, still have the view. *)
Kept(v, f) == v \in f.views \union Grid
MergedDropping(p, f) == IF place[p] # None /\ Kept(place[p], f) THEN place[p] ELSE None
Merged(p, f) == IF place[p] = None \/ Kept(place[p], f) THEN place[p] ELSE Spawn

ReloadRuntime(a, f) ==
  /\ reload[a].at = "todo"
  /\ views' = f.views
  /\ place' = [p \in Players |-> Merged(p, f)]
  /\ Proceed(a, "disable", [Waiting EXCEPT !.files = f, !.rooms = f.rooms])
  /\ UNCHANGED <<enabled, cache, version, stored, present, profile, at, seen, faults>>

Disabled(a) == enabled \intersect reload[a].files.rooms
Upserted(a, r) == (enabled \ {r}) \union ({r} \intersect Opened(reload[a].files))

DisableRoomsExcept(a) ==
  /\ reload[a].at = "disable"
  /\ enabled' = Disabled(a)
  /\ Proceed(a, "upsert", reload[a])
  /\ UNCHANGED <<views, cache, version, place, stored, present, profile, at, seen, faults>>

UpsertRoom(a) ==
  /\ reload[a].at = "upsert"
  /\ \E r \in reload[a].rooms :
       /\ enabled' = Upserted(a, r)
       /\ Proceed(a, "invalidate", [reload[a] EXCEPT !.room = r, !.rooms = @ \ {r}])
  /\ UNCHANGED <<views, cache, version, place, stored, present, profile, at, seen, faults>>

InvalidateRoom(a) ==
  /\ reload[a].at = "invalidate"
  /\ cache' = [cache EXCEPT ![reload[a].room] = "unknown"]
  /\ Proceed(a, "upsert", [reload[a] EXCEPT !.room = None])
  /\ UNCHANGED <<views, enabled, version, place, stored, present, profile, at, seen, faults>>

SetAppConfig(a) ==
  /\ reload[a].at = "upsert" /\ reload[a].rooms = {}
  /\ version' = reload[a].files.version
  /\ Proceed(a, "clear", reload[a])
  /\ UNCHANGED <<views, enabled, cache, place, stored, present, profile, at, seen, faults>>

ClearRoomCache(a) ==
  /\ reload[a].at = "clear"
  /\ cache' = [r \in Rooms |-> "unknown"]
  /\ Proceed(a, "visits", reload[a])
  /\ UNCHANGED <<views, enabled, version, place, stored, present, profile, at, seen, faults>>

(* connection_views lists the records touched in the last 90 seconds: a
   connection that is handling a line is among them, another may be. *)
ConnectionViews(a) ==
  /\ reload[a].at = "visits"
  /\ \E idle \in SUBSET {c \in Connections : at[c] \in {"idle", "leaving"}} :
       Proceed(a, "visit", [reload[a] EXCEPT
         !.visits = {<<c, present[c]>> : c \in {c \in Connections \ idle : present[c] \in Rooms}}])
  /\ UNCHANGED <<world, place, stored, present, profile, at, seen, faults>>

(* The context of a connection's room, read and cached as for a session. *)
VisitContext(a) ==
  /\ reload[a].at = "visit"
  /\ \E visit \in reload[a].visits :
       LET v == visit[2] IN
       \/ /\ cache[v] # "unknown"
          /\ Proceed(a, "escape", [reload[a] EXCEPT !.context = cache[v], !.visit = visit])
          /\ UNCHANGED cache
       \/ /\ cache' = [cache EXCEPT ![v] = "unknown"]
          /\ Proceed(a, "cache", [reload[a] EXCEPT !.context = TableContext(v), !.visit = visit])
  /\ UNCHANGED <<views, enabled, version, place, stored, present, profile, at, seen, faults>>

CacheVisit(a) ==
  /\ reload[a].at = "cache"
  /\ cache' = [cache EXCEPT ![reload[a].visit[2]] = reload[a].context]
  /\ Proceed(a, "escape", reload[a])
  /\ UNCHANGED <<views, enabled, version, place, stored, present, profile, at, seen, faults>>

NextVisit(a) ==
  Proceed(a, "visit", [reload[a] EXCEPT !.visits = @ \ {reload[a].visit}, !.visit = None,
                                        !.context = "street"])

(* escape_closed_service_room_connection: the player, wherever it is now, is
   moved to the front of the room the connection was seen in. *)
EscapeClosedRoom(a) ==
  LET c == reload[a].visit[1]
      front == Front[reload[a].visit[2]] IN
  /\ reload[a].at = "escape"
  /\ IF reload[a].context = "closed" /\ present[c] # None /\ place[PlayerOf[c]] # front
     THEN Proceed(a, "set", reload[a])
     ELSE NextVisit(a)
  /\ UNCHANGED <<world, place, stored, present, profile, at, seen, faults>>

EscapeSetPlayerState(a) ==
  LET p == PlayerOf[reload[a].visit[1]] IN
  /\ reload[a].at = "set"
  /\ place' = [place EXCEPT ![p] = Front[reload[a].visit[2]]]
  /\ Proceed(a, "save", reload[a])
  /\ UNCHANGED <<world, stored, present, profile, at, seen, faults>>

EscapeSaved(a) ==
  [stored EXCEPT ![PlayerOf[reload[a].visit[1]]] = Front[reload[a].visit[2]]]

EscapeSavePlayerState(a) ==
  LET p == PlayerOf[reload[a].visit[1]] IN
  /\ reload[a].at = "save"
  /\ stored' = EscapeSaved(a)
  /\ unsaved' = unsaved \ {p}
  /\ Proceed(a, "update", reload[a])
  /\ UNCHANGED <<world, place, present, profile, at, seen, unpaid>>

EscapeUpdateView(a) ==
  LET c == reload[a].visit[1] IN
  /\ reload[a].at = "update"
  /\ present' = UpdatedView(c, Front[reload[a].visit[2]])
  /\ NextVisit(a)
  /\ UNCHANGED <<world, place, stored, profile, at, seen, faults>>

ReloadEnds(a) ==
  /\ reload[a].at = "visit" /\ reload[a].visits = {}
  /\ Proceed(a, "done", [Waiting EXCEPT !.at = "done"])
  /\ UNCHANGED <<world, place, stored, present, profile, at, seen, faults>>

---------------------------------------------------------------------------
(* A statement fails, or is done and only its answer is lost.  A login or a
   line ends its connection then, but for what is printed: the errors of
   observing, with the escape, and of saving what a command did, after which
   execute_runtime_command returns and the connection goes on. *)

Prints(c) == \/ at[c] = "observe" \/ seen[c].line = "escape"
             \/ at[c] = "persist" /\ seen[c].line # "relocate"

Breaks(c) ==
  \/ at[c] \in {"new"} \union LoginSteps /\ Goto(c, "gone", Fresh)
  \/ at[c] \in LineSteps /\ IF Prints(c) THEN Done(c) ELSE Goto(c, "leaving", Fresh)

ReadFails(c) ==
  /\ at[c] \in {"admission", "load", "context", "observe", "gate", "accept", "view"}
  /\ Breaks(c)
  /\ UNCHANGED <<world, place, stored, present, profile, reload, faults>>

SaveFails(c) ==
  /\ at[c] \in {"save", "persist"}
  /\ stored' \in {stored, Persisted(c)}
  /\ unsaved' = unsaved \union {PlayerOf[c]}
  /\ Breaks(c)
  /\ UNCHANGED <<world, place, present, profile, reload, unpaid>>

MarkFails(c) ==
  /\ at[c] = "mark"
  /\ read' \in {read, [read EXCEPT ![PlayerOf[c]] = seen[c].version]}
  /\ Breaks(c)
  /\ UNCHANGED <<world, place, stored, present, agreed, wallet, reload, faults>>

EnsureWalletFails(c) ==
  /\ at[c] = "new"
  /\ wallet' \in {wallet, wallet \union WalletsDue(c)}
  /\ Breaks(c)
  /\ UNCHANGED <<world, place, stored, present, read, agreed, reload, faults>>

(* Nobody tries again until the player logs in again. *)
Unprovided(c) == unpaid \union {d \in Connections : PlayerOf[d] = PlayerOf[c] /\ at[d] # "new"}

AdmitFails(c) ==
  /\ at[c] = "admit"
  /\ \/ UNCHANGED agreed
     \/ Admits(c) /\ agreed' = [agreed EXCEPT ![PlayerOf[c]] = seen[c].version]
  /\ unpaid' = Unprovided(c)
  /\ Breaks(c)
  /\ UNCHANGED <<world, place, stored, present, read, wallet, reload, unsaved>>

GrantFails(c) ==
  /\ at[c] = "grant"
  /\ wallet' \in {wallet, wallet \union {PlayerOf[c]}}
  /\ unpaid' = Unprovided(c)
  /\ Breaks(c)
  /\ UNCHANGED <<world, place, stored, present, read, agreed, reload, unsaved>>

(* A reload stops where it is; what it has replaced stays. *)
Stops(a) == Proceed(a, "done", [Waiting EXCEPT !.at = "done"])

RegistrationFails(a) ==
  /\ \/ reload[a].at = "disable" /\ enabled' \in {enabled, Disabled(a)}
     \/ /\ reload[a].at = "upsert"
        /\ \E r \in reload[a].rooms : enabled' \in {enabled, Upserted(a, r)}
  /\ Stops(a)
  /\ UNCHANGED <<views, cache, version, place, stored, present, profile, at, seen, faults>>

VisitFails(a) ==
  /\ reload[a].at = "visit" /\ reload[a].visits # {}
  /\ Stops(a)
  /\ UNCHANGED <<world, place, stored, present, profile, at, seen, faults>>

EscapeSaveFails(a) ==
  /\ reload[a].at = "save"
  /\ stored' \in {stored, EscapeSaved(a)}
  /\ unsaved' = unsaved \union {PlayerOf[reload[a].visit[1]]}
  /\ Stops(a)
  /\ UNCHANGED <<world, place, present, profile, at, seen, unpaid>>

---------------------------------------------------------------------------
(* The server stops anywhere and starts with the files as they are then. *)
Restart(f) ==
  /\ views' = f.views /\ enabled' = Opened(f) /\ version' = f.version
  /\ cache' = [r \in Rooms |-> "unknown"]
  /\ place' = [p \in Players |-> None]
  /\ present' = [c \in Connections |-> None]
  /\ at' = [c \in Connections |-> IF at[c] = "new" THEN "new" ELSE "gone"]
  /\ seen' = [c \in Connections |-> Fresh]
  /\ reload' = [a \in Admins |-> Waiting]
  /\ unsaved' = {} /\ unpaid' = {}
  /\ UNCHANGED <<stored, profile>>

Login(c) ==
  \/ EnsureWalletIfAdmitted(c) \/ PlayerAdmission(c) \/ LoadPlayerState(c)
  \/ SetOrCreatePlayer(c) \/ Arrive(c) \/ HoldAtAdmission(c) \/ SaveAtLogin(c)
  \/ MarkOnline(c)

(* What the server does on its own with a line it has. *)
Handle(c) ==
  \/ RoomContext(c) \/ FillCache(c) \/ Observe(c) \/ AppService(c) \/ Gate(c)
  \/ MarkAgreementRead(c) \/ AcceptAdmission(c) \/ AdmitPlayer(c)
  \/ EnsureWalletAndEnter(c) \/ Enter(c) \/ LeaveRoom(c) \/ AnswerLine(c) \/ Execute(c)
  \/ SetPlayerState(c) \/ PersistPlayerState(c) \/ UpdateView(c) \/ RemovePresence(c)

Reload(a) ==
  \/ \E f \in cast.files : ReloadRuntime(a, f)
  \/ DisableRoomsExcept(a) \/ UpsertRoom(a) \/ InvalidateRoom(a) \/ SetAppConfig(a)
  \/ ClearRoomCache(a) \/ ConnectionViews(a) \/ VisitContext(a) \/ CacheVisit(a)
  \/ EscapeClosedRoom(a) \/ EscapeSetPlayerState(a) \/ EscapeSavePlayerState(a)
  \/ EscapeUpdateView(a) \/ ReloadEnds(a)

Fails(c) ==
  \/ ReadFails(c) \/ SaveFails(c) \/ MarkFails(c) \/ EnsureWalletFails(c) \/ AdmitFails(c)
  \/ GrantFails(c)

ReloadFails(a) == RegistrationFails(a) \/ VisitFails(a) \/ EscapeSaveFails(a)

Next ==
  /\ \/ \E c \in cast.connections :
          \/ Login(c) \/ Handle(c) \/ Disconnect(c)
          \/ \E line \in cast.lines : Line(c, line)
     \/ \E a \in Admins : Reload(a)
     \/ \E c \in cast.connections \intersect cast.faulty : Fails(c)
     \/ \E a \in Admins \intersect cast.faulty : ReloadFails(a)
     \/ \E f \in cast.files : Restart(f)
  /\ UNCHANGED cast

Spec == Init /\ [][Next]_vars

---------------------------------------------------------------------------
Steps == {"new", "idle", "leaving", "gone"} \union LoginSteps \union LineSteps
LoggedIn(c) == at[c] \in LineSteps \union {"idle", "leaving"}

Seen == [line : AllLines \union {"relocate", "escape"}, view : Views \union {None},
         here : Views \union {None}, context : {"street", "open", "closed"},
         admitted : BOOLEAN, version : Agreements \union {None}]

Reloading ==
  [at : {"todo", "disable", "upsert", "invalidate", "clear", "visits", "visit", "cache",
         "escape", "set", "save", "update", "done"},
   files : Files \union {None}, rooms : SUBSET Rooms, room : Rooms \union {None},
   visits : SUBSET (Connections \X Rooms), visit : (Connections \X Rooms) \union {None},
   context : {"street", "open", "closed"}]

(* Every variable has its type, and the runtime knows the player of every
   connection that has finished its login, whatever a reload replaces. *)
TypeOK ==
  /\ views \in {f.views : f \in Files} /\ enabled \subseteq Rooms /\ version \in Agreements
  /\ place \in [Players -> Views \union {None}]
  /\ stored \in [Players -> Views \union {None}]
  /\ present \in [Connections -> Views \union {Pending, None}]
  /\ cache \in [Rooms -> {"unknown", "open", "closed"}]
  /\ read \in [Players -> Agreements \union {None}]
  /\ agreed \in [Players -> Agreements \union {None}]
  /\ wallet \subseteq Players
  /\ unsaved \subseteq Players /\ unpaid \subseteq Connections
  /\ at \in [Connections -> Steps]
  /\ seen \in [Connections -> Seen]
  /\ reload \in [Admins -> Reloading]
  /\ \A c \in Connections : LoggedIn(c) => place[PlayerOf[c]] # None

(* A player who has not agreed and has logged in is at the admission view,
   in the runtime and in the table: a second login does not put it anywhere
   else on its way, and no command, reload or restart gets past the gate.   *)
PendingStayAtTheGate ==
  \A c \in Connections : LET p == PlayerOf[c] IN
    LoggedIn(c) /\ agreed[p] = None => place[p] = Admission /\ stored[p] = Admission

(* The version a player is recorded to have agreed to is the one it has
   read last, though a reload changes the version and the player reads and
   agrees on two connections. *)
AgreementsWereRead ==
  [][\A p \in Players : agreed'[p] # agreed[p] => agreed'[p] = read[p]]_vars

(* A stop or an error between the agreement and the wallet is repaired by
   the next login: a player who has agreed and can type has its wallet,
   unless a connection is about to create it or failed to after this one had
   logged in. *)
AgreedPlayersHaveWallets ==
  \A c \in Connections :
    at[c] = "idle" /\ agreed[PlayerOf[c]] # None =>
      \/ PlayerOf[c] \in wallet
      \/ \E d \in Connections : PlayerOf[d] = PlayerOf[c] /\ at[d] = "grant"
      \/ c \in unpaid

(* A connection that has not logged in or is gone has no presence record:
   an administrator's reload that moves its player late brings none back. *)
GoneConnectionsLeaveNoRecord ==
  \A c \in Connections : at[c] \in {"new", "gone"} \union LoginSteps => present[c] = None

(* With one connection and no reload, what the runtime, the table and the
   presence registry say of the player agrees between two lines, unless the
   last save failed: the line goes on with what the runtime has, and the next
   save that does not fail makes all three agree again. *)
CopiesAgreeWhenAlone ==
  \A c \in Connections : LET p == PlayerOf[c] IN
    /\ at[c] = "idle"
    /\ \A d \in Connections \ {c} : PlayerOf[d] = p => at[d] = "new"
    /\ \A a \in Admins : reload[a].at = "todo"
    /\ p \notin unsaved
    => place[p] = stored[p] /\ present[c] \in {Pending, stored[p]}

(* reload.rs: players stay anchored when possible, those whose current view
   no longer exists are moved.  A service room that was open and is open in
   the new files exists, so its visitors would stay. *)
VisitorsOfOpenRoomsStay ==
  [][\A a \in Admins, f \in Files : \A p \in Players :
       ReloadRuntime(a, f) /\ place[p] \in enabled \intersect Opened(f)
         => place'[p] = place[p]]_vars
=============================================================================
