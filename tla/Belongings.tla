----------------------------- MODULE Belongings -----------------------------
(***************************************************************************)
(* Things of the world files that players take (crates/runtime), and the   *)
(* inventories they come into.  A thing lies in a view of the runtime or   *)
(* is carried in a PlayerState; player_states keeps what was saved last.   *)
(*                                                                         *)
(* The runtime is behind a tokio RwLock: commands of different connections *)
(* are executed together under its read side, and only the locks of one    *)
(* player and one view order them; a login, a relocation and a reload take *)
(* the write side.  Whoever relocates a player reads its state, waits, and *)
(* writes it back as a whole.  A save may fail after the runtime changed,  *)
(* and a command's connection then prints the error and goes on.           *)
(***************************************************************************)
EXTENDS FiniteSets

CONSTANTS
  Players, Connections, PlayerOf,
  Casts,     \* the connections that come and the reload requests, of one
             \* behaviour and another
  Faulty,    \* connections whose saves may fail, a bound
  Things,    \* portable entities; others never move
  Ways,      \* the views of the files, and the generated ones beside them
  Room,      \* a service room, of which the runtime has no view
  Front,     \* the view it is entered from
  Spawn,     \* current_view of local_player
  Files,     \* versions of the world directory, see FilesAssumption
  Admins,    \* reload requests
  None

Views == Ways \union {Room}

(* A directory has things, each lying in one view or in none. *)
Directory == {f \in [things : SUBSET Things, lying : [Ways -> SUBSET Things]] :
                \A v, w \in Ways : /\ f.lying[v] \subseteq f.things
                                   /\ v # w => f.lying[v] \intersect f.lying[w] = {}}

ASSUME FilesAssumption ==
  /\ Casts \subseteq [here : SUBSET Connections, requests : SUBSET Admins]
  /\ Files \subseteq Directory /\ Room \notin Ways /\ {Front, Spawn} \subseteq Ways
  /\ PlayerOf \in [Connections -> Players]
  /\ Faulty \subseteq Connections
  /\ None \notin [view : Views, carried : SUBSET Things] \union Things \union Connections

VARIABLES
  files,     \* the directory the runtime was loaded from
  lying,     \* dropped_entities of the views
  body,      \* PlayerState of the players the runtime knows
  saved,     \* rows of player_states
  present,   \* view in the presence record of a connection
  at,        \* what a connection does next
  seen,      \* the PlayerState its handler holds
  reload,    \* what a reload does next
  before,    \* (history) what was had when the views were loaded, see Had
  kept,      \* (history) players a reload left with what they carried
  doubly,    \* (history) players two wrote of at a time
  unsaved    \* (history) what failed saves of a player held, until it is
             \* both carried and stored

history == <<before, kept, doubly, unsaved>>
vars == <<files, lying, body, saved, present, at, seen, reload, history>>

Body == [view : Views, carried : SUBSET Things]
Newcomer == [view |-> Spawn, carried |-> {}]
Waiting == [at |-> "todo", visits |-> {}, visit |-> None, body |-> None]
Over == [Waiting EXCEPT !.at = "visit"]

Init ==
  /\ files \in Files /\ lying = files.lying
  /\ body = [p \in Players |-> None] /\ saved = body /\ before = [p \in Players |-> {}]
  /\ present = [c \in Connections |-> None]
  /\ seen = present
  /\ \E cast \in Casts :
       /\ at = [c \in Connections |-> IF c \in cast.here THEN "new" ELSE "gone"]
       /\ reload = [a \in Admins |-> IF a \in cast.requests THEN Waiting ELSE Over]
  /\ kept = {} /\ doubly = {} /\ unsaved = before

CarriedBy(state) == IF state = None THEN {} ELSE state.carried

(* What a player carries by any copy of its state: the runtime's, the row, or
   one that a handler of a connection or a reload is about to write. *)
Had(p) == {t \in Things :
  \/ t \in CarriedBy(body[p]) \union CarriedBy(saved[p])
  \/ \E c \in Connections : PlayerOf[c] = p /\ t \in CarriedBy(seen[c])
  \/ \E a \in Admins : /\ reload[a].visit # None /\ PlayerOf[reload[a].visit] = p
                       /\ t \in CarriedBy(reload[a].body)}

Goto(c, step, state) ==
  /\ at' = [at EXCEPT ![c] = step]
  /\ seen' = [seen EXCEPT ![c] = state]

Online(c) == at[c] \notin {"new", "gone"}
(* The write side of the lock waits for the commands that are executed. *)
WriteLocked == \A c \in Connections : at[c] # "clone"

(* set_player_state takes what the state carries out of every view first. *)
LyingUntouched(state) == lying
LyingWithout(state) == [v \in Ways |-> lying[v] \ state.carried]

Set(p, state) ==
  /\ WriteLocked
  /\ lying' = LyingWithout(state)
  /\ body' = [body EXCEPT ![p] = state]
  /\ kept' = kept \ {p}

---------------------------------------------------------------------------
(* Login of an admitted player: the row, the runtime, the row again *)

LoadPlayerState(c) ==
  LET p == PlayerOf[c] IN
  /\ at[c] = "new"
  /\ Goto(c, "create", saved[p])
  /\ doubly' = IF \E d \in Connections : PlayerOf[d] = p /\ Online(d)
               THEN doubly \union {p} ELSE doubly
  /\ UNCHANGED <<files, lying, body, saved, present, reload, before, kept, unsaved>>

SetOrCreatePlayer(c) ==
  LET p == PlayerOf[c] IN
  /\ at[c] = "create"
  /\ \/ seen[c] # None /\ Set(p, seen[c])
     \/ seen[c] = None /\ body[p] = None /\ Set(p, Newcomer)
     \/ seen[c] = None /\ body[p] # None /\ WriteLocked /\ UNCHANGED <<lying, body, kept>>
  /\ Goto(c, "arrive", None)
  /\ UNCHANGED <<files, before, doubly, unsaved, saved, present, reload>>

Arrive(c) ==
  /\ at[c] = "arrive"
  /\ Goto(c, "save", body[PlayerOf[c]])
  /\ UNCHANGED <<files, history, lying, body, saved, present, reload>>

---------------------------------------------------------------------------
(* GameRuntime::execute, and the state RuntimeHandle::execute returns *)

(* The player's lock is held from reading its view on, the view's lock from
   the second look at what lies there. *)
TakesUnseen(p, t) == body[p].view \in Ways
Takes(p, t) == body[p].view \in Ways /\ t \in lying[body[p].view]

TakeEntity(c, t) ==
  LET p == PlayerOf[c] IN
  /\ at[c] = "idle"
  /\ t \in files.things /\ Takes(p, t)
  /\ lying' = [lying EXCEPT ![body[p].view] = @ \ {t}]
  /\ body' = [body EXCEPT ![p].carried = @ \union {t}]
  /\ Goto(c, "clone", None)
  /\ UNCHANGED <<files, history, saved, present, reload>>

MovePlayer(c, v) ==
  LET p == PlayerOf[c] IN
  /\ at[c] = "idle"
  /\ body[p].view \in Ways /\ v \in Ways \ {body[p].view}
  /\ body' = [body EXCEPT ![p].view = v]
  /\ Goto(c, "clone", None)
  /\ UNCHANGED <<files, history, lying, saved, present, reload>>

(* The locks are let go before the state is cloned: it may hold what another
   connection of the player did in between. *)
PlayerState(c) ==
  /\ at[c] = "clone"
  /\ Goto(c, "persist", body[PlayerOf[c]])
  /\ UNCHANGED <<files, history, lying, body, saved, present, reload>>

---------------------------------------------------------------------------
(* Entering and leaving a room: relocate_player_id_to_view *)

Relocate(c) ==
  LET here == body[PlayerOf[c]].view IN
  /\ at[c] = "idle" /\ here \in {Room, Front}
  /\ Goto(c, "set", [body[PlayerOf[c]] EXCEPT !.view = IF here = Room THEN Front ELSE Room])
  /\ UNCHANGED <<files, history, lying, body, saved, present, reload>>

SetPlayerState(c) ==
  /\ at[c] = "set"
  /\ Set(PlayerOf[c], seen[c])
  /\ Goto(c, "persist", seen[c])
  /\ UNCHANGED <<files, before, doubly, unsaved, saved, present, reload>>

SavedPlace(p, state) == [saved EXCEPT ![p] = [state EXCEPT !.carried = {}]]
SavedState(p, state) == [saved EXCEPT ![p] = state]

Save(p, state) ==
  /\ saved' = SavedState(p, state)
  /\ unsaved' = [unsaved EXCEPT ![p] = @ \ (state.carried \intersect CarriedBy(body[p]))]
FailToSave(p, state) ==
  /\ saved' = saved
  /\ unsaved' = [unsaved EXCEPT ![p] = @ \union (state.carried \ CarriedBy(saved[p]))]

SavePlayerState(c) ==
  /\ at[c] \in {"save", "persist"}
  /\ Save(PlayerOf[c], seen[c])
  /\ Goto(c, "present", seen[c])
  /\ UNCHANGED <<files, before, kept, doubly, lying, body, present, reload>>

(* The statement fails, or only its answer is lost, and the presence stays:
   a login and the entering of a room end with the connection; after a
   command, or when the player was led out of a closed room, the error is
   printed and the next line may come. *)
SaveFails(c) ==
  /\ at[c] \in {"save", "persist"} /\ c \in Faulty
  /\ Save(PlayerOf[c], seen[c]) \/ FailToSave(PlayerOf[c], seen[c])
  /\ Goto(c, IF at[c] = "save" THEN "gone"
             ELSE IF seen[c].view = Room THEN "leaving" ELSE "idle", None)
  /\ UNCHANGED <<files, before, kept, doubly, lying, body, present, reload>>

UpdateView(c) ==
  /\ at[c] = "present"
  /\ present' = [present EXCEPT ![c] = seen[c].view]
  /\ Goto(c, "idle", None)
  /\ UNCHANGED <<files, history, lying, body, saved, reload>>

Disconnect(c) ==
  /\ at[c] = "idle"
  /\ Goto(c, "leaving", None)
  /\ UNCHANGED <<files, history, lying, body, saved, present, reload>>

RemovePresence(c) ==
  /\ at[c] = "leaving"
  /\ present' = [present EXCEPT ![c] = None]
  /\ Goto(c, "gone", None)
  /\ UNCHANGED <<files, history, lying, body, saved, reload>>

---------------------------------------------------------------------------
(* A reload: new views, with what the new files put there; the players with
   what of theirs the new files still have.  Then the visitors of a room that
   the new files closed are led to its front, by a state read before. *)

Proceed(a, step, visits, c, state) ==
  reload' = [reload EXCEPT ![a] = [at |-> step, visits |-> visits, visit |-> c, body |-> state]]
NextVisit(a) == Proceed(a, "visit", reload[a].visits \ {reload[a].visit}, None, None)

Merged(p, f) ==
  IF body[p] = None THEN None
  ELSE [view |-> IF body[p].view \in Ways THEN body[p].view ELSE Spawn,
        carried |-> body[p].carried \intersect f.things]

ReloadRuntime(a, f) ==
  /\ reload[a].at = "todo"
  /\ WriteLocked
  /\ files' = f /\ lying' = f.lying
  /\ body' = [p \in Players |-> Merged(p, f)]
  /\ kept' = {p \in Players : CarriedBy(body'[p]) # {}}
  /\ Proceed(a, "visits", {}, None, None)
  /\ UNCHANGED <<saved, present, at, seen, doubly, unsaved>>
  /\ before' = [p \in Players |-> Had(p)']

(* Those whose presence, touched of late, is in the room, if it was closed. *)
ConnectionViews(a) ==
  /\ reload[a].at = "visits"
  /\ \E visits \in SUBSET {c \in Connections : present[c] = Room} :
       Proceed(a, "visit", visits, None, None)
  /\ UNCHANGED <<files, history, lying, body, saved, present, at, seen>>

EscapeClosedRoom(a, c) ==
  LET r == reload[a]
      state == body[PlayerOf[c]] IN
  /\ r.at = "visit" /\ c \in r.visits
  /\ IF present[c] = None \/ state.view = Front
     THEN Proceed(a, "visit", r.visits \ {c}, None, None) /\ UNCHANGED doubly
     ELSE /\ Proceed(a, "set", r.visits, c, [state EXCEPT !.view = Front])
          /\ doubly' = doubly \union {PlayerOf[c]}
  /\ UNCHANGED <<files, before, kept, unsaved, lying, body, saved, present, at, seen>>

EscapeSetPlayerState(a) ==
  LET r == reload[a] IN
  /\ r.at = "set"
  /\ Set(PlayerOf[r.visit], r.body)
  /\ Proceed(a, "save", r.visits, r.visit, r.body)
  /\ UNCHANGED <<files, before, doubly, unsaved, saved, present, at, seen>>

EscapeSavePlayerState(a) ==
  LET r == reload[a] IN
  /\ r.at = "save"
  /\ Save(PlayerOf[r.visit], r.body)
  /\ Proceed(a, "update", r.visits, r.visit, r.body)
  /\ UNCHANGED <<files, before, kept, doubly, lying, body, present, at, seen>>

(* A save that fails ends the reload: the other visitors stay. *)
EscapeSaveFails(a) ==
  LET r == reload[a] IN
  /\ r.at = "save" /\ r.visit \in Faulty
  /\ Save(PlayerOf[r.visit], r.body) \/ FailToSave(PlayerOf[r.visit], r.body)
  /\ Proceed(a, "visit", {}, None, None)
  /\ UNCHANGED <<files, before, kept, doubly, lying, body, present, at, seen>>

EscapeUpdateView(a) ==
  LET c == reload[a].visit IN
  /\ reload[a].at = "update"
  /\ present' = [present EXCEPT ![c] = IF @ = None THEN None ELSE Front]
  /\ NextVisit(a)
  /\ UNCHANGED <<files, history, lying, body, saved, at, seen>>

---------------------------------------------------------------------------
(* The server stops anywhere; the next one has new views and no players. *)
Restart(f) ==
  /\ files' = f /\ lying' = f.lying
  /\ body' = [p \in Players |-> None]
  /\ present' = [c \in Connections |-> None] /\ seen' = present'
  /\ at' = [c \in Connections |-> IF at[c] = "new" THEN "new" ELSE "gone"]
  /\ reload' = [a \in Admins |-> IF reload[a].at = "todo" THEN Waiting ELSE Over]
  /\ kept' = {} /\ doubly' = {} /\ unsaved' = [p \in Players |-> {}]
  /\ UNCHANGED saved
  /\ before' = [p \in Players |-> Had(p)']

Next ==
  \/ \E c \in Connections :
       \/ LoadPlayerState(c) \/ SetOrCreatePlayer(c) \/ Arrive(c)
       \/ \E t \in Things : TakeEntity(c, t)
       \/ \E v \in Ways : MovePlayer(c, v)
       \/ PlayerState(c) \/ Relocate(c) \/ SetPlayerState(c)
       \/ SavePlayerState(c) \/ SaveFails(c) \/ UpdateView(c) \/ Disconnect(c) \/ RemovePresence(c)
  \/ \E a \in Admins :
       \/ \E f \in Files : ReloadRuntime(a, f)
       \/ ConnectionViews(a)
       \/ \E c \in Connections : EscapeClosedRoom(a, c)
       \/ EscapeSetPlayerState(a) \/ EscapeSavePlayerState(a)
       \/ EscapeSaveFails(a) \/ EscapeUpdateView(a)
  \/ \E f \in Files : Restart(f)

Spec == Init /\ [][Next]_vars

---------------------------------------------------------------------------
Carried(p) == CarriedBy(body[p])
Lying(t) == \E v \in Ways : t \in lying[v]

TypeOK ==
  /\ files \in Files /\ lying \in [Ways -> SUBSET Things]
  /\ body \in [Players -> Body \union {None}] /\ saved \in [Players -> Body \union {None}]
  /\ present \in [Connections -> Views \union {None}]
  /\ at \in [Connections -> {"new", "create", "arrive", "save", "idle", "clone", "set",
                             "persist", "present", "leaving", "gone"}]
  /\ seen \in [Connections -> Body \union {None}]
  /\ reload \in [Admins -> [at : {"todo", "visits", "visit", "set", "save", "update"},
                            visits : SUBSET Connections, visit : Connections \union {None}, body : Body \union {None}]]
  /\ {before, unsaved} \subseteq [Players -> SUBSET Things]
  /\ kept \subseteq Players /\ doubly \subseteq Players
  /\ \A c \in Connections : at[c] \notin {"new", "create", "gone"} => body[PlayerOf[c]] # None

(* A thing has one place, whatever row its player came with, though commands
   are executed together: it lies in no view while it is carried, and of two
   players who carry it one had it when the views were loaded.  Only a reload
   puts it into a view again, and only until the player's state is next set:
   the new views are those of the files, the inventory stays. *)
OnePlace ==
  \A p \in Players : \A t \in Carried(p) :
    /\ Lying(t) => p \in kept
    /\ \A q \in Players \ {p} : t \in Carried(q) => t \in before[p] \union before[q]

(* Nothing is lost between a view and an inventory: what the files have lying
   somewhere lies there or is carried, unless a save of a player that had it
   failed and none has stored it since while the player still had it (a login
   in between brings the old row), or two wrote of a player at a time,
   connections or a reload that leads the player out of a closed room, of
   which one may have read its state before the other took the thing. *)
LostOnlyToTwo ==
  doubly = {} =>
    \A v \in Ways : \A t \in files.lying[v] :
      Lying(t) \/ \E p \in Players : t \in Carried(p) \union unsaved[p]
=============================================================================
