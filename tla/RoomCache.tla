----------------------------- MODULE RoomCache -----------------------------
(***************************************************************************)
(* What the SSH server remembers of the rooms: the context of a view, the  *)
(* binding of a parcel's view, and the bindings and parcels that front a   *)
(* street (RoomDirectoryCache, protocol/ssh/src/lib.rs).  A lookup asks    *)
(* one map after the other, each under its own lock, reads the database    *)
(* when all of them miss, and fills them on its way back; in between the   *)
(* rows change, the event of a change drops entries, and time does.        *)
(***************************************************************************)
EXTENDS Land

CONSTANT Lookers        \* lines that look up the context of a view

VARIABLES
    cache,      \* the entries: the rows, and whether an event came in between
    look,       \* a lookup: its view, the map it is at, the rows it brings back
    unsaid      \* parcels whose last change never led to an event

cacheVars == <<cache, look, unsaid>>

(* The maps a lookup goes through, and the entries it may fill. *)
Chain(view) == IF view = Street THEN <<"context", "bindings", "parcels">>
                                ELSE <<"context", "binding">>
Entries == {<<m, v>> : m \in {"context"}, v \in Views}
          \cup {<<"binding", p>> : p \in Parcels}
          \cup {<<"bindings", Street>>, <<"parcels", Street>>}

Shown(view) == IF view = Street THEN Parcels ELSE {view}
Rows(view)  == [p \in Shown(view) |-> land[p]]

Nothing == [rows |-> <<>>, raced |-> FALSE]
NoLook  == [view |-> Street, at |-> 0, found |-> FALSE, rows |-> <<>>, raced |-> FALSE]

RoomCacheInit == /\ cache = [k \in Entries |-> Nothing]
                 /\ look = [r \in Lookers |-> NoLook]
                 /\ unsaid = {}

EntryOf(r) == <<Chain(look[r].view)[look[r].at], look[r].view>>

(* room_context_for_view and what it calls. *)
Look(r, view) == /\ look[r] = NoLook
                 /\ look' = [look EXCEPT ![r].view = view, ![r].at = 1]
                 /\ UNCHANGED <<landVars, cache, unsaid>>

(* Back to the caller of this map, with rows. *)
Back(r, rows, raced) ==
    LET l == look[r]
    IN  look' = [look EXCEPT ![r] =
            IF l.at = 1 THEN NoLook
                        ELSE [l EXCEPT !.at = @ - 1, !.found = TRUE,
                                       !.rows = rows, !.raced = @ \/ raced]]

Get(r) ==
    /\ look[r].at \in DOMAIN Chain(look[r].view) /\ ~look[r].found
    /\ IF cache[EntryOf(r)] = Nothing
         THEN look' = [look EXCEPT ![r].at = @ + 1]
         ELSE Back(r, cache[EntryOf(r)].rows, cache[EntryOf(r)].raced)
    /\ UNCHANGED <<landVars, cache, unsaid>>

ReadRows(r) ==
    /\ look[r].at = Len(Chain(look[r].view)) + 1
    /\ Back(r, Rows(look[r].view), FALSE)
    /\ UNCHANGED <<landVars, cache, unsaid>>

Put(r) ==
    /\ look[r].found
    /\ cache' = [cache EXCEPT ![EntryOf(r)] =
                   [rows |-> look[r].rows, raced |-> look[r].raced]]
    /\ Back(r, look[r].rows, look[r].raced)
    /\ UNCHANGED <<landVars, unsaid>>

(* An entry older than thirty seconds is not used. *)
Expire(k) == /\ cache[k] # Nothing
             /\ cache' = [cache EXCEPT ![k] = Nothing]
             /\ UNCHANGED <<landVars, look, unsaid>>

-----------------------------------------------------------------------------
(* Entries are dropped under one lock; a lookup that holds rows of such an *)
(* entry brings back what was before.                                      *)
ForViewOnly(p) == {<<"binding", p>>, <<"context", p>>}     \* a mutant: not the front's
ForParcel(p) == {<<"binding", p>>, <<"bindings", Street>>, <<"parcels", Street>>,
                 <<"context", p>>, <<"context", Street>>}

Drop(keys) ==
    /\ cache' = [k \in Entries |-> IF k \in keys THEN Nothing ELSE cache[k]]
    /\ look' = [r \in Lookers |->
                  IF look[r].found /\ <<"context", look[r].view>> \in keys
                    THEN [look[r] EXCEPT !.raced = TRUE] ELSE look[r]]

Subject(s) == IF line[s].command[2] = "build" THEN line[s].view ELSE line[s].parcel

InvalidateForParcel(s) == /\ Invalidate(s)
                          /\ Drop(ForParcel(Subject(s)))
                          /\ unsaid' = unsaid \ {Subject(s)}

ClearRoomCache == /\ Drop(Entries)
                  /\ UNCHANGED <<landVars, unsaid>>

(* A step of a line.  One that ends it after a change, before the event,   *)
(* leaves the change unsaid.                                               *)
OwesEvent(s) == \E i \in DOMAIN todo[s] : todo[s][i] = "invalidate"
Started(s)   == todo[s] # Script(line[s].command, FALSE)

LineStep(s) == /\ Effects(s) \/ HangUp(s)
               /\ unsaid' = IF OwesEvent(s) /\ Started(s) /\ todo'[s] = <<>>
                              THEN unsaid \cup {Subject(s)} ELSE unsaid
               /\ UNCHANGED <<cache, look>>

LookStep(r, views) == \/ \E view \in views : Look(r, view)
                      \/ Get(r) \/ ReadRows(r) \/ Put(r)

CacheStep(views) == \/ \E r \in Lookers : LookStep(r, views)
                    \/ \E k \in Entries : Expire(k)
                    \/ ClearRoomCache

-----------------------------------------------------------------------------
RoomCacheTypeOK ==
    /\ \A k \in Entries : cache[k] = Nothing \/ cache[k].rows \in [Shown(k[2]) -> Plot]
    /\ \A r \in Lookers : look[r].at \in 0..4 /\ look[r].view \in Views

(* An entry that shows a parcel as it no longer is has an excuse: the      *)
(* change's event is on its way or was lost with its call, or a lookup     *)
(* filled the entry with rows it held while an event dropped the others.   *)
StaleOnlyIfRaced ==
    \A k \in Entries : cache[k] # Nothing /\ ~cache[k].raced =>
        \A p \in Shown(k[2]) :
            \/ cache[k].rows[p] = land[p]
            \/ p \in unsaid
            \/ \E s \in Shells : OwesEvent(s) /\ Started(s) /\ Subject(s) = p
=============================================================================
