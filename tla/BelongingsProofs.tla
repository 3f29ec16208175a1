-------------------------- MODULE BelongingsProofs --------------------------
(* The place of things, for any players, connections, things, views, files *)
(* and reloads of Belongings.                                              *)
EXTENDS Belongings, TLAPS

Steps     == {"new", "create", "arrive", "save", "idle", "clone", "set", "persist", "present",
              "leaving", "gone"}
Visiting  == {"todo", "visits", "visit", "set", "save", "update"}
Writing   == {"save", "set", "persist", "present"}    \* a handler holds a state
Ahead     == {"clone", "persist"}                     \* the row may lack what was taken
Escaping  == {"set", "save", "update"}                \* a reload leads a visitor out

(* Whoever writes a state holds one, of a player the runtime knows. *)
RowsOK == /\ files \in Files /\ lying \in [Ways -> SUBSET Things]
          /\ body \in [Players -> Body \cup {None}] /\ saved \in [Players -> Body \cup {None}]
          /\ before \in [Players -> SUBSET Things] /\ kept \subseteq Players /\ doubly \subseteq Players
          /\ unsaved \in [Players -> SUBSET Things]
PresenceOK == /\ present \in [Connections -> Views \cup {None}]
              /\ \A c \in Connections : present[c] # None => body[PlayerOf[c]] # None
HandsOK == /\ at \in [Connections -> Steps] /\ seen \in [Connections -> Body \cup {None}]
           /\ \A c \in Connections : at[c] \notin {"new", "create", "gone"} => body[PlayerOf[c]] # None
           /\ \A c \in Connections : at[c] \in Writing => seen[c] # None
ReloadOK == /\ reload \in [Admins -> [at : Visiting, visits : SUBSET Connections,
                                      visit : Connections \cup {None}, body : Body \cup {None}]]
            /\ \A a \in Admins : reload[a].at \in Escaping =>
                 reload[a].visit # None /\ reload[a].body # None

TypeInv == RowsOK /\ PresenceOK /\ HandsOK /\ ReloadOK

(* A thing lies in one view, and not while it is carried, reloads apart. *)
PlaceInv ==
  /\ \A v, w \in Ways : v # w => lying[v] \cap lying[w] = {}
  /\ \A p \in Players : \A t \in Carried(p) : Lying(t) => p \in kept

(* What a player has by any copy of its state was had at the load of the   *)
(* views, or taken out of one since, by this player alone.                 *)
HadInv ==
  /\ \A p \in Players : \A t \in Had(p) : Lying(t) => t \in before[p]
  /\ \A p, q \in Players : p # q => Had(p) \cap Had(q) \subseteq before[p] \cup before[q]

(* While one writes of a player at a time, what is about to be set has     *)
(* what the player carries, and so has the row between two commands, but   *)
(* for what a failed save held.                                            *)
Single == \A c, d \in Connections : PlayerOf[c] = PlayerOf[d] /\ Online(c) /\ Online(d) => c = d
Current(c) ==
  /\ at[c] \in {"create", "set", "save", "persist"} =>
       Carried(PlayerOf[c]) \subseteq CarriedBy(seen[c]) \cup unsaved[PlayerOf[c]]
  /\ at[c] = "create" => CarriedBy(seen[c]) \subseteq CarriedBy(saved[PlayerOf[c]])
RowHas(p) ==
  (\A c \in Connections : PlayerOf[c] = p => at[c] \notin Ahead) =>
    Carried(p) \subseteq CarriedBy(saved[p]) \cup unsaved[p]
Orderly == /\ Single
           /\ \A c \in Connections : Current(c)
           /\ \A p \in Players : RowHas(p)

LossInv == /\ \A a \in Admins : reload[a].at \in Escaping => doubly # {}
           /\ doubly = {} => Orderly
           /\ LostOnlyToTwo

IInv == TypeInv /\ PlaceInv /\ HadInv /\ LossInv

---------------------------------------------------------------------------
(* What the constants are, and what a state is. *)

LEMMA Constants ==
  /\ None \notin Body /\ None \notin Connections /\ None \notin Things
  /\ PlayerOf \in [Connections -> Players] /\ {Front, Spawn} \subseteq Views /\ Room \in Views
  /\ Ways \subseteq Views /\ Newcomer \in Body /\ Newcomer.carried = {}
BY FilesAssumption DEF FilesAssumption, Body, Views, Newcomer

LEMMA FilesAre ==
  ASSUME NEW f \in Files
  PROVE  /\ f.things \subseteq Things /\ f.lying \in [Ways -> SUBSET Things]
         /\ \A v, w \in Ways : v # w => f.lying[v] \cap f.lying[w] = {}
BY FilesAssumption DEF FilesAssumption, Directory

LEMMA Carrying ==
  /\ CarriedBy(None) = {}
  /\ \A state \in Body : CarriedBy(state) = state.carried /\ state.carried \subseteq Things
BY Constants DEF CarriedBy, Body

LEMMA Parts == TypeInv => TypeOK
BY DEF TypeInv, TypeOK, RowsOK, PresenceOK, HandsOK, ReloadOK, Steps, Visiting

(* A known player stays known until the server stops. *)
Known == \A p \in Players : body[p] # None => body'[p] # None

LEMMA StayKnown ==
  ASSUME TypeInv, Known
  PROVE  /\ UNCHANGED present => PresenceOK'
         /\ UNCHANGED <<at, seen>> => HandsOK'
         /\ UNCHANGED reload => ReloadOK'
BY Constants DEF TypeInv, PresenceOK, HandsOK, ReloadOK, Known

LEMMA GotoTyped ==
  ASSUME TypeInv, Known, NEW c \in Connections, NEW step \in Steps, NEW state \in Body \cup {None},
         Goto(c, step, state), step \in Writing => state # None,
         step \notin {"new", "create", "gone"} => body'[PlayerOf[c]] # None
  PROVE  /\ HandsOK' /\ at'[c] = step /\ seen'[c] = state
         /\ \A d \in Connections \ {c} : at'[d] = at[d] /\ seen'[d] = seen[d]
<1>1. /\ at' \in [Connections -> Steps] /\ seen' \in [Connections -> Body \cup {None}]
      /\ at'[c] = step /\ seen'[c] = state
      /\ \A d \in Connections \ {c} : at'[d] = at[d] /\ seen'[d] = seen[d]
  BY DEF Goto, TypeInv, HandsOK
<1> QED
  BY <1>1, Constants DEF TypeInv, HandsOK, Known

LEMMA ProceedTyped ==
  ASSUME TypeInv, NEW a \in Admins, NEW step \in Visiting, NEW visits \in SUBSET Connections,
         NEW c \in Connections \cup {None}, NEW state \in Body \cup {None},
         Proceed(a, step, visits, c, state), step \in Escaping => (c # None /\ state # None)
  PROVE  /\ ReloadOK'
         /\ reload'[a] = [at |-> step, visits |-> visits, visit |-> c, body |-> state]
         /\ \A b \in Admins \ {a} : reload'[b] = reload[b]
<1>1. /\ reload'[a] = [at |-> step, visits |-> visits, visit |-> c, body |-> state]
      /\ \A b \in Admins \ {a} : reload'[b] = reload[b]
      /\ reload' \in [Admins -> [at : Visiting, visits : SUBSET Connections,
                                 visit : Connections \cup {None}, body : Body \cup {None}]]
  BY DEF Proceed, TypeInv, ReloadOK
<1> QED
  BY <1>1 DEF TypeInv, ReloadOK

LEMMA SetTyped ==
  ASSUME TypeInv, NEW p \in Players, NEW state \in Body, Set(p, state)
  PROVE  /\ lying' \in [Ways -> SUBSET Things] /\ body' \in [Players -> Body \cup {None}]
         /\ kept' = kept \ {p} /\ body'[p] = state /\ (\A q \in Players \ {p} : body'[q] = body[q])
         /\ \A v \in Ways : lying'[v] = lying[v] \ state.carried
         /\ Known
BY Constants DEF Set, LyingWithout, TypeInv, RowsOK, Known

---------------------------------------------------------------------------
(* What keeps things in one place. *)

LEMMA SetPlaces ==
  ASSUME TypeInv, PlaceInv, NEW p \in Players, NEW state \in Body, Set(p, state)
  PROVE  PlaceInv'
<1>1. /\ kept' = kept \ {p} /\ body'[p] = state /\ (\A q \in Players \ {p} : body'[q] = body[q])
      /\ \A v \in Ways : lying'[v] = lying[v] \ state.carried
  BY SetTyped
<1>2. \A v, w \in Ways : v # w => lying'[v] \cap lying'[w] = {}
  BY <1>1 DEF PlaceInv
<1>3. ASSUME NEW q \in Players, NEW t \in Carried(q)', Lying(t)'
      PROVE  q \in kept'
  <2>1. Lying(t) /\ t \notin state.carried
    BY <1>1, <1>3 DEF Lying
  <2>2. q # p
    BY <1>1, <1>3, <2>1, Carrying DEF Carried
  <2> QED
    BY <1>1, <1>3, <2>1, <2>2 DEF PlaceInv, Carried
<1> QED
  BY <1>2, <1>3 DEF PlaceInv

LEMMA PlacesUnchanged ==
  ASSUME PlaceInv, UNCHANGED <<lying, body, kept>>
  PROVE  PlaceInv'
BY DEF PlaceInv, Carried, Lying

(* What a player has by each of the copies. *)
LEMMA HadParts ==
  ASSUME TypeInv
  PROVE  /\ \A p \in Players : CarriedBy(body[p]) \subseteq Had(p) /\ CarriedBy(saved[p]) \subseteq Had(p)
         /\ \A c \in Connections : CarriedBy(seen[c]) \subseteq Had(PlayerOf[c])
         /\ \A a \in Admins : reload[a].visit # None =>
              CarriedBy(reload[a].body) \subseteq Had(PlayerOf[reload[a].visit])
<1>1. \A state \in Body \cup {None} : CarriedBy(state) \subseteq Things
  BY Carrying
<1>2. \A p \in Players : CarriedBy(body[p]) \subseteq Had(p) /\ CarriedBy(saved[p]) \subseteq Had(p)
  BY <1>1 DEF Had, TypeInv, RowsOK
<1>3. \A c \in Connections : CarriedBy(seen[c]) \subseteq Had(PlayerOf[c])
  BY <1>1 DEF Had, TypeInv, HandsOK
<1>4. \A a \in Admins : reload[a].body \in Body \cup {None}
  BY DEF TypeInv, ReloadOK
<1>5. \A a \in Admins : reload[a].visit # None =>
         CarriedBy(reload[a].body) \subseteq Had(PlayerOf[reload[a].visit])
  BY <1>1, <1>4 DEF Had
<1> QED
  BY <1>2, <1>3, <1>5

LEMMA HadOnly ==
  ASSUME NEW M, NEW p \in Players,
         CarriedBy(body'[p]) \subseteq M, CarriedBy(saved'[p]) \subseteq M,
         \A c \in Connections : PlayerOf[c] = p => CarriedBy(seen'[c]) \subseteq M,
         \A a \in Admins : reload'[a].visit # None /\ PlayerOf[reload'[a].visit] = p =>
           CarriedBy(reload'[a].body) \subseteq M
  PROVE  Had(p)' \subseteq M
BY DEF Had

LEMMA HadKept ==
  ASSUME HadInv, \A p \in Players : Had(p)' \subseteq Had(p), UNCHANGED before,
         \A v \in Ways : lying'[v] \subseteq lying[v]
  PROVE  HadInv'
BY DEF HadInv, Lying

(* A handler's step that writes or holds a copy that there is. *)
LEMMA CommandHad ==
  ASSUME TypeInv, HadInv, NEW c \in Connections, NEW state,
         seen'[c] = state, \A d \in Connections \ {c} : seen'[d] = seen[d],
         CarriedBy(state) \subseteq Had(PlayerOf[c]), UNCHANGED <<reload, before>>,
         \A p \in Players : CarriedBy(body'[p]) \subseteq Had(p) /\ CarriedBy(saved'[p]) \subseteq Had(p),
         \A v \in Ways : lying'[v] \subseteq lying[v]
  PROVE  HadInv'
<1>1. \A p \in Players : Had(p)' \subseteq Had(p)
  BY HadParts, HadOnly
<1> QED
  BY <1>1, HadKept

LEMMA VisitHad ==
  ASSUME TypeInv, HadInv, NEW a \in Admins, NEW c \in Connections \cup {None}, NEW state,
         reload'[a].visit = c, reload'[a].body = state,
         \A b \in Admins \ {a} : reload'[b] = reload[b],
         c # None => CarriedBy(state) \subseteq Had(PlayerOf[c]), UNCHANGED <<seen, before>>,
         \A p \in Players : CarriedBy(body'[p]) \subseteq Had(p) /\ CarriedBy(saved'[p]) \subseteq Had(p),
         \A v \in Ways : lying'[v] \subseteq lying[v]
  PROVE  HadInv'
<1>1. ASSUME NEW p \in Players PROVE Had(p)' \subseteq Had(p)
  BY HadParts, HadOnly, Constants
<1> QED
  BY <1>1, HadKept

---------------------------------------------------------------------------
(* What loses nothing. *)

(* The player of a connection that is not just taking is in its row. *)
LEMMA RowIsNew ==
  ASSUME LossInv, doubly = {}, NEW c \in Connections, at[c] \notin Ahead,
         \A d \in Connections \ {c} : PlayerOf[d] = PlayerOf[c] => ~Online(d)
  PROVE  Carried(PlayerOf[c]) \subseteq CarriedBy(saved[PlayerOf[c]]) \cup unsaved[PlayerOf[c]]
<1>1. \A d \in Connections : PlayerOf[d] = PlayerOf[c] => at[d] \notin Ahead
  BY DEF Online, Ahead
<1> QED
  BY <1>1, Constants DEF LossInv, Orderly, RowHas

LEMMA OnlyOne ==
  ASSUME LossInv, doubly = {}, NEW c \in Connections, Online(c)
  PROVE  \A d \in Connections \ {c} : PlayerOf[d] = PlayerOf[c] => ~Online(d)
BY DEF LossInv, Orderly, Single

LEMMA CommandLoss ==
  ASSUME TypeInv, LossInv, UNCHANGED <<reload, files>>, doubly \subseteq doubly',
         NEW c \in Connections, NEW p \in Players, p = PlayerOf[c],
         NEW step, NEW state, at'[c] = step, seen'[c] = state,
         \A d \in Connections \ {c} : at'[d] = at[d] /\ seen'[d] = seen[d],
         doubly' = {} => \A d \in Connections \ {c} : PlayerOf[d] = p => ~Online(d),
         \A q \in Players \ {p} :
           body'[q] = body[q] /\ saved'[q] = saved[q] /\ unsaved'[q] = unsaved[q],
         doubly' = {} =>
           /\ step \in {"create", "set", "save", "persist"} =>
                CarriedBy(body'[p]) \subseteq CarriedBy(state) \cup unsaved'[p]
           /\ step = "create" => CarriedBy(state) \subseteq CarriedBy(saved'[p])
           /\ step \notin Ahead => CarriedBy(body'[p]) \subseteq CarriedBy(saved'[p]) \cup unsaved'[p]
           /\ \A t \in Things : Lying(t) \/ t \in Carried(p) \cup unsaved[p] =>
                                  Lying(t)' \/ t \in CarriedBy(body'[p]) \cup unsaved'[p]
  PROVE  LossInv'
<1>1. \A a \in Admins : reload'[a].at \in Escaping => doubly' # {}
  BY DEF LossInv
<1>2. CASE doubly' # {}
  BY <1>1, <1>2 DEF LossInv, LostOnlyToTwo
<1>3. CASE doubly' = {}
  <2>1. doubly = {} /\ Orderly
    BY <1>3 DEF LossInv
  <2>2. \A d \in Connections \ {c} : PlayerOf[d] = p => at'[d] = at[d] /\ ~Online(d)
    BY <1>3
  <2>3. Single'
    BY <2>1, <2>2 DEF Orderly, Single, Online
  <2>4. ASSUME NEW d \in Connections PROVE Current(d)'
    <3>1. CASE d = c
      BY <1>3, <3>1 DEF Current, Carried
    <3>2. CASE d # c /\ PlayerOf[d] = p
      BY <2>2, <3>2 DEF Current, Online
    <3>3. CASE d # c /\ PlayerOf[d] # p
      BY <2>1, <3>3, Constants DEF Orderly, Current, Carried
    <3> QED
      BY <3>1, <3>2, <3>3
  <2>5. ASSUME NEW q \in Players PROVE RowHas(q)'
    <3>1. CASE q = p
      BY <1>3, <3>1 DEF RowHas, Carried
    <3>2. CASE q # p
      BY <2>1, <3>2 DEF Orderly, RowHas, Carried
    <3> QED
      BY <3>1, <3>2
  <2>6. ASSUME NEW v \in Ways, NEW t \in files'.lying[v]
        PROVE  Lying(t)' \/ \E q \in Players : t \in Carried(q)' \cup unsaved'[q]
    <3>1. t \in Things /\ t \in files.lying[v]
      BY <2>6, FilesAre DEF TypeInv, RowsOK
    <3>2. Lying(t) \/ \E q \in Players : t \in Carried(q) \cup unsaved[q]
      BY <2>1, <3>1 DEF LossInv, LostOnlyToTwo
    <3>3. CASE Lying(t) \/ t \in Carried(p) \cup unsaved[p]
      BY <1>3, <3>1, <3>3 DEF Carried
    <3>4. ASSUME NEW q \in Players \ {p}, t \in Carried(q) \cup unsaved[q]
          PROVE  t \in Carried(q)' \cup unsaved'[q]
      BY <3>4 DEF Carried
    <3> QED
      BY <3>2, <3>3, <3>4
  <2>7. LostOnlyToTwo'
    BY <2>6 DEF LostOnlyToTwo
  <2> QED
    BY <1>1, <2>3, <2>4, <2>5, <2>7 DEF LossInv, Orderly
<1> QED
  BY <1>2, <1>3

LEMMA TwoMayLose ==
  ASSUME doubly' # {}
  PROVE  LossInv'
BY DEF LossInv, LostOnlyToTwo

(* A reload writes no row and moves no handler. *)
LEMMA OrderlyStays ==
  ASSUME TypeInv, LossInv, doubly = {}, UNCHANGED <<saved, at, seen, unsaved>>,
         \A p \in Players : Carried(p)' \subseteq Carried(p)
  PROVE  Orderly'
<1>1. Orderly
  BY DEF LossInv
<1>2. Single'
  BY <1>1 DEF Orderly, Single, Online
<1>3. \A c \in Connections : Current(c)'
  BY <1>1, Constants DEF Orderly, Current
<1>4. \A p \in Players : RowHas(p)'
  BY <1>1 DEF Orderly, RowHas
<1> QED
  BY <1>2, <1>3, <1>4 DEF Orderly

---------------------------------------------------------------------------
(* The steps of a connection. *)

(* A step that reads, and changes no row, view or body. *)
LEMMA ReadKeeps ==
  ASSUME IInv, NEW c \in Connections, NEW p \in Players, p = PlayerOf[c],
         NEW step \in Steps, NEW state \in Body \cup {None}, Goto(c, step, state),
         UNCHANGED <<files, lying, body, saved, reload, before, kept, unsaved>>,
         doubly \subseteq doubly', doubly' \subseteq Players, PresenceOK',
         step \in Writing => state # None,
         step \notin {"new", "create", "gone"} => body[p] # None,
         CarriedBy(state) \subseteq Had(p),
         doubly' = {} => \A d \in Connections \ {c} : PlayerOf[d] = p => ~Online(d),
         doubly' = {} =>
           /\ step \in {"create", "set", "save", "persist"} =>
                Carried(p) \subseteq CarriedBy(state) \cup unsaved[p]
           /\ step = "create" => CarriedBy(state) \subseteq CarriedBy(saved[p])
           /\ step \notin Ahead => Carried(p) \subseteq CarriedBy(saved[p]) \cup unsaved[p]
  PROVE  IInv'
<1>1. Known /\ TypeInv /\ PlaceInv /\ HadInv /\ LossInv
  BY DEF Known, IInv
<1>2. /\ HandsOK' /\ at'[c] = step /\ seen'[c] = state
      /\ \A d \in Connections \ {c} : at'[d] = at[d] /\ seen'[d] = seen[d]
  BY <1>1, GotoTyped
<1>3. TypeInv'
  BY <1>1, <1>2, StayKnown DEF TypeInv, RowsOK
<1>4. PlaceInv'
  BY <1>1, PlacesUnchanged
<1>5. HadInv'
  BY <1>1, <1>2, HadParts, CommandHad
<1>6. \A t : Lying(t)' = Lying(t)
  BY DEF Lying
<1>7. Carried(p)' = Carried(p)
  BY DEF Carried
<1>8. LossInv'
  BY <1>1, <1>2, <1>6, <1>7, CommandLoss DEF Carried
<1> QED
  BY <1>3, <1>4, <1>5, <1>8 DEF IInv

(* A step that sets the state of the player in the runtime. *)
LEMMA SetKeeps ==
  ASSUME IInv, NEW c \in Connections, NEW p \in Players, p = PlayerOf[c], Online(c),
         NEW step \in {"arrive", "persist"}, NEW state \in Body \cup {None}, Goto(c, step, state),
         NEW new \in Body, Set(p, new), UNCHANGED <<files, saved, present, reload, before, doubly, unsaved>>,
         step \in Writing => state = new, CarriedBy(new) \subseteq Had(p),
         state \in {None, new},
         doubly = {} => /\ Carried(p) \subseteq CarriedBy(new) \cup unsaved[p]
                        /\ step = "arrive" => CarriedBy(new) \subseteq CarriedBy(saved[p])
  PROVE  IInv'
<1>1. TypeInv /\ PlaceInv /\ HadInv /\ LossInv /\ step \in Steps
  BY DEF IInv, Steps
<1>2. /\ lying' \in [Ways -> SUBSET Things] /\ body' \in [Players -> Body \cup {None}]
      /\ kept' = kept \ {p} /\ body'[p] = new /\ (\A q \in Players \ {p} : body'[q] = body[q])
      /\ \A v \in Ways : lying'[v] = lying[v] \ new.carried
      /\ Known
  BY <1>1, SetTyped
<1>3. /\ HandsOK' /\ at'[c] = step /\ seen'[c] = state
      /\ \A d \in Connections \ {c} : at'[d] = at[d] /\ seen'[d] = seen[d]
  BY <1>1, <1>2, Constants, GotoTyped
<1>4. RowsOK'
  BY <1>1, <1>2 DEF TypeInv, RowsOK
<1>5. TypeInv'
  BY <1>1, <1>2, <1>3, <1>4, StayKnown DEF TypeInv
<1>6. PlaceInv'
  BY <1>1, SetPlaces
<1>7. CarriedBy(state) \subseteq Had(p)
  BY Carrying
<1>8. HadInv'
  <2>1. \A q \in Players : CarriedBy(body'[q]) \subseteq Had(q) /\ CarriedBy(saved'[q]) \subseteq Had(q)
    BY <1>1, <1>2, HadParts
  <2> QED
    BY <1>1, <1>2, <1>3, <1>7, <2>1, CommandHad
<1>9. ASSUME NEW t \in Things, doubly = {}, Lying(t) \/ t \in Carried(p) \cup unsaved[p]
      PROVE  Lying(t)' \/ t \in CarriedBy(body'[p]) \cup unsaved'[p]
  <2>1. Carried(p)' = new.carried /\ CarriedBy(new) = new.carried
    BY <1>2, Carrying DEF Carried
  <2> QED
    BY <1>2, <1>9, <2>1 DEF Lying
<1>10. LossInv'
  BY <1>1, <1>2, <1>3, <1>9, OnlyOne, CommandLoss DEF Carried, Ahead, Writing
<1> QED
  BY <1>5, <1>6, <1>8, <1>10 DEF IInv

(* What a connection's place says of its player. *)
LEMMA Standing ==
  ASSUME IInv, NEW c \in Connections
  PROVE  /\ TypeInv /\ PlaceInv /\ HadInv /\ LossInv /\ PlayerOf[c] \in Players
         /\ body[PlayerOf[c]] \in Body \cup {None} /\ saved[PlayerOf[c]] \in Body \cup {None}
         /\ seen[c] \in Body \cup {None}
         /\ at[c] \notin {"new", "create", "gone"} => body[PlayerOf[c]] \in Body
         /\ at[c] \in Writing => seen[c] \in Body
         /\ doubly \subseteq Players
BY Constants DEF IInv, TypeInv, RowsOK, HandsOK

LEMMA LoadKeeps ==
  ASSUME IInv, NEW c \in Connections, LoadPlayerState(c)
  PROVE  IInv'
<1> DEFINE p == PlayerOf[c]
<1>1. /\ at[c] = "new" /\ Goto(c, "create", saved[p]) /\ PlayerOf[c] \in Players
      /\ UNCHANGED <<files, lying, body, saved, present, reload, before, kept, unsaved>>
  BY Standing DEF LoadPlayerState
<1>2. /\ doubly \subseteq doubly' /\ doubly' \subseteq Players
      /\ doubly' = {} => doubly = {} /\ \A d \in Connections : PlayerOf[d] = p => ~Online(d)
  BY Standing DEF LoadPlayerState
<1>3. CarriedBy(saved[p]) \subseteq Had(p)
  BY <1>1, Standing, HadParts
<1>4. doubly' = {} => Carried(p) \subseteq CarriedBy(saved[p]) \cup unsaved[p]
  BY <1>1, <1>2, Standing, RowIsNew DEF Ahead
<1>5. PresenceOK'
  BY <1>1, Standing, StayKnown DEF Known
<1>6. "create" \in Steps /\ "create" \notin Writing
  BY DEF Steps, Writing
<1> HIDE DEF p
<1> QED
  BY <1>1, <1>2, <1>3, <1>4, <1>5, <1>6, Standing, ReadKeeps DEF p

LEMMA CreateKeeps ==
  ASSUME IInv, NEW c \in Connections, SetOrCreatePlayer(c)
  PROVE  IInv'
<1> DEFINE p == PlayerOf[c]
<1>1. /\ at[c] = "create" /\ Goto(c, "arrive", None) /\ p \in Players
      /\ UNCHANGED <<files, before, doubly, unsaved, saved, present, reload>>
      /\ Online(c) /\ "arrive" \in Steps /\ "arrive" \notin Writing /\ "create" \notin Ahead
  BY Standing DEF SetOrCreatePlayer, Online, Steps, Writing, Ahead
<1>2. doubly = {} => /\ Carried(p) \subseteq CarriedBy(seen[c]) \cup unsaved[p]
                     /\ CarriedBy(seen[c]) \subseteq CarriedBy(saved[p])
  BY <1>1, Standing DEF LossInv, Orderly, Current
<1>3. CASE seen[c] # None /\ Set(p, seen[c])
  <2>1. CarriedBy(seen[c]) \subseteq Had(p) /\ seen[c] \in Body
    BY <1>3, Standing, HadParts
  <2> QED
    BY <1>1, <1>2, <1>3, <2>1, SetKeeps
<1>4. CASE seen[c] = None /\ body[p] = None /\ Set(p, Newcomer)
  <2>1. CarriedBy(Newcomer) = {} /\ Carried(p) = {} /\ Newcomer \in Body
    BY <1>4, Constants, Carrying DEF Carried
  <2> QED
    BY <1>1, <1>4, <2>1, SetKeeps
<1>5. CASE seen[c] = None /\ body[p] # None /\ UNCHANGED <<lying, body, kept>>
  <2>1. PresenceOK'
    BY <1>1, <1>5, Standing, StayKnown DEF Known
  <2>2. CarriedBy(None) = {}
    BY Carrying
  <2>3. doubly = {} => \A d \in Connections \ {c} : PlayerOf[d] = p => ~Online(d)
    BY <1>1, Standing, OnlyOne
  <2> QED
    BY <1>1, <1>2, <1>5, <2>1, <2>2, <2>3, Standing, ReadKeeps
<1> QED
  BY <1>3, <1>4, <1>5 DEF SetOrCreatePlayer

(* Reading the runtime: at a login, after a command, before a relocation. *)
LEMMA LooksKeep ==
  ASSUME IInv, NEW c \in Connections, Arrive(c) \/ PlayerState(c) \/ Relocate(c)
  PROVE  IInv'
<1> DEFINE p == PlayerOf[c]
<1>1. PICK step \in {"save", "persist", "set"}, state \in Body :
         /\ Goto(c, step, state) /\ CarriedBy(state) = Carried(p)
         /\ step = "persist" \/ at[c] \notin Ahead
  <2>1. body[p] \in Body
    BY Standing DEF Arrive, PlayerState, Relocate
  <2>2. \A v \in Views : /\ [body[p] EXCEPT !.view = v] \in Body
                         /\ [body[p] EXCEPT !.view = v].carried = body[p].carried
    BY <2>1 DEF Body
  <2>3. CASE Arrive(c)
    BY <2>1, <2>3 DEF Arrive, Carried, Ahead
  <2>4. CASE PlayerState(c)
    BY <2>1, <2>4 DEF PlayerState, Carried
  <2>5. CASE Relocate(c)
    <3>1. PICK v \in {Front, Room} : Goto(c, "set", [body[p] EXCEPT !.view = v])
      BY <2>5 DEF Relocate
    <3>2. v \in Views
      BY Constants
    <3>3. at[c] \notin Ahead
      BY <2>5 DEF Relocate, Ahead
    <3> QED
      BY <2>1, <2>2, <3>1, <3>2, <3>3, Carrying DEF Carried
  <2> QED
    BY <2>3, <2>4, <2>5
<1>2. /\ UNCHANGED <<files, lying, body, saved, present, reload, before, kept, doubly, unsaved>>
      /\ Online(c) /\ body[p] # None /\ p \in Players
  BY Standing, Constants DEF Arrive, PlayerState, Relocate, Online, history
<1>3. /\ step \in Steps /\ state # None /\ step # "create"
      /\ CarriedBy(state) \subseteq Had(p)
  BY <1>1, Standing, HadParts, Constants DEF Steps, Carried
<1>4. PresenceOK'
  BY <1>2, Standing, StayKnown DEF Known
<1>5. doubly = {} => /\ \A d \in Connections \ {c} : PlayerOf[d] = p => ~Online(d)
                     /\ step \notin Ahead => Carried(p) \subseteq CarriedBy(saved[p]) \cup unsaved[p]
  BY <1>1, <1>2, Standing, OnlyOne, RowIsNew DEF Ahead
<1> HIDE DEF p
<1> QED
  BY <1>1, <1>2, <1>3, <1>4, <1>5, Standing, ReadKeeps DEF p

(* The presence record follows, and goes. *)
LEMMA PresenceKeeps ==
  ASSUME IInv, NEW c \in Connections, UpdateView(c) \/ Disconnect(c) \/ RemovePresence(c)
  PROVE  IInv'
<1> DEFINE p == PlayerOf[c]
<1>1. PICK step \in {"idle", "leaving", "gone"} : Goto(c, step, None)
  BY DEF UpdateView, Disconnect, RemovePresence
<1>2. /\ UNCHANGED <<files, lying, body, saved, reload, before, kept, doubly, unsaved>>
      /\ Online(c) /\ at[c] \notin Ahead /\ body[p] # None /\ p \in Players
  BY Standing, Constants DEF UpdateView, Disconnect, RemovePresence, Online, Ahead, history
<1>3. PresenceOK'
  <2>1. CASE UpdateView(c)
    <3>1. seen[c].view \in Views
      BY <2>1, Standing DEF UpdateView, Writing, Body
    <3> QED
      BY <2>1, <1>2, <3>1, Standing DEF UpdateView, PresenceOK, TypeInv
  <2>2. CASE Disconnect(c)
    BY <2>2, <1>2, Standing, StayKnown DEF Disconnect, Known
  <2>3. CASE RemovePresence(c)
    BY <2>3, <1>2, Standing DEF RemovePresence, PresenceOK, TypeInv
  <2> QED
    BY <2>1, <2>2, <2>3
<1>4. step \in Steps /\ step \notin Writing /\ step # "create" /\ CarriedBy(None) = {}
  BY Carrying DEF Steps, Writing
<1>5. doubly = {} => /\ \A d \in Connections \ {c} : PlayerOf[d] = p => ~Online(d)
                     /\ Carried(p) \subseteq CarriedBy(saved[p]) \cup unsaved[p]
  BY <1>2, Standing, OnlyOne, RowIsNew
<1> HIDE DEF p
<1> QED
  BY <1>1, <1>2, <1>3, <1>4, <1>5, Standing, ReadKeeps DEF p

LEMMA SetStateKeeps ==
  ASSUME IInv, NEW c \in Connections, SetPlayerState(c)
  PROVE  IInv'
<1> DEFINE p == PlayerOf[c]
<1>1. /\ at[c] = "set" /\ Set(p, seen[c]) /\ Goto(c, "persist", seen[c]) /\ p \in Players
      /\ UNCHANGED <<files, before, doubly, unsaved, saved, present, reload>>
      /\ Online(c) /\ seen[c] \in Body
  BY Standing DEF SetPlayerState, Online, Writing
<1>2. doubly = {} => Carried(p) \subseteq CarriedBy(seen[c]) \cup unsaved[p]
  BY <1>1, Standing DEF LossInv, Orderly, Current
<1>3. CarriedBy(seen[c]) \subseteq Had(p)
  BY Standing, HadParts
<1> QED
  BY <1>1, <1>2, <1>3, SetKeeps

(* A save leaves the row with the state, or with what it was, and what the *)
(* state has is in the row or counts as unsaved.                           *)
LEMMA Saving ==
  ASSUME TypeInv, NEW p \in Players, NEW state \in Body, Save(p, state) \/ FailToSave(p, state)
  PROVE  /\ saved' \in [Players -> Body \cup {None}] /\ saved'[p] \in {saved[p], state}
         /\ unsaved' \in [Players -> SUBSET Things]
         /\ \A q \in Players \ {p} : saved'[q] = saved[q] /\ unsaved'[q] = unsaved[q]
         /\ state.carried \cup unsaved[p] \subseteq CarriedBy(saved'[p]) \cup unsaved'[p]
         /\ unsaved[p] \subseteq CarriedBy(body[p]) \cup unsaved'[p]
<1>1. /\ saved \in [Players -> Body \cup {None}] /\ unsaved \in [Players -> SUBSET Things]
      /\ CarriedBy(state) = state.carried /\ state.carried \subseteq Things
  BY Carrying DEF TypeInv, RowsOK
<1>2. CASE Save(p, state)
  BY <1>1, <1>2 DEF Save, SavedState
<1>3. CASE FailToSave(p, state)
  BY <1>1, <1>3 DEF FailToSave
<1> QED
  BY <1>2, <1>3

LEMMA SaveKeeps ==
  ASSUME IInv, NEW c \in Connections, SavePlayerState(c) \/ SaveFails(c)
  PROVE  IInv'
<1> DEFINE p == PlayerOf[c]
<1>1. PICK step \in {"present", "gone", "leaving", "idle"}, state \in {seen[c], None} :
         Goto(c, step, state) /\ (step = "present" => state = seen[c])
  BY DEF SavePlayerState, SaveFails
<1>2. /\ at[c] \in {"save", "persist"} /\ p \in Players
      /\ UNCHANGED <<files, lying, body, present, reload, before, kept, doubly>>
      /\ Online(c) /\ seen[c] \in Body /\ body[p] # None
      /\ Save(p, seen[c]) \/ FailToSave(p, seen[c])
  BY Standing, Constants DEF SavePlayerState, SaveFails, Online, Writing
<1>3. /\ saved' \in [Players -> Body \cup {None}] /\ saved'[p] \in {saved[p], seen[c]}
      /\ unsaved' \in [Players -> SUBSET Things]
      /\ \A q \in Players \ {p} : saved'[q] = saved[q] /\ unsaved'[q] = unsaved[q]
      /\ seen[c].carried \cup unsaved[p] \subseteq CarriedBy(saved'[p]) \cup unsaved'[p]
      /\ unsaved[p] \subseteq Carried(p) \cup unsaved'[p]
  BY <1>2, Standing, Saving DEF Carried
<1>4. /\ step \in Steps /\ state \in Body \cup {None}
      /\ step \in Writing => state # None
  <2>1. seen[c] # None
    BY <1>2, Constants
  <2> QED
    BY <1>1, <1>2, <2>1 DEF Steps, Writing
<1>5. Known /\ body'[p] # None
  BY <1>2 DEF Known
<1>6. /\ HandsOK' /\ at'[c] = step /\ seen'[c] = state
      /\ \A d \in Connections \ {c} : at'[d] = at[d] /\ seen'[d] = seen[d]
  BY <1>1, <1>2, <1>4, <1>5, Standing, GotoTyped
<1>7. TypeInv'
  BY <1>2, <1>3, <1>5, <1>6, Standing, StayKnown DEF TypeInv, RowsOK
<1>8. PlaceInv'
  BY <1>2, Standing, PlacesUnchanged
<1>9. CarriedBy(seen[c]) \subseteq Had(p) /\ CarriedBy(state) \subseteq Had(p)
  BY Standing, HadParts, Carrying
<1>10. \A q \in Players : CarriedBy(body'[q]) \subseteq Had(q) /\ CarriedBy(saved'[q]) \subseteq Had(q)
  BY <1>2, <1>3, <1>9, Standing, HadParts
<1>11. HadInv'
  BY <1>2, <1>6, <1>9, <1>10, Standing, CommandHad
<1>12. doubly = {} => Carried(p) \subseteq CarriedBy(saved'[p]) \cup unsaved'[p]
  BY <1>2, <1>3, Standing, Carrying DEF LossInv, Orderly, Current
<1>13. (\A t : Lying(t)' = Lying(t)) /\ CarriedBy(body'[p]) = Carried(p)
  BY <1>2 DEF Lying, Carried
<1>14. /\ doubly' = {} => \A t \in Things : Lying(t) \/ t \in Carried(p) \cup unsaved[p] =>
             Lying(t)' \/ t \in CarriedBy(body'[p]) \cup unsaved'[p]
       /\ step \notin {"create", "set", "save", "persist"}
  <2>1. step \notin {"create", "set", "save", "persist"}
    BY <1>1
  <2> QED
    BY <2>1, <1>3, <1>13
<1>15. doubly' = {} => \A d \in Connections \ {c} : PlayerOf[d] = p => ~Online(d)
  BY <1>2, Standing, OnlyOne
<1>16. LossInv'
  BY <1>2, <1>3, <1>6, <1>12, <1>13, <1>14, <1>15, Standing, CommandLoss
<1> QED
  BY <1>7, <1>8, <1>11, <1>16 DEF IInv

(* A command is executed: the player moves, or takes what lies before it. *)
LEMMA MoveKeeps ==
  ASSUME IInv, NEW c \in Connections, NEW v \in Ways, MovePlayer(c, v)
  PROVE  IInv'
<1> DEFINE p == PlayerOf[c]
<1>1. /\ at[c] = "idle" /\ Goto(c, "clone", None) /\ p \in Players /\ Online(c) /\ body[p] \in Body
      /\ UNCHANGED <<files, lying, saved, present, reload, before, kept, doubly, unsaved>>
      /\ body' = [body EXCEPT ![p].view = v] /\ "clone" \in Steps /\ "clone" \notin Writing
  BY Standing DEF MovePlayer, Online, Steps, Writing, history
<1>2. /\ [body[p] EXCEPT !.view = v] \in Body /\ v \in Views
      /\ [body[p] EXCEPT !.view = v].carried = body[p].carried
  BY <1>1, Constants DEF Body
<1>3. /\ body' \in [Players -> Body \cup {None}] /\ body'[p] \in Body
      /\ \A q \in Players : CarriedBy(body'[q]) = CarriedBy(body[q])
      /\ \A q \in Players \ {p} : body'[q] = body[q]
  <2>1. body'[p] = [body[p] EXCEPT !.view = v] /\ (\A q \in Players \ {p} : body'[q] = body[q])
    BY <1>1, Standing DEF TypeInv, RowsOK
  <2>2. CarriedBy(body'[p]) = CarriedBy(body[p])
    BY <1>1, <1>2, <2>1, Carrying
  <2>3. body' \in [Players -> Body \cup {None}]
    BY <1>1, <1>2, Standing DEF TypeInv, RowsOK
  <2> QED
    BY <1>2, <2>1, <2>2, <2>3
<1>4. Known
  BY <1>3, Constants DEF Known
<1>5. /\ HandsOK' /\ at'[c] = "clone" /\ seen'[c] = None
      /\ \A d \in Connections \ {c} : at'[d] = at[d] /\ seen'[d] = seen[d]
  BY <1>1, <1>3, <1>4, Standing, Constants, GotoTyped
<1>6. TypeInv'
  BY <1>1, <1>3, <1>4, <1>5, Standing, StayKnown DEF TypeInv, RowsOK
<1>7. (\A t : Lying(t)' = Lying(t)) /\ (\A q \in Players : Carried(q)' = Carried(q))
  BY <1>1, <1>3 DEF Lying, Carried
<1>8. PlaceInv'
  BY <1>1, <1>7, Standing DEF PlaceInv
<1>9. \A q \in Players : CarriedBy(body'[q]) \subseteq Had(q) /\ CarriedBy(saved'[q]) \subseteq Had(q)
  BY <1>1, <1>3, Standing, HadParts
<1>10. CarriedBy(None) = {}
  BY Carrying
<1>11. HadInv'
  BY <1>1, <1>5, <1>9, <1>10, Standing, CommandHad
<1>12. \A u \in Things : Lying(u) \/ u \in Carried(p) \cup unsaved[p] =>
                          Lying(u)' \/ u \in CarriedBy(body'[p]) \cup unsaved'[p]
  BY <1>1, <1>7 DEF Carried
<1>13. LossInv'
  BY <1>1, <1>3, <1>5, <1>12, Standing, OnlyOne, CommandLoss DEF Ahead
<1> QED
  BY <1>6, <1>8, <1>11, <1>13 DEF IInv

LEMMA TakeKeeps ==
  ASSUME IInv, NEW c \in Connections, NEW t \in Things, TakeEntity(c, t)
  PROVE  IInv'
<1> DEFINE p == PlayerOf[c]
           here == body[p].view
           new  == [body[p] EXCEPT !.carried = @ \cup {t}]
<1>1. /\ at[c] = "idle" /\ Goto(c, "clone", None) /\ p \in Players /\ Online(c) /\ body[p] \in Body
      /\ UNCHANGED <<files, saved, present, reload, before, kept, doubly, unsaved>>
      /\ here \in Ways /\ t \in lying[here]
      /\ lying' = [lying EXCEPT ![here] = @ \ {t}]
      /\ body' = [body EXCEPT ![p].carried = @ \cup {t}]
      /\ "clone" \in Steps /\ "clone" \notin Writing
  BY Standing DEF TakeEntity, Takes, Online, Steps, Writing, history
<1>2. new \in Body /\ new.carried = body[p].carried \cup {t}
  BY <1>1 DEF Body
<1>3. /\ body' \in [Players -> Body \cup {None}] /\ body'[p] = new
      /\ \A q \in Players \ {p} : body'[q] = body[q]
      /\ lying' \in [Ways -> SUBSET Things]
      /\ \A v \in Ways : lying'[v] = IF v = here THEN lying[v] \ {t} ELSE lying[v]
  BY <1>1, <1>2, Standing DEF TypeInv, RowsOK
<1>4. /\ Carried(p)' = Carried(p) \cup {t}
      /\ \A q \in Players \ {p} : Carried(q)' = Carried(q)
  BY <1>1, <1>2, <1>3, Carrying DEF Carried
<1>5. /\ ~Lying(t)' /\ Lying(t)
      /\ \A u : u # t => Lying(u)' = Lying(u)
  BY <1>1, <1>3, Standing DEF Lying, PlaceInv
<1>6. Known /\ body'[p] # None
  BY <1>2, <1>3, Constants DEF Known
<1> HIDE DEF new, here
<1>7. /\ HandsOK' /\ at'[c] = "clone" /\ seen'[c] = None
      /\ \A d \in Connections \ {c} : at'[d] = at[d] /\ seen'[d] = seen[d]
  BY <1>1, <1>2, <1>3, <1>6, Standing, Constants, GotoTyped
<1>8. TypeInv'
  BY <1>1, <1>3, <1>6, <1>7, Standing, StayKnown DEF TypeInv, RowsOK
<1>9. PlaceInv'
  <2>1. \A v, w \in Ways : v # w => lying'[v] \cap lying'[w] = {}
    BY <1>3, Standing DEF PlaceInv
  <2>2. \A q \in Players : \A u \in Carried(q)' : Lying(u)' => q \in kept'
    BY <1>1, <1>4, <1>5, Standing DEF PlaceInv
  <2> QED
    BY <2>1, <2>2 DEF PlaceInv
<1>10. HadInv'
  <2>1. /\ \A q \in Players \ {p} : Had(q)' \subseteq Had(q)
        /\ Had(p)' \subseteq Had(p) \cup {t}
    <3>1. CarriedBy(None) = {}
      BY Carrying
    <3>2. \A q \in Players \ {p} : Had(q)' \subseteq Had(q)
      BY <1>1, <1>3, <1>7, <3>1, Standing, HadParts, HadOnly
    <3>3. CarriedBy(body'[p]) \subseteq Had(p) \cup {t}
      BY <1>1, <1>4, Standing, HadParts DEF Carried
    <3>4. /\ CarriedBy(saved'[p]) \subseteq Had(p) \cup {t}
          /\ \A d \in Connections : PlayerOf[d] = p => CarriedBy(seen'[d]) \subseteq Had(p) \cup {t}
      BY <1>1, <1>7, <3>1, Standing, HadParts
    <3>5. \A a \in Admins : reload'[a].visit # None /\ PlayerOf[reload'[a].visit] = p =>
             CarriedBy(reload'[a].body) \subseteq Had(p) \cup {t}
      BY <1>1, Standing, HadParts
    <3>6. Had(p)' \subseteq Had(p) \cup {t}
      BY <1>1, <3>3, <3>4, <3>5, HadOnly
    <3> QED
      BY <3>2, <3>6
  <2>2. \A q \in Players \ {p} : t \in Had(q) => t \in before[q]
    BY <1>5, Standing DEF HadInv
  <2>3. \A q \in Players : \A u \in Had(q)' : Lying(u)' => u \in before'[q]
    BY <1>1, <1>5, <2>1, Standing DEF HadInv
  <2>4. ASSUME NEW q \in Players, NEW r \in Players, q # r, NEW u \in Had(q)' \cap Had(r)'
        PROVE  u \in before'[q] \cup before'[r]
    <3>1. CASE u \in Had(q) \cap Had(r)
      BY <1>1, <2>4, <3>1, Standing DEF HadInv
    <3>2. CASE u \notin Had(q) \cap Had(r)
      BY <1>1, <2>1, <2>2, <2>4, <3>2
    <3> QED
      BY <3>1, <3>2
  <2> QED
    BY <2>3, <2>4 DEF HadInv
<1>11. \A u \in Things : Lying(u) \/ u \in Carried(p) \cup unsaved[p] =>
                          Lying(u)' \/ u \in CarriedBy(body'[p]) \cup unsaved'[p]
  BY <1>1, <1>4, <1>5 DEF Carried
<1>12. LossInv'
  BY <1>1, <1>3, <1>7, <1>11, Standing, OnlyOne, CommandLoss DEF Ahead
<1> QED
  BY <1>8, <1>9, <1>10, <1>12 DEF IInv

---------------------------------------------------------------------------
(* The steps of a reload, and the stop of the server. *)

LEMMA ReloadKeeps ==
  ASSUME IInv, NEW a \in Admins, NEW f \in Files, ReloadRuntime(a, f)
  PROVE  IInv'
<1>1. /\ files' = f /\ lying' = f.lying /\ body' = [p \in Players |-> Merged(p, f)]
      /\ kept' = {p \in Players : CarriedBy(body'[p]) # {}}
      /\ Proceed(a, "visits", {}, None, None)
      /\ UNCHANGED <<saved, present, at, seen, doubly, unsaved>>
      /\ before' = [p \in Players |-> Had(p)']
  BY DEF ReloadRuntime
<1>2. TypeInv /\ LossInv
  BY DEF IInv
<1>3. ASSUME NEW p \in Players
      PROVE  /\ body'[p] \in Body \cup {None} /\ (body[p] # None => body'[p] # None)
             /\ CarriedBy(body'[p]) \subseteq CarriedBy(body[p])
  <2>1. CASE body[p] = None
    BY <1>1, <2>1 DEF Merged
  <2>2. CASE body[p] # None
    <3>1. body[p] \in Body
      BY <1>2, <2>2 DEF TypeInv, RowsOK
    <3>2. body'[p] \in Body /\ body'[p].carried = body[p].carried \cap f.things
      BY <1>1, <2>2, <3>1, Constants DEF Merged, Body
    <3> QED
      BY <3>1, <3>2, Constants, Carrying
  <2> QED
    BY <2>1, <2>2
<1>4. Known
  BY <1>3 DEF Known
<1>5. /\ ReloadOK' /\ reload'[a] = [at |-> "visits", visits |-> {}, visit |-> None, body |-> None]
      /\ \A b \in Admins \ {a} : reload'[b] = reload[b]
  <2>1. /\ "visits" \in Visiting /\ "visits" \notin Escaping /\ {} \in SUBSET Connections
        /\ None \in Connections \cup {None} /\ None \in Body \cup {None}
    BY DEF Visiting, Escaping
  <2> QED
    BY <1>1, <1>2, <2>1, ProceedTyped
<1>6. TypeInv'
  <2>1. \A p \in Players : Had(p)' \subseteq Things
    BY DEF Had
  <2>2. RowsOK'
    BY <1>1, <1>2, <1>3, <2>1, FilesAre DEF TypeInv, RowsOK
  <2> QED
    BY <1>1, <1>2, <1>4, <1>5, <2>2, StayKnown DEF TypeInv
<1>7. PlaceInv'
  BY <1>1, FilesAre DEF PlaceInv, Carried
<1>8. HadInv'
  BY <1>1 DEF HadInv
<1>9. LossInv'
  <2>1. \A b \in Admins : reload'[b].at \in Escaping => doubly' # {}
    BY <1>1, <1>2, <1>5 DEF LossInv, Escaping
  <2>2. doubly' = {} => Orderly'
    BY <1>1, <1>2, <1>3, OrderlyStays DEF Carried
  <2>3. LostOnlyToTwo'
    BY <1>1 DEF LostOnlyToTwo, Lying
  <2> QED
    BY <2>1, <2>2, <2>3 DEF LossInv
<1> QED
  BY <1>6, <1>7, <1>8, <1>9 DEF IInv

(* What of a visit changes no row: who is to be visited, and the presence. *)
LEMMA VisitKeeps ==
  ASSUME IInv, NEW a \in Admins, NEW step \in Visiting, NEW visits \in SUBSET Connections,
         NEW c \in Connections \cup {None}, NEW state \in Body \cup {None},
         Proceed(a, step, visits, c, state), step \in Escaping => (c # None /\ state # None),
         UNCHANGED <<files, lying, body, saved, at, seen, before, kept, unsaved>>, PresenceOK',
         doubly \subseteq doubly', doubly' \subseteq Players, step \in Escaping => doubly' # {},
         c # None => CarriedBy(state) \subseteq Had(PlayerOf[c])
  PROVE  IInv'
<1>1. TypeInv /\ PlaceInv /\ HadInv /\ LossInv /\ Known
  BY DEF IInv, Known
<1>2. /\ ReloadOK' /\ reload'[a] = [at |-> step, visits |-> visits, visit |-> c, body |-> state]
      /\ \A b \in Admins \ {a} : reload'[b] = reload[b]
  BY <1>1, ProceedTyped
<1>3. TypeInv'
  BY <1>1, <1>2, StayKnown DEF TypeInv, RowsOK
<1>4. PlaceInv'
  BY <1>1, PlacesUnchanged
<1>5. HadInv'
  BY <1>1, <1>2, HadParts, VisitHad
<1>6. LossInv'
  <2>1. \A b \in Admins : reload'[b].at \in Escaping => doubly' # {}
    BY <1>1, <1>2 DEF LossInv
  <2>2. doubly' = {} => Orderly'
    BY <1>1, OrderlyStays DEF Carried
  <2>3. LostOnlyToTwo'
    BY <1>1 DEF LossInv, LostOnlyToTwo, Lying, Carried
  <2> QED
    BY <2>1, <2>2, <2>3 DEF LossInv
<1> QED
  BY <1>3, <1>4, <1>5, <1>6 DEF IInv

LEMMA ConnectionViewsKeeps ==
  ASSUME IInv, NEW a \in Admins, ConnectionViews(a)
  PROVE  IInv'
<1>1. PICK visits \in SUBSET Connections : Proceed(a, "visit", visits, None, None)
  BY DEF ConnectionViews
<1>2. /\ UNCHANGED <<files, lying, body, saved, at, seen, before, kept, doubly, present, unsaved>>
      /\ "visit" \in Visiting /\ "visit" \notin Escaping /\ doubly \subseteq Players /\ TypeInv
  BY DEF ConnectionViews, history, Visiting, Escaping, IInv, TypeInv, RowsOK
<1>3. PresenceOK'
  BY <1>2, StayKnown DEF Known
<1> QED
  BY <1>1, <1>2, <1>3, VisitKeeps

LEMMA EscapeKeeps ==
  ASSUME IInv, NEW a \in Admins, NEW c \in Connections, EscapeClosedRoom(a, c)
  PROVE  IInv'
<1> DEFINE p == PlayerOf[c]
           state == [body[p] EXCEPT !.view = Front]
<1>1. /\ UNCHANGED <<files, lying, body, saved, at, seen, before, kept, present, unsaved>>
      /\ TypeInv /\ doubly \subseteq Players /\ p \in Players
      /\ reload[a].visits \in SUBSET Connections
  BY Standing DEF EscapeClosedRoom, TypeInv, ReloadOK
<1>2. PresenceOK'
  BY <1>1, StayKnown DEF Known
<1>3. CASE Proceed(a, "visit", reload[a].visits \ {c}, None, None) /\ UNCHANGED doubly
  BY <1>1, <1>2, <1>3, VisitKeeps DEF Visiting, Escaping
<1>4. CASE /\ present[c] # None /\ Proceed(a, "set", reload[a].visits, c, state)
           /\ doubly' = doubly \cup {p}
  <2>1. body[p] \in Body
    BY <1>1, <1>4 DEF TypeInv, RowsOK, PresenceOK
  <2>2. state \in Body /\ state.carried = body[p].carried
    BY <2>1, Constants DEF Body
  <2>3. CarriedBy(state) \subseteq Had(p)
    BY <1>1, <2>1, <2>2, Carrying, HadParts
  <2> QED
    BY <1>1, <1>2, <1>4, <2>2, <2>3, Constants, VisitKeeps DEF Visiting, Escaping
<1> QED
  BY <1>3, <1>4 DEF EscapeClosedRoom

(* A visit that is on has its player among those two may have written of. *)
LEMMA OnVisit ==
  ASSUME IInv, NEW a \in Admins, reload[a].at \in Escaping
  PROVE  /\ reload[a].visit \in Connections /\ reload[a].body \in Body
         /\ reload[a].visits \in SUBSET Connections /\ PlayerOf[reload[a].visit] \in Players
         /\ CarriedBy(reload[a].body) \subseteq Had(PlayerOf[reload[a].visit])
         /\ doubly # {} /\ TypeInv /\ PlaceInv /\ HadInv
BY HadParts, Constants DEF IInv, TypeInv, ReloadOK, LossInv

LEMMA EscapeSetKeeps ==
  ASSUME IInv, NEW a \in Admins, EscapeSetPlayerState(a)
  PROVE  IInv'
<1> DEFINE p == PlayerOf[reload[a].visit]
           new == reload[a].body
<1>1. /\ reload[a].at \in Escaping /\ Set(p, new)
      /\ Proceed(a, "save", reload[a].visits, reload[a].visit, new)
      /\ UNCHANGED <<files, before, doubly, unsaved, saved, present, at, seen>>
      /\ "save" \in Visiting
  BY DEF EscapeSetPlayerState, Escaping, Visiting
<1>2. /\ lying' \in [Ways -> SUBSET Things] /\ body' \in [Players -> Body \cup {None}]
      /\ kept' = kept \ {p} /\ body'[p] = new /\ (\A q \in Players \ {p} : body'[q] = body[q])
      /\ \A v \in Ways : lying'[v] = lying[v] \ new.carried
      /\ Known
  BY <1>1, OnVisit, SetTyped
<1>3. /\ ReloadOK'
      /\ reload'[a] = [at |-> "save", visits |-> reload[a].visits, visit |-> reload[a].visit, body |-> new]
      /\ \A b \in Admins \ {a} : reload'[b] = reload[b]
  <2>1. /\ TypeInv /\ reload[a].visits \in SUBSET Connections
        /\ reload[a].visit \in Connections \cup {None} /\ new \in Body \cup {None}
        /\ reload[a].visit # None /\ new # None
    BY <1>1, OnVisit, Constants
  <2> HIDE DEF new
  <2> QED
    BY <1>1, <2>1, ProceedTyped
<1>4. TypeInv'
  <2>1. RowsOK'
    BY <1>1, <1>2, OnVisit DEF TypeInv, RowsOK
  <2> QED
    BY <1>1, <1>2, <1>3, <2>1, OnVisit, StayKnown DEF TypeInv
<1>5. PlaceInv'
  BY <1>1, OnVisit, SetPlaces
<1>6. \A q \in Players : CarriedBy(body'[q]) \subseteq Had(q) /\ CarriedBy(saved'[q]) \subseteq Had(q)
  BY <1>1, <1>2, OnVisit, HadParts
<1>7. reload'[a].visit = reload[a].visit /\ reload'[a].body = new
  BY <1>3
<1>8. HadInv'
  BY <1>1, <1>2, <1>3, <1>6, <1>7, OnVisit, VisitHad
<1>9. LossInv'
  BY <1>1, OnVisit, TwoMayLose
<1> QED
  BY <1>4, <1>5, <1>8, <1>9 DEF IInv

LEMMA EscapeSaveKeeps ==
  ASSUME IInv, NEW a \in Admins, EscapeSavePlayerState(a) \/ EscapeSaveFails(a)
  PROVE  IInv'
<1> DEFINE p == PlayerOf[reload[a].visit]
           new == reload[a].body
<1>1. /\ reload[a].at \in Escaping /\ (Save(p, new) \/ FailToSave(p, new))
      /\ UNCHANGED <<files, before, kept, doubly, lying, body, present, at, seen>>
  BY DEF EscapeSavePlayerState, EscapeSaveFails, Escaping
<1>2. /\ saved' \in [Players -> Body \cup {None}] /\ saved'[p] \in {saved[p], new}
      /\ unsaved' \in [Players -> SUBSET Things]
      /\ \A q \in Players \ {p} : saved'[q] = saved[q]
  BY <1>1, OnVisit, Saving
<1>3. PICK step \in {"update", "visit"}, visits \in SUBSET Connections,
           c \in {reload[a].visit, None}, state \in {new, None} :
         /\ Proceed(a, step, visits, c, state)
         /\ \/ step = "update" /\ c = reload[a].visit /\ state = new
            \/ step = "visit" /\ c = None
  BY <1>1, OnVisit DEF EscapeSavePlayerState, EscapeSaveFails
<1>4. /\ ReloadOK'
      /\ reload'[a] = [at |-> step, visits |-> visits, visit |-> c, body |-> state]
      /\ \A b \in Admins \ {a} : reload'[b] = reload[b]
  <2>1. /\ TypeInv /\ step \in Visiting
        /\ c \in Connections \cup {None} /\ state \in Body \cup {None}
        /\ step \in Escaping => (c # None /\ state # None)
    BY <1>1, <1>3, OnVisit, Constants DEF Visiting, Escaping
  <2> HIDE DEF new
  <2> QED
    BY <1>3, <2>1, ProceedTyped
<1>5. Known
  BY <1>1 DEF Known
<1>6. TypeInv'
  <2>1. RowsOK'
    BY <1>1, <1>2, OnVisit DEF TypeInv, RowsOK
  <2> QED
    BY <1>1, <1>4, <1>5, <2>1, OnVisit, StayKnown DEF TypeInv
<1>7. PlaceInv'
  BY <1>1, OnVisit, PlacesUnchanged
<1>8. \A q \in Players : CarriedBy(body'[q]) \subseteq Had(q) /\ CarriedBy(saved'[q]) \subseteq Had(q)
  BY <1>1, <1>2, OnVisit, HadParts
<1>9. /\ reload'[a].visit = c /\ reload'[a].body = state /\ c \in Connections \cup {None}
      /\ c # None => CarriedBy(state) \subseteq Had(PlayerOf[c])
  BY <1>1, <1>3, <1>4, OnVisit
<1>10. HadInv'
  BY <1>1, <1>4, <1>8, <1>9, OnVisit, VisitHad
<1>11. LossInv'
  BY <1>1, OnVisit, TwoMayLose
<1> QED
  BY <1>6, <1>7, <1>10, <1>11 DEF IInv

LEMMA EscapeUpdateKeeps ==
  ASSUME IInv, NEW a \in Admins, EscapeUpdateView(a)
  PROVE  IInv'
<1> DEFINE c == reload[a].visit
<1>1. /\ reload[a].at \in Escaping
      /\ present' = [present EXCEPT ![c] = IF @ = None THEN None ELSE Front]
      /\ Proceed(a, "visit", reload[a].visits \ {c}, None, None)
      /\ UNCHANGED <<files, before, kept, doubly, unsaved, lying, body, saved, at, seen>>
      /\ "visit" \in Visiting /\ "visit" \notin Escaping
  BY DEF EscapeUpdateView, NextVisit, Escaping, Visiting, history
<1>2. PresenceOK'
  BY <1>1, OnVisit, Constants DEF TypeInv, PresenceOK
<1>3. doubly \subseteq Players /\ reload[a].visits \in SUBSET Connections
  BY <1>1, OnVisit DEF TypeInv, RowsOK
<1> QED
  BY <1>1, <1>2, <1>3, VisitKeeps

(* A request that waits, or is over, holds nothing. *)
LEMMA Idle ==
  /\ \A r \in {Waiting, Over} : /\ r.at \in Visiting /\ r.at \notin Escaping
                                /\ r.visit = None /\ r.body = None
  /\ {Waiting, Over} \subseteq [at : Visiting, visits : SUBSET Connections,
                               visit : Connections \cup {None}, body : Body \cup {None}]
BY DEF Waiting, Over, Visiting, Escaping

LEMMA RestartKeeps ==
  ASSUME IInv, NEW f \in Files, Restart(f)
  PROVE  IInv'
<1>1. /\ files' = f /\ lying' = f.lying /\ body' = [p \in Players |-> None]
      /\ present' = [c \in Connections |-> None] /\ seen' = present'
      /\ at' = [c \in Connections |-> IF at[c] = "new" THEN "new" ELSE "gone"]
      /\ reload' \in [Admins -> {Waiting, Over}]
      /\ kept' = {} /\ doubly' = {} /\ unsaved' = [p \in Players |-> {}] /\ UNCHANGED saved
      /\ before' = [p \in Players |-> Had(p)']
  BY DEF Restart
<1>2. TypeInv'
  <2>1. \A p \in Players : Had(p)' \subseteq Things
    BY DEF Had
  <2>2. RowsOK'
    BY <1>1, <2>1, FilesAre DEF IInv, TypeInv, RowsOK
  <2>3. PresenceOK' /\ HandsOK'
    BY <1>1 DEF PresenceOK, HandsOK, Steps, Writing
  <2>4. ReloadOK'
    BY <1>1, Idle DEF ReloadOK
  <2> QED
    BY <2>2, <2>3, <2>4 DEF TypeInv
<1>3. \A p \in Players : Carried(p)' = {}
  BY <1>1, Carrying DEF Carried
<1>4. PlaceInv'
  BY <1>1, <1>3, FilesAre DEF PlaceInv
<1>5. HadInv'
  BY <1>1 DEF HadInv
<1>6. LossInv'
  <2>1. \A a \in Admins : reload'[a].at \notin Escaping
    BY <1>1, Idle
  <2>2. \A c \in Connections : at'[c] \in {"new", "gone"}
    BY <1>1
  <2>3. Orderly'
    BY <1>3, <2>2, Constants DEF Orderly, Single, Online, Current, RowHas
  <2>4. LostOnlyToTwo'
    BY <1>1 DEF LostOnlyToTwo, Lying
  <2> QED
    BY <2>1, <2>3, <2>4 DEF LossInv
<1> QED
  BY <1>2, <1>4, <1>5, <1>6 DEF IInv

---------------------------------------------------------------------------
(* The invariant and the theorems. *)

LEMMA IInvInit == Init => IInv
<1> SUFFICES ASSUME Init PROVE IInv
  OBVIOUS
<1>1. /\ files \in Files /\ lying = files.lying /\ body = [p \in Players |-> None] /\ saved = body
      /\ before = [p \in Players |-> {}] /\ present = [c \in Connections |-> None] /\ seen = present
      /\ at \in [Connections -> {"new", "gone"}]
      /\ reload \in [Admins -> {Waiting, Over}] /\ kept = {} /\ doubly = {} /\ unsaved = before
  BY DEF Init
<1>2. TypeInv
  <2>1. RowsOK /\ PresenceOK
    BY <1>1, FilesAre DEF RowsOK, PresenceOK
  <2>2. HandsOK
    BY <1>1 DEF HandsOK, Steps, Writing
  <2>3. ReloadOK
    BY <1>1, Idle DEF ReloadOK
  <2> QED
    BY <2>1, <2>2, <2>3 DEF TypeInv
<1>3. \A p \in Players : Carried(p) = {} /\ Had(p) = {}
  BY <1>1, Carrying, Idle DEF Carried, Had
<1>4. PlaceInv /\ HadInv
  BY <1>1, <1>3, FilesAre DEF PlaceInv, HadInv
<1>5. LossInv
  <2>1. \A a \in Admins : reload[a].at \notin Escaping
    BY <1>1, Idle
  <2>2. Orderly
    BY <1>1, <1>3, Constants DEF Orderly, Single, Online, Current, RowHas
  <2>3. LostOnlyToTwo
    BY <1>1 DEF LostOnlyToTwo, Lying
  <2> QED
    BY <2>1, <2>2, <2>3 DEF LossInv
<1> QED
  BY <1>2, <1>4, <1>5 DEF IInv

LEMMA Stutter == IInv /\ UNCHANGED vars => IInv'
<1> SUFFICES ASSUME IInv, UNCHANGED vars PROVE IInv'
  OBVIOUS
<1>1. UNCHANGED <<files, lying, body, saved, present, at, seen, reload, before, kept, doubly, unsaved>>
  BY DEF vars, history
<1>2. TypeInv /\ PlaceInv /\ HadInv /\ LossInv /\ Known
  BY <1>1 DEF IInv, Known
<1>3. TypeInv'
  BY <1>1, <1>2, StayKnown DEF TypeInv, RowsOK
<1>4. PlaceInv'
  BY <1>1, <1>2, PlacesUnchanged
<1>5. HadInv'
  <2>1. \A p \in Players : Had(p)' \subseteq Had(p)
    BY <1>1, <1>2, HadParts, HadOnly
  <2> QED
    BY <1>1, <1>2, <2>1, HadKept
<1>6. LossInv'
  <2>1. doubly' = {} => Orderly'
    BY <1>1, <1>2, OrderlyStays DEF Carried
  <2>2. LostOnlyToTwo'
    BY <1>1, <1>2 DEF LossInv, LostOnlyToTwo, Lying, Carried
  <2> QED
    BY <1>1, <1>2, <2>1, <2>2 DEF LossInv
<1> QED
  BY <1>3, <1>4, <1>5, <1>6 DEF IInv

LEMMA IInvStep == IInv /\ [Next]_vars => IInv'
<1> SUFFICES ASSUME IInv, [Next]_vars PROVE IInv'
  OBVIOUS
<1>1. ASSUME NEW c \in Connections,
             \/ LoadPlayerState(c) \/ SetOrCreatePlayer(c) \/ Arrive(c)
             \/ PlayerState(c) \/ Relocate(c) \/ SetPlayerState(c)
             \/ SavePlayerState(c) \/ SaveFails(c) \/ UpdateView(c) \/ Disconnect(c) \/ RemovePresence(c)
      PROVE  IInv'
  BY <1>1, LoadKeeps, CreateKeeps, LooksKeep, SetStateKeeps, SaveKeeps, PresenceKeeps
<1>2. ASSUME NEW c \in Connections, NEW t \in Things, TakeEntity(c, t)
      PROVE  IInv'
  BY <1>2, TakeKeeps
<1>3. ASSUME NEW c \in Connections, NEW v \in Ways, MovePlayer(c, v)
      PROVE  IInv'
  BY <1>3, MoveKeeps
<1>4. ASSUME NEW a \in Admins, NEW f \in Files, ReloadRuntime(a, f)
      PROVE  IInv'
  BY <1>4, ReloadKeeps
<1>5. ASSUME NEW a \in Admins, NEW c \in Connections, EscapeClosedRoom(a, c)
      PROVE  IInv'
  BY <1>5, EscapeKeeps
<1>6. ASSUME NEW a \in Admins,
             \/ ConnectionViews(a) \/ EscapeSetPlayerState(a)
             \/ EscapeSavePlayerState(a) \/ EscapeSaveFails(a) \/ EscapeUpdateView(a)
      PROVE  IInv'
  BY <1>6, ConnectionViewsKeeps, EscapeSetKeeps, EscapeSaveKeeps, EscapeUpdateKeeps
<1>7. ASSUME NEW f \in Files, Restart(f)
      PROVE  IInv'
  BY <1>7, RestartKeeps
<1>8. CASE UNCHANGED vars
  BY <1>8, Stutter
<1> QED
  BY <1>1, <1>2, <1>3, <1>4, <1>5, <1>6, <1>7, <1>8 DEF Next

LEMMA BelongingsInvariant == Spec => []IInv
<1> QED
  BY IInvInit, IInvStep, PTL DEF Spec

(* Every variable keeps its type, and a connection that is in has a player *)
(* the runtime knows, so no handler reads the state of one it does not.    *)
THEOREM BelongingsTyped == Spec => []TypeOK
<1>1. IInv => TypeOK
  BY Parts DEF IInv
<1> QED
  BY BelongingsInvariant, <1>1, PTL

(* A thing has one place: GameRuntime::execute under the locks of player   *)
(* and view, and set_player_state under the write lock, let none be taken  *)
(* twice, whatever rows, reloads and stops of the server there were.       *)
THEOREM ThingsHaveOnePlace == Spec => []OnePlace
<1>1. ASSUME IInv PROVE OnePlace
  <2>1. ASSUME NEW p \in Players, NEW t \in Carried(p)
        PROVE  /\ Lying(t) => p \in kept
               /\ \A q \in Players \ {p} : t \in Carried(q) => t \in before[p] \cup before[q]
    <3>1. Lying(t) => p \in kept
      BY <1>1, <2>1 DEF IInv, PlaceInv
    <3>2. \A q \in Players : Carried(q) \subseteq Had(q)
      BY <1>1, HadParts DEF IInv, Carried
    <3> QED
      BY <1>1, <2>1, <3>1, <3>2 DEF IInv, HadInv
  <2> QED
    BY <2>1 DEF OnePlace
<1> QED
  BY BelongingsInvariant, <1>1, PTL

(* Only two who write of one player at a time, connections or a reload     *)
(* that leads it out of a closed room, can lose what the files have.       *)
THEOREM OnlyTwoLose == Spec => []LostOnlyToTwo
<1>1. IInv => LostOnlyToTwo
  BY DEF IInv, LossInv
<1> QED
  BY BelongingsInvariant, <1>1, PTL
=============================================================================
