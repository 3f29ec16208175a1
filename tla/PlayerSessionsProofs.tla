------------------------ MODULE PlayerSessionsProofs ------------------------
(* The gate, the wallets and the presence records of PlayerSessions, for   *)
(* any players, connections, files and reloads.                            *)
EXTENDS PlayerSessions, TLAPS

(* What the handler of an unagreed player's connection has read is still   *)
(* what holds the player at the gate.                                      *)
HeldBack(c) ==
  agreed[PlayerOf[c]] = None =>
    /\ at[c] \notin {"grant", "view", "set", "persist", "present"}
    /\ at[c] \in LoginSteps \ {"admission"} => ~seen[c].admitted
    /\ at[c] = "create" => seen[c].view \in {None, Admission}
    /\ at[c] \in {"hold", "save", "online"} => seen[c].view = Admission
    /\ at[c] \in {"save", "online"} \/ LoggedIn(c) => place[PlayerOf[c]] = Admission
    /\ at[c] = "online" \/ LoggedIn(c) => stored[PlayerOf[c]] = Admission
    /\ at[c] \in {"context", "fill"} => seen[c].line \notin {"relocate", "escape"}
    /\ present[c] \in {None, Pending}

StoredAtTheGate ==
  \A p \in Players : agreed[p] = None => stored[p] \in {None, Admission}

(* A version that is written is one of an agreement. *)
VersionRead(c) ==
  /\ at[c] \in {"mark", "accept", "admit"} => seen[c].version \in Agreements
  /\ at[c] = "gate" /\ seen[c].line \in {"read", "agree"} => seen[c].version \in Agreements

(* A view that is left or entered is one. *)
ViewRead(c) ==
  /\ at[c] \in {"context", "set", "persist", "present"} => seen[c].view \in Views
  /\ at[c] = "fill" => seen[c].view \in Rooms /\ seen[c].context # "street"
  /\ at[c] \in {"observe", "config", "gate", "view"} /\ seen[c].context # "street" =>
       seen[c].view \in Rooms
  /\ at[c] = "hold" => seen[c].view = Admission

Known(c) ==
  at[c] \in {"arrive", "hold", "save", "online"} \/ LoggedIn(c) => place[PlayerOf[c]] # None

Provided(c) ==
  at[c] \notin {"new", "gone"} /\ agreed[PlayerOf[c]] # None =>
    \/ PlayerOf[c] \in wallet
    \/ \E d \in Connections : PlayerOf[d] = PlayerOf[c] /\ at[d] = "grant"
    \/ c \in unpaid

Absent(c) == at[c] \in {"new", "gone"} \union LoginSteps => present[c] = None

(* Whom a reload sends out of a room has agreed, since it was in one. *)
Visiting(a) ==
  LET r == reload[a] IN
  /\ r.at \notin {"todo", "done"} => r.files \in Files
  /\ r.at \in {"cache", "escape", "set", "save", "update"} =>
       r.visit \in Connections \X Rooms /\ agreed[PlayerOf[r.visit[1]]] # None
  /\ r.at = "cache" => r.context # "street"
  /\ \A visit \in r.visits : agreed[PlayerOf[visit[1]]] # None

Placed(c) == HeldBack(c) /\ VersionRead(c) /\ ViewRead(c) /\ Known(c) /\ Absent(c)

(* Who takes part is who there is. *)
CastInv == cast \in Cast

IInv ==
  /\ TypeOK /\ StoredAtTheGate
  /\ \A c \in Connections : Placed(c) /\ Provided(c)
  /\ \A a \in Admins : Visiting(a)

---------------------------------------------------------------------------
(* Constants and records *)

(* What is said of the world's views and versions in the constants. *)
LEMMA ConstantFacts ==
  /\ \A f \in Files : f.views \subseteq Views /\ f.version \in Agreements
  /\ \A f \in Files : Admission \in f.views /\ Spawn \in f.views
  /\ Grid \subseteq Views /\ Rooms \subseteq Views
  /\ \A v \in Grid \union Rooms : Front[v] \in Views
  /\ \A v \in Views : Exits[v] \subseteq Views
  /\ None \notin Views /\ Pending \notin Views /\ None \notin Agreements
  /\ None # Pending
  /\ \A c \in Connections : PlayerOf[c] \in Players
  /\ \A f \in Files : f.rooms \subseteq Rooms
<1> USE ConstantsAssumption DEF ConstantsAssumption, FilesAssumption
<1>1. \A f \in Files : f.views \subseteq Views
  BY DEF Views
<1>2. Grid \subseteq Views /\ Rooms \subseteq Views
  BY DEF Views
<1>3. \A f \in Files : f.version \in Agreements
  BY DEF Agreements
<1>4. None \notin Views /\ None \notin Agreements /\ None # Pending
  OBVIOUS
<1> QED
  BY <1>1, <1>2, <1>3, <1>4

LEMMA FreshSeen == Fresh \in Seen
BY DEF Fresh, Seen, AllLines

(* A step of connection c that changes nothing but what c does next and    *)
(* has read, if the invariant holds of c afterwards.                       *)
LEMMA Moves ==
  ASSUME IInv, NEW c \in Connections, NEW step \in Steps, NEW what \in Seen,
         Goto(c, step, what),
         UNCHANGED <<views, enabled, version, place, stored, present, profile, reload, faults>>,
         cache' \in [Rooms -> {"unknown", "open", "closed"}],
         Placed(c)', at[c] \notin {"new", "gone", "grant"}
  PROVE  IInv'
<1>1. TypeOK'
  BY DEF IInv, TypeOK, Goto, profile, faults, Placed, Known, LoggedIn
<1>2. StoredAtTheGate'
  BY DEF IInv, StoredAtTheGate, profile
<1>3. ASSUME NEW d \in Connections, d # c PROVE Placed(d)'
  BY <1>3 DEF IInv, TypeOK, Goto, profile, Placed, HeldBack, VersionRead, ViewRead,
     Known, Absent, LoggedIn
<1>4. ASSUME NEW d \in Connections PROVE Provided(d)'
  BY DEF IInv, TypeOK, Goto, profile, faults, Provided
<1>5. \A a \in Admins : Visiting(a)'
  BY DEF IInv, Visiting, profile
<1> QED
  BY <1>1, <1>2, <1>3, <1>4, <1>5 DEF IInv
(* The handler of a line gives up or ends without an effect. *)
LEMMA DoneMoves ==
  ASSUME IInv, NEW c \in Connections, Done(c), at[c] \in LineSteps \ {"grant"},
         UNCHANGED <<world, place, stored, present, profile, reload, faults>>
  PROVE  IInv'
<1>1. "idle" \in Steps /\ at[c] \notin {"new", "gone", "grant"}
  BY DEF Steps, LineSteps
<1>2. Placed(c) /\ TypeOK
  BY DEF IInv
<1>3. Placed(c)'
  BY <1>2 DEF TypeOK, Done, Goto, profile, Placed, HeldBack, VersionRead, ViewRead, Known,
     Absent, LoggedIn, LineSteps, LoginSteps, Fresh
<1> QED
  BY <1>1, <1>2, <1>3, Moves, FreshSeen DEF Done, world, TypeOK

(* A session is sent to a view: its context is read first. *)
LEMMA RelocateMoves ==
  ASSUME IInv, NEW c \in Connections, NEW v \in Views,
         NEW line \in {"relocate", "escape"}, Sends(c, line, v),
         at[c] \in LineSteps \ {"grant"}, agreed[PlayerOf[c]] # None,
         UNCHANGED <<world, place, stored, present, profile, reload, faults>>
  PROVE  IInv'
<1> DEFINE what == [Fresh EXCEPT !.line = line, !.view = v]
<1>1. "context" \in Steps /\ at[c] \notin {"new", "gone", "grant"}
  BY DEF Steps, LineSteps
<1>2. Placed(c) /\ TypeOK /\ what \in Seen
  BY DEF IInv, Fresh, Seen
<1>3. Placed(c)'
  BY <1>2 DEF TypeOK, Sends, Goto, profile, Placed, HeldBack, VersionRead, ViewRead, Known,
     Absent, LoggedIn, LineSteps, LoginSteps, Fresh
<1> QED
  BY <1>1, <1>2, <1>3, Moves DEF Sends, world, TypeOK

---------------------------------------------------------------------------
(* Login *)

LEMMA LoginReads ==
  ASSUME IInv, NEW c \in Connections, PlayerAdmission(c) \/ LoadPlayerState(c) \/ Arrive(c)
  PROVE  IInv'
<1>1. TypeOK /\ Placed(c) /\ StoredAtTheGate /\ PlayerOf[c] \in Players
  BY ConstantFacts DEF IInv
<1>0. \A s \in Seen, v \in Views \union {None} : [s EXCEPT !.view = v] \in Seen
  BY DEF Seen
<1> USE <1>1 DEF world, TypeOK, Steps, LoginSteps, LineSteps
<1>2. CASE PlayerAdmission(c)
  <2> DEFINE what == [seen[c] EXCEPT !.admitted = agreed[PlayerOf[c]] # None]
  <2>1. what \in Seen
    <3>1. \A b \in BOOLEAN : [seen[c] EXCEPT !.admitted = b] \in Seen
      BY DEF Seen
    <3>2. (agreed[PlayerOf[c]] # None) \in BOOLEAN
      BY Zenon
    <3> QED
      BY <3>1, <3>2
  <2>2. Placed(c)'
    BY <1>2 DEF PlayerAdmission, Goto, profile, Placed, HeldBack, VersionRead, ViewRead, Known,
       Absent, LoggedIn, Seen
  <2> QED
    BY <1>2, <2>1, <2>2, Moves DEF PlayerAdmission
<1>3. CASE LoadPlayerState(c)
  <2> DEFINE what == [seen[c] EXCEPT !.view = stored[PlayerOf[c]]]
  <2>0. seen[c] \in Seen /\ stored[PlayerOf[c]] \in Views \union {None}
    OBVIOUS
  <2>1. what \in Seen
    BY <1>0, <2>0
  <2>2. Placed(c)'
    BY <1>3 DEF LoadPlayerState, Goto, profile, Placed, HeldBack, VersionRead, ViewRead, Known,
       Absent, LoggedIn, Seen, StoredAtTheGate
  <2> QED
    BY <1>3, <2>1, <2>2, Moves DEF LoadPlayerState
<1>4. CASE Arrive(c)
  <2> DEFINE here == [seen[c] EXCEPT !.view = place[PlayerOf[c]]]
             gate == [seen[c] EXCEPT !.view = Admission]
  <2>0. /\ seen[c] \in Seen /\ place[PlayerOf[c]] \in Views \union {None}
        /\ Admission \in Views \union {None}
    BY ConstantFacts
  <2>1. here \in Seen /\ gate \in Seen
    BY <1>0, <2>0
  <2>2. Placed(c)'
    BY <1>4 DEF Arrive, Goto, profile, Placed, HeldBack, VersionRead, ViewRead, Known,
       Absent, LoggedIn, Seen
  <2>3. CASE seen[c].admitted
    BY <1>4, <2>1, <2>2, <2>3, Moves DEF Arrive
  <2>4. CASE ~seen[c].admitted
    BY <1>4, <2>1, <2>2, <2>4, Moves DEF Arrive
  <2> QED
    BY <2>3, <2>4
<1> QED
  BY <1>2, <1>3, <1>4
(* The runtime, the table or the presence registry is told a view by c,    *)
(* the admission view of a player who has not agreed.                      *)
LEMMA Tells ==
  ASSUME IInv, NEW c \in Connections, NEW step \in Steps, NEW what \in Seen,
         Goto(c, step, what), at[c] \notin {"new", "gone", "grant"},
         UNCHANGED <<world, profile, reload, unpaid>>, unsaved' \subseteq Players,
         place' \in [Players -> Views \union {None}],
         stored' \in [Players -> Views \union {None}],
         present' \in [Connections -> Views \union {Pending, None}],
         \A p \in Players : place[p] # None => place'[p] # None,
         \A p \in Players : agreed[p] = None /\ place[p] = Admission => place'[p] = Admission,
         \A p \in Players : agreed[p] = None =>
           /\ stored[p] = Admission => stored'[p] = Admission
           /\ stored'[p] \in {None, Admission},
         \A d \in Connections \ {c} : present'[d] = present[d],
         Placed(c)'
  PROVE  IInv'
<1>1. TypeOK'
  BY ConstantFacts DEF IInv, TypeOK, Goto, world, profile, Placed, Known, LoggedIn
<1>2. StoredAtTheGate'
  BY DEF IInv, StoredAtTheGate, profile
<1>3. ASSUME NEW d \in Connections, d # c PROVE Placed(d)'
  <2>1. PlayerOf[d] \in Players
    BY ConstantFacts
  <2> QED
    BY <1>3, <2>1 DEF IInv, TypeOK, Goto, profile, Placed, HeldBack, VersionRead, ViewRead,
       Known, Absent, LoggedIn
<1>4. ASSUME NEW d \in Connections PROVE Provided(d)'
  BY DEF IInv, TypeOK, Goto, profile, Provided
<1>5. \A a \in Admins : Visiting(a)'
  BY DEF IInv, Visiting, profile
<1> QED
  BY <1>1, <1>2, <1>3, <1>4, <1>5 DEF IInv

LEMMA LoginWrites ==
  ASSUME IInv, NEW c \in Connections,
         SetOrCreatePlayer(c) \/ HoldAtAdmission(c) \/ SaveAtLogin(c) \/ MarkOnline(c)
  PROVE  IInv'
<1> DEFINE p == PlayerOf[c]
<1>1. TypeOK /\ Placed(c) /\ StoredAtTheGate /\ p \in Players /\ seen[c] \in Seen
  BY ConstantFacts DEF IInv, TypeOK
<1>2. Admission \in Views /\ Spawn \in Views /\ None \notin Views /\ Pending \notin Views
  BY <1>1, ConstantFacts DEF TypeOK
<1>3. "arrive" \in Steps /\ "save" \in Steps /\ "online" \in Steps /\ "idle" \in Steps
  BY DEF Steps, LoginSteps
<1> USE <1>1, <1>2, <1>3 DEF TypeOK
<1>4. CASE SetOrCreatePlayer(c)
  <2>1. PlacedAtLogin(p, seen[c].view) \in Views
    BY DEF PlacedAtLogin, Seen
  <2>2. agreed[p] = None /\ place[p] = Admission => PlacedAtLogin(p, seen[c].view) = Admission
    BY <1>4 DEF PlacedAtLogin, SetOrCreatePlayer, Placed, HeldBack, LoginSteps
  <2>3. Placed(c)'
    BY <1>4, <2>1 DEF SetOrCreatePlayer, Goto, profile, LoginSteps, LineSteps,
       Placed, HeldBack, VersionRead, ViewRead, Known, Absent, LoggedIn
  <2> QED
    BY <1>4, <2>1, <2>2, <2>3, Tells DEF faults, SetOrCreatePlayer, StoredAtTheGate
<1>5. CASE HoldAtAdmission(c)
  <2>1. seen[c].view = Admission
    BY <1>5 DEF HoldAtAdmission, Placed, ViewRead
  <2>2. Placed(c)'
    BY <1>5, <2>1 DEF HoldAtAdmission, Goto, profile, LoginSteps, LineSteps,
       Placed, HeldBack, VersionRead, ViewRead, Known, Absent, LoggedIn
  <2> QED
    BY <1>5, <2>1, <2>2, Tells DEF faults, HoldAtAdmission, StoredAtTheGate
<1>6. CASE SaveAtLogin(c)
  <2>1. seen[c].view \in Views \union {None}
    BY DEF Seen
  <2>2. agreed[p] = None => seen[c].view = Admission
    BY <1>6 DEF SaveAtLogin, Placed, HeldBack
  <2>3. Placed(c)'
    BY <1>6, <2>2 DEF SaveAtLogin, Goto, profile, LoginSteps, LineSteps,
       Placed, HeldBack, VersionRead, ViewRead, Known, Absent, LoggedIn
  <2> QED
    BY <1>6, <2>1, <2>2, <2>3, Tells DEF faults, SaveAtLogin, StoredAtTheGate
<1>7. CASE MarkOnline(c)
  <2>1. seen[c].view \in Views \union {None}
    BY DEF Seen
  <2>2. Placed(c)'
    BY <1>7 DEF MarkOnline, Done, Fresh, Goto, profile, LoginSteps, LineSteps,
       Placed, HeldBack, VersionRead, ViewRead, Known, Absent, LoggedIn
  <2> QED
    BY <1>7, <2>1, <2>2, Tells, FreshSeen DEF faults, MarkOnline, Done, StoredAtTheGate
<1> QED
  BY <1>4, <1>5, <1>6, <1>7

(* A login creates the wallet that is due before the player can type. *)
LEMMA WalletAtLogin ==
  ASSUME IInv, NEW c \in Connections, EnsureWalletIfAdmitted(c)
  PROVE  IInv'
<1> USE DEF EnsureWalletIfAdmitted, Goto, faults
<1>1. TypeOK /\ Placed(c) /\ PlayerOf[c] \in Players
  BY ConstantFacts DEF IInv
<1>2. TypeOK'
  BY <1>1, FreshSeen DEF TypeOK, world, WalletsDue, Steps, LoginSteps, LineSteps, LoggedIn
<1>3. StoredAtTheGate'
  BY DEF IInv, StoredAtTheGate
<1>4. ASSUME NEW d \in Connections PROVE Placed(d)'
  BY <1>1 DEF IInv, TypeOK, Placed, HeldBack, VersionRead, ViewRead, Known, Absent, LoggedIn,
     LoginSteps, LineSteps
<1>5. ASSUME NEW d \in Connections PROVE Provided(d)'
  BY <1>1 DEF IInv, TypeOK, Provided, WalletsDue
<1>6. \A a \in Admins : Visiting(a)'
  BY DEF IInv, Visiting
<1> QED
  BY <1>2, <1>3, <1>4, <1>5, <1>6 DEF IInv
---------------------------------------------------------------------------
(* The handler of a line *)

(* Getting and caching the context of the view. *)
LEMMA Contexts ==
  ASSUME IInv, NEW c \in Connections, RoomContext(c) \/ FillCache(c)
  PROVE  IInv'
<1> DEFINE v == seen[c].view
           asked(context) == [seen[c] EXCEPT !.context = context]
           target == [Fresh EXCEPT !.line = seen[c].line, !.view = v]
           Answers == {"street", "open", "closed"}
<1>1. TypeOK /\ Placed(c) /\ PlayerOf[c] \in Players /\ seen[c] \in Seen /\ cache \in [Rooms -> {"unknown", "open", "closed"}]
  BY ConstantFacts DEF IInv, TypeOK
<1>2. {"set", "observe", "fill"} \subseteq Steps
  BY DEF Steps, LineSteps
<1>3. (\A x \in Answers : asked(x) \in Seen) /\ target \in Seen
  BY <1>1, FreshSeen DEF Seen, Fresh
<1>4. at[c] \in {"context", "fill"}
  BY DEF RoomContext, FillCache
<1>5. at[c] \notin {"new", "gone", "grant"} /\ UNCHANGED <<place, stored, present, profile, reload>>
        /\ UNCHANGED <<views, enabled, version, faults>>
  BY <1>4 DEF RoomContext, FillCache
<1>6. cache' \in [Rooms -> {"unknown", "open", "closed"}]
  BY <1>1, <1>4 DEF RoomContext, FillCache, Placed, ViewRead, Seen
<1>7. ASSUME NEW x \in Answers, WithContext(c, x), x # "street" => v \in Rooms
      PROVE  IInv'
  <2>2. CASE seen[c].line \in {"relocate", "escape"}
    <3>1. at' = [at EXCEPT ![c] = "set"] /\ seen' = [seen EXCEPT ![c] = target]
      BY <1>7, <2>2 DEF WithContext, Goto
    <3>2. at'[c] = "set" /\ seen'[c].view = v /\ v \in Views
      BY <1>1, <1>3, <1>4, <3>1, ConstantFacts DEF TypeOK, Fresh, Placed, ViewRead
    <3>3. agreed[PlayerOf[c]] # None
      BY <1>1, <1>4, <2>2 DEF Placed, HeldBack
    <3>4. Placed(c)'
      BY <1>1, <1>4, <1>5, <3>2, <3>3 DEF profile, LoginSteps, LineSteps, Placed, HeldBack,
         VersionRead, ViewRead, Known, Absent, LoggedIn
    <3> QED
      BY <1>2, <1>3, <1>5, <1>6, <1>7, <2>2, <3>4, Moves DEF WithContext
  <2>3. CASE seen[c].line \notin {"relocate", "escape"}
    <3>1. Placed(c)'
      BY <1>1, <1>4, <1>5, <1>7, <2>3, ConstantFacts DEF WithContext, Goto, profile, TypeOK, Seen,
         LoginSteps, LineSteps, Placed, HeldBack, VersionRead, ViewRead, Known, Absent, LoggedIn
    <3> QED
      BY <1>2, <1>3, <1>5, <1>6, <1>7, <2>3, <3>1, Moves DEF WithContext
  <2> QED
    BY <2>2, <2>3
<1>8. CASE FillCache(c)
  BY <1>1, <1>7, <1>8 DEF FillCache, Placed, ViewRead, Seen
<1>9. CASE RoomContext(c)
  <2>1. CASE v \notin Rooms /\ WithContext(c, "street")
    BY <1>7, <2>1
  <2>2. CASE v \in Rooms /\ cache[v] # "unknown" /\ WithContext(c, cache[v])
    BY <1>1, <1>7, <2>2
  <2>3. CASE v \in Rooms /\ Goto(c, "fill", asked(TableContext(v)))
    <3>1. TableContext(v) \in {"open", "closed"}
      BY DEF TableContext
    <3>2. Placed(c)'
      BY <1>1, <1>5, <1>9, <2>3, <3>1 DEF RoomContext, Goto, profile, TypeOK, Seen,
         LoginSteps, LineSteps, Placed, HeldBack, VersionRead, ViewRead, Known, Absent, LoggedIn
    <3> QED
      BY <1>2, <1>3, <1>5, <1>6, <2>3, <3>1, <3>2, Moves
  <2> QED
    BY <1>9, <2>1, <2>2, <2>3 DEF RoomContext
<1> QED
  BY <1>8, <1>9

(* From the prompt: a line is read, or the connection ends. *)
LEMMA Prompt ==
  ASSUME IInv, NEW c \in Connections, Disconnect(c) \/ \E line \in Lines : Line(c, line)
  PROVE  IInv'
<1>1. TypeOK /\ Placed(c) /\ PlayerOf[c] \in Players
  BY ConstantFacts DEF IInv
<1> USE <1>1 DEF world, TypeOK, Steps, LineSteps, LoginSteps
<1>2. CASE Disconnect(c)
  <2>1. Placed(c)'
    BY <1>2 DEF Disconnect, Goto, Fresh, profile,
       Placed, HeldBack, VersionRead, ViewRead, Known, Absent, LoggedIn
  <2> QED
    BY <1>2, <2>1, Moves, FreshSeen DEF Disconnect
<1>3. ASSUME NEW line \in Lines, Line(c, line) PROVE IInv'
  <2> DEFINE what == [Fresh EXCEPT !.line = line, !.view = place[PlayerOf[c]]]
  <2>1. line \in AllLines
    BY ConstantsAssumption DEF ConstantsAssumption
  <2>2. what \in Seen
    BY <2>1, FreshSeen DEF Seen, Fresh
  <2>3. Placed(c)'
    BY <1>3, <2>1 DEF Line, Goto, Fresh, profile, AllLines,
       Placed, HeldBack, VersionRead, ViewRead, Known, Absent, LoggedIn
  <2> QED
    BY <1>3, <2>2, <2>3, Moves DEF Line
<1> QED
  BY <1>2, <1>3

(* The configuration and the gate. *)
LEMMA AtTheGate ==
  ASSUME IInv, NEW c \in Connections, AppService(c) \/ Gate(c) \/ AcceptAdmission(c)
  PROVE  IInv'
<1>1. TypeOK /\ Placed(c) /\ PlayerOf[c] \in Players /\ seen[c] \in Seen
  BY ConstantFacts DEF IInv, TypeOK
<1> USE <1>1 DEF world, TypeOK
<1>2. CASE AppService(c)
  <2>1. [seen[c] EXCEPT !.version = version] \in Seen /\ "gate" \in Steps
    BY DEF Seen, Steps, LineSteps
  <2>2. Placed(c)'
    BY <1>2 DEF AppService, Goto, profile, Seen, LineSteps, LoginSteps,
       Placed, HeldBack, VersionRead, ViewRead, Known, Absent, LoggedIn
  <2> QED
    BY <1>2, <2>1, <2>2, Moves DEF AppService
<1>3. CASE Gate(c)
  <2>1. at[c] \in LineSteps \ {"grant"} /\ at[c] \notin {"new", "gone", "grant"}
          /\ {"view", "mark", "accept"} \subseteq Steps
    BY <1>3 DEF Gate, LineSteps, Steps
  <2>2. CASE PassesGate(c) /\ Goto(c, "view", [seen[c] EXCEPT !.version = None])
    <3>1. [seen[c] EXCEPT !.version = None] \in Seen
      BY DEF Seen
    <3>2. Placed(c)'
      BY <1>3, <2>2 DEF Gate, PassesGate, Goto, profile, Seen, LineSteps, LoginSteps,
         Placed, HeldBack, VersionRead, ViewRead, Known, Absent, LoggedIn
    <3> QED
      BY <1>3, <2>1, <2>2, <3>1, <3>2, Moves DEF Gate
  <2>3. ASSUME NEW step \in {"mark", "accept"}, Goto(c, step, seen[c]), seen[c].line \in {"read", "agree"}
        PROVE  IInv'
    <3>1. Placed(c)'
      BY <1>3, <2>3 DEF Gate, Goto, profile, LineSteps, LoginSteps,
         Placed, HeldBack, VersionRead, ViewRead, Known, Absent, LoggedIn
    <3> QED
      BY <1>3, <2>1, <2>3, <3>1, Moves DEF Gate
  <2>4. CASE Done(c)
    BY <1>3, <2>1, <2>4, DoneMoves DEF Gate
  <2> QED
    BY <1>3, <2>2, <2>3, <2>4 DEF Gate
<1>4. CASE AcceptAdmission(c)
  <2>1. at[c] \in LineSteps \ {"grant"} /\ at[c] \notin {"new", "gone", "grant"} /\ "admit" \in Steps
    BY <1>4 DEF AcceptAdmission, LineSteps, Steps
  <2>2. CASE Goto(c, "admit", seen[c])
    <3>1. Placed(c)'
      BY <1>4, <2>2 DEF AcceptAdmission, Goto, profile, LineSteps, LoginSteps,
         Placed, HeldBack, VersionRead, ViewRead, Known, Absent, LoggedIn
    <3> QED
      BY <1>4, <2>1, <2>2, <3>1, Moves DEF AcceptAdmission
  <2>3. CASE Done(c)
    BY <1>4, <2>1, <2>3, DoneMoves DEF AcceptAdmission
  <2> QED
    BY <1>4, <2>2, <2>3 DEF AcceptAdmission
<1> QED
  BY <1>2, <1>3, <1>4
(* A player who is nowhere is sent away, any other passes on. *)
LEMMA Observes ==
  ASSUME IInv, NEW c \in Connections, Observe(c)
  PROVE  IInv'
<1> DEFINE s == seen[c]
           here == place[PlayerOf[c]]
           what == [s EXCEPT !.here = IF Visible(here) THEN here ELSE s.view]
           step == IF s.line \in {"read", "agree"} THEN "config" ELSE "gate"
<1>1. TypeOK /\ Placed(c) /\ PlayerOf[c] \in Players /\ s \in Seen
  BY ConstantFacts DEF IInv, TypeOK
<1>2. UNCHANGED <<world, place, stored, present, profile, reload, faults>>
  BY DEF Observe
<1>3. at[c] \in LineSteps \ {"grant"} /\ at[c] \notin {"new", "gone", "grant"}
  BY DEF Observe, LineSteps
<1>4. CASE Done(c)
  BY <1>2, <1>3, <1>4, DoneMoves
<1>5. CASE Goto(c, step, what) /\ s.line # "shell"
  <2>1. step \in Steps /\ what \in Seen
    BY <1>1 DEF TypeOK, Seen, Steps, LineSteps
  <2>2. Placed(c)'
    BY <1>1, <1>2, <1>3, <1>5, <2>1 DEF Observe, TypeOK, Seen, Goto, profile, LineSteps, LoginSteps,
       Placed, HeldBack, VersionRead, ViewRead, Known, Absent, LoggedIn
  <2> QED
    BY <1>1, <1>2, <1>3, <1>5, <2>1, <2>2, Moves DEF world, TypeOK
<1>6. CASE ~Visible(here) /\ Sends(c, "escape", IF s.context = "closed" THEN Front[s.view] ELSE Admission)
  <2>1. Admission \in views
    BY <1>1, ConstantFacts DEF TypeOK
  <2>2. agreed[PlayerOf[c]] # None
    BY <1>1, <1>6, <2>1 DEF Observe, Visible, Placed, HeldBack, LoggedIn, LineSteps
  <2>3. Admission \in Views /\ (s.context = "closed" => Front[s.view] \in Views)
    BY <1>1, <2>1, ConstantFacts DEF Observe, Placed, ViewRead, TypeOK
  <2> QED
    BY <1>2, <1>3, <1>6, <2>2, <2>3, RelocateMoves
<1> QED
  BY <1>4, <1>5, <1>6 DEF Observe

(* Reading the agreement and agreeing. *)
LEMMA Agrees ==
  ASSUME IInv, NEW c \in Connections,
         MarkAgreementRead(c) \/ AdmitPlayer(c) \/ EnsureWalletAndEnter(c)
  PROVE  IInv'
<1> DEFINE p == PlayerOf[c]
<1>1. TypeOK /\ StoredAtTheGate /\ Placed(c) /\ p \in Players /\ seen[c] \in Seen
  BY ConstantFacts DEF IInv, TypeOK
<1> USE <1>1
<1>2. CASE MarkAgreementRead(c)
  <2>1. seen[c].version \in Agreements
    BY <1>2 DEF MarkAgreementRead, Placed, VersionRead
  <2>2. TypeOK'
    BY <1>2, <2>1, FreshSeen DEF MarkAgreementRead, Done, Goto, TypeOK, world, faults, Steps, LoggedIn,
       LineSteps
  <2>3. StoredAtTheGate' /\ \A a \in Admins : Visiting(a)'
    BY <1>2 DEF IInv, MarkAgreementRead, StoredAtTheGate, Visiting
  <2>4. ASSUME NEW d \in Connections PROVE Placed(d)'
    BY <1>2 DEF MarkAgreementRead, Done, Goto, Fresh, IInv, TypeOK, LineSteps, LoginSteps,
       Placed, HeldBack, VersionRead, ViewRead, Known, Absent, LoggedIn
  <2>5. ASSUME NEW d \in Connections PROVE Provided(d)'
    BY <1>2 DEF MarkAgreementRead, Done, Goto, IInv, TypeOK, Provided, faults
  <2> QED
    BY <2>2, <2>3, <2>4, <2>5 DEF IInv
<1>3. CASE AdmitPlayer(c) /\ ~Done(c)
  <2>1. seen[c].version \in Agreements /\ seen[c].version # None
    BY <1>3, ConstantFacts DEF AdmitPlayer, Placed, VersionRead
  <2>2. /\ agreed' = [agreed EXCEPT ![p] = seen[c].version]
        /\ Goto(c, "grant", seen[c])
        /\ UNCHANGED <<world, place, stored, present, read, wallet, reload, faults>>
    BY <1>3 DEF AdmitPlayer
  <2>3. at[c] = "admit"
    BY <1>3 DEF AdmitPlayer
  <2>4. TypeOK'
    BY <2>1, <2>2, <2>3 DEF Goto, TypeOK, world, faults, Steps, LoggedIn, LineSteps
  <2>5. \A q \in Players : agreed[q] # None => agreed'[q] # None
    BY <2>1, <2>2 DEF TypeOK
  <2>6. StoredAtTheGate'
    BY <2>1, <2>2 DEF StoredAtTheGate, TypeOK
  <2>7. \A a \in Admins : Visiting(a)'
    <3>1. ASSUME NEW a \in Admins, NEW visit \in reload[a].visits
          PROVE  PlayerOf[visit[1]] \in Players
      <4>1. visit \in Connections \X Rooms
        BY DEF TypeOK, Reloading
      <4> QED
        BY <4>1, ConstantFacts
    <3>2. \A visit \in Connections \X Rooms : PlayerOf[visit[1]] \in Players
      BY ConstantFacts
    <3> QED
      BY <2>2, <2>5, <3>1, <3>2 DEF IInv, Visiting
  <2>8. ASSUME NEW d \in Connections PROVE Placed(d)'
    <3>1. PlayerOf[d] \in Players /\ Placed(d)
      BY ConstantFacts DEF IInv
    <3> QED
      BY <2>1, <2>2, <2>3, <2>5, <3>1 DEF Goto, TypeOK, LineSteps, LoginSteps,
         Placed, HeldBack, VersionRead, ViewRead, Known, Absent, LoggedIn
  <2>9. ASSUME NEW d \in Connections PROVE Provided(d)'
    <3>1. PlayerOf[d] \in Players /\ Provided(d)
      BY ConstantFacts DEF IInv
    <3> QED
      BY <2>2, <2>3, <3>1 DEF Goto, TypeOK, Provided, faults
  <2> QED
    BY <2>4, <2>6, <2>7, <2>8, <2>9 DEF IInv
<1>4. CASE AdmitPlayer(c) /\ Done(c)
  <2>1. at[c] = "admit"
    BY <1>4 DEF AdmitPlayer
  <2>2. UNCHANGED agreed
    BY <1>4, <2>1 DEF AdmitPlayer, Done, Goto, TypeOK
  <2> QED
    BY <1>4, <2>1, <2>2, DoneMoves DEF AdmitPlayer, LineSteps, profile
<1>5. CASE EnsureWalletAndEnter(c)
  <2> DEFINE what == [Fresh EXCEPT !.line = "relocate", !.view = Admission]
  <2>1. Admission \in Views /\ what \in Seen /\ agreed[p] # None
    BY <1>5, ConstantFacts, FreshSeen DEF TypeOK, Seen, EnsureWalletAndEnter, Placed, HeldBack
  <2>2. TypeOK'
    BY <1>5, <2>1 DEF EnsureWalletAndEnter, Relocate, Sends, Goto, TypeOK, world, faults, Steps, LoggedIn, LineSteps
  <2>3. StoredAtTheGate' /\ \A a \in Admins : Visiting(a)'
    BY <1>5 DEF IInv, EnsureWalletAndEnter, StoredAtTheGate, Visiting
  <2>4. ASSUME NEW d \in Connections PROVE Placed(d)'
    BY <1>5, <2>1 DEF EnsureWalletAndEnter, Relocate, Sends, Goto, Fresh, IInv, TypeOK, LineSteps,
       LoginSteps, Placed, HeldBack, VersionRead, ViewRead, Known, Absent, LoggedIn
  <2>5. ASSUME NEW d \in Connections PROVE Provided(d)'
    BY <1>5 DEF EnsureWalletAndEnter, Relocate, Sends, Goto, IInv, TypeOK, Provided, faults
  <2> QED
    BY <2>2, <2>3, <2>4, <2>5 DEF IInv
<1> QED
  BY <1>2, <1>3, <1>4, <1>5
---------------------------------------------------------------------------
(* Commands of admitted players *)

LEMMA Commands ==
  ASSUME IInv, NEW c \in Connections, Enter(c) \/ LeaveRoom(c) \/ AnswerLine(c)
  PROVE  IInv'
<1>1. TypeOK /\ Placed(c) /\ at[c] \in LineSteps \ {"grant"} /\ agreed[PlayerOf[c]] # None
  BY DEF IInv, Enter, LeaveRoom, AnswerLine, LineSteps, Placed, HeldBack
<1>2. UNCHANGED <<world, place, stored, present, profile, reload, faults>>
  BY DEF Enter, LeaveRoom, AnswerLine
<1>3. CASE Done(c)
  BY <1>1, <1>2, <1>3, DoneMoves
<1>4. ASSUME NEW v \in Grid \union enabled, Relocate(c, v)
      PROVE  IInv'
  <2>1. v \in Views
    BY <1>1, ConstantFacts DEF TypeOK
  <2> QED
    BY <1>1, <1>2, <1>4, <2>1, RelocateMoves DEF Relocate
<1>5. CASE LeaveRoom(c)
  <2>1. Front[seen[c].view] \in Views
    BY <1>1, <1>5, ConstantFacts DEF LeaveRoom, InRoom, Placed, ViewRead
  <2> QED
    BY <1>1, <1>2, <1>5, <2>1, RelocateMoves DEF LeaveRoom, Relocate
<1> QED
  BY <1>3, <1>4, <1>5 DEF Enter, AnswerLine

(* Moving in the runtime, then persisting and showing where. *)
LEMMA Moving ==
  ASSUME IInv, NEW c \in Connections,
         Execute(c) \/ SetPlayerState(c) \/ PersistPlayerState(c) \/ UpdateView(c)
  PROVE  IInv'
<1> DEFINE p == PlayerOf[c]
<1>1. TypeOK /\ StoredAtTheGate /\ Placed(c) /\ p \in Players /\ seen[c] \in Seen
  BY ConstantFacts DEF IInv, TypeOK
<1>2. at[c] \in LineSteps \ {"grant"} /\ at[c] \notin {"new", "gone", "grant"}
  BY DEF Execute, SetPlayerState, PersistPlayerState, UpdateView, LineSteps
<1>3. agreed[p] # None
  BY <1>1 DEF Execute, SetPlayerState, PersistPlayerState, UpdateView, Placed, HeldBack
<1>4. {"persist", "present", "idle"} \subseteq Steps
  BY DEF Steps, LineSteps
<1>5. None \notin Views /\ Pending \notin Views
  BY ConstantFacts
<1> USE <1>1, <1>2, <1>3, <1>4, <1>5
<1>6. CASE Execute(c)
  <2>1. CASE Done(c)
    BY <1>6, <2>1, DoneMoves DEF Execute, TypeOK, Done, Goto
  <2>2. ASSUME NEW v \in Views,
               place' = [place EXCEPT ![p] = v],
               Goto(c, "persist", [seen[c] EXCEPT !.view = v])
        PROVE  IInv'
    <3>1. [seen[c] EXCEPT !.view = v] \in Seen
      BY DEF Seen
    <3>2. Placed(c)'
      BY <1>6, <2>2 DEF Execute, Goto, profile, TypeOK, Seen, LoginSteps, LineSteps,
         Placed, HeldBack, VersionRead, ViewRead, Known, Absent, LoggedIn
    <3> QED
      BY <1>6, <2>2, <3>1, <3>2, Tells DEF faults, Execute, TypeOK, StoredAtTheGate
  <2>3. place[p] \in Views
    BY <1>6 DEF Execute, TypeOK, LoggedIn, LineSteps
  <2>4. Exits[place[p]] \subseteq Views
    BY <2>3, ConstantFacts
  <2> QED
    BY <1>6, <2>1, <2>2, <2>3, <2>4 DEF Execute
<1>7. CASE SetPlayerState(c)
  <2>1. seen[c].view \in Views
    BY <1>7 DEF SetPlayerState, Placed, ViewRead
  <2>2. Placed(c)'
    BY <1>7, <2>1 DEF SetPlayerState, Goto, profile, TypeOK, LoginSteps, LineSteps,
       Placed, HeldBack, VersionRead, ViewRead, Known, Absent, LoggedIn
  <2> QED
    BY <1>7, <2>1, <2>2, Tells DEF faults, SetPlayerState, TypeOK, StoredAtTheGate
<1>8. CASE PersistPlayerState(c)
  <2>1. seen[c].view \in Views
    BY <1>8 DEF PersistPlayerState, Placed, ViewRead
  <2>2. Placed(c)'
    BY <1>8, <2>1 DEF PersistPlayerState, Persisted, Goto, profile, TypeOK, LoginSteps, LineSteps,
       Placed, HeldBack, VersionRead, ViewRead, Known, Absent, LoggedIn
  <2> QED
    BY <1>8, <2>1, <2>2, Tells DEF faults, PersistPlayerState, Persisted, TypeOK, StoredAtTheGate
<1>9. CASE UpdateView(c)
  <2>1. seen[c].view \in Views
    BY <1>9 DEF UpdateView, Placed, ViewRead
  <2>2. Placed(c)'
    BY <1>9, <2>1 DEF UpdateView, UpdatedView, Done, Fresh, Goto, profile, TypeOK, LoginSteps,
       LineSteps, Placed, HeldBack, VersionRead, ViewRead, Known, Absent, LoggedIn
  <2> QED
    BY <1>9, <2>1, <2>2, Tells, FreshSeen DEF faults, UpdateView, UpdatedView, Done, TypeOK, StoredAtTheGate
<1> QED
  BY <1>6, <1>7, <1>8, <1>9

LEMMA Leaves ==
  ASSUME IInv, NEW c \in Connections, RemovePresence(c)
  PROVE  IInv'
<1>1. TypeOK /\ StoredAtTheGate /\ Placed(c) /\ PlayerOf[c] \in Players /\ "gone" \in Steps
  BY ConstantFacts DEF IInv, Steps
<1>2. Placed(c)'
  BY <1>1 DEF RemovePresence, Goto, Fresh, profile, TypeOK, LoginSteps, LineSteps, Placed, HeldBack,
     VersionRead, ViewRead, Known, Absent, LoggedIn
<1> QED
  BY <1>1, <1>2, Tells, FreshSeen DEF faults, RemovePresence, TypeOK, StoredAtTheGate

---------------------------------------------------------------------------
(* Reloads and restarts *)

(* A step of reload a that tells no connection's handler anything. *)
LEMMA Reloads ==
  ASSUME IInv, NEW a \in Admins, NEW r \in Reloading, reload' = [reload EXCEPT ![a] = r],
         UNCHANGED <<profile, at, seen, unpaid>>, unsaved' \subseteq Players,
         views' \in {f.views : f \in Files}, enabled' \subseteq Rooms, version' \in Agreements,
         cache' \in [Rooms -> {"unknown", "open", "closed"}],
         place' \in [Players -> Views \union {None}],
         stored' \in [Players -> Views \union {None}],
         present' \in [Connections -> Views \union {Pending, None}],
         \A p \in Players : place[p] # None => place'[p] # None,
         \A p \in Players : agreed[p] = None /\ place[p] = Admission => place'[p] = Admission,
         \A p \in Players : agreed[p] = None => stored'[p] = stored[p],
         \A d \in Connections :
           \/ present'[d] = present[d]
           \/ present[d] # None /\ agreed[PlayerOf[d]] # None,
         Visiting(a)'
  PROVE  IInv'
<1>1. TypeOK'
  BY ConstantFacts DEF IInv, TypeOK, profile, LoggedIn
<1>2. StoredAtTheGate'
  BY DEF IInv, StoredAtTheGate, profile
<1>3. ASSUME NEW d \in Connections PROVE Placed(d)'
  <2>1. PlayerOf[d] \in Players
    BY ConstantFacts
  <2> QED
    BY <2>1 DEF IInv, profile, Placed, HeldBack, VersionRead, ViewRead, Known, Absent, LoggedIn
<1>4. ASSUME NEW d \in Connections PROVE Provided(d)'
  BY DEF IInv, profile, Provided
<1>5. ASSUME NEW b \in Admins, b # a PROVE Visiting(b)'
  BY <1>5 DEF IInv, TypeOK, Visiting, profile
<1> QED
  BY <1>1, <1>2, <1>3, <1>4, <1>5 DEF IInv
(* The world's files, the rooms of the table and the cache. *)
LEMMA ReloadsWorld ==
  ASSUME IInv, NEW a \in Admins,
         \/ \E f \in Files : ReloadRuntime(a, f)
         \/ DisableRoomsExcept(a) \/ UpsertRoom(a) \/ InvalidateRoom(a) \/ SetAppConfig(a)
         \/ ClearRoomCache(a)
  PROVE  IInv'
<1>1. TypeOK /\ Visiting(a) /\ reload[a] \in Reloading
  BY DEF IInv, TypeOK
<1>2. \A d \in Connections : PlayerOf[d] \in Players
  BY ConstantFacts
<1> USE <1>1, <1>2 DEF TypeOK
<1>3. ASSUME NEW f \in Files, ReloadRuntime(a, f) PROVE IInv'
  <2> DEFINE r == [[Waiting EXCEPT !.files = f, !.rooms = f.rooms] EXCEPT !.at = "disable"]
  <2>1. r \in Reloading
    BY ConstantFacts DEF Reloading, Waiting
  <2>2. place' \in [Players -> Views \union {None}]
    BY <1>3, ConstantFacts DEF ReloadRuntime, Merged
  <2>3. \A p \in Players : place[p] # None => place'[p] # None
    BY <1>3, ConstantFacts DEF ReloadRuntime, Merged
  <2>4. \A p \in Players : place[p] = Admission => place'[p] = Admission
    <3>1. Admission \in f.views
      BY ConstantFacts
    <3> QED
      BY <1>3, <3>1 DEF ReloadRuntime, Merged, Kept
  <2>5. Visiting(a)'
    BY <1>3 DEF ReloadRuntime, Proceed, Visiting, Waiting
  <2> QED
    BY <1>3, <2>1, <2>2, <2>3, <2>4, <2>5, Reloads DEF faults, ReloadRuntime, Proceed
<1>4. CASE DisableRoomsExcept(a)
  <2> DEFINE r == [reload[a] EXCEPT !.at = "upsert"]
  <2>1. r \in Reloading
    BY DEF Reloading
  <2>2. Visiting(a)'
    BY <1>4 DEF DisableRoomsExcept, Proceed, Visiting, profile, Reloading
  <2> QED
    BY <1>4, <2>1, <2>2, Reloads DEF faults, DisableRoomsExcept, Disabled, Proceed
<1>5. CASE UpsertRoom(a)
  <2>1. PICK room \in reload[a].rooms :
          /\ enabled' = Upserted(a, room)
          /\ Proceed(a, "invalidate", [reload[a] EXCEPT !.room = room, !.rooms = @ \ {room}])
    BY <1>5 DEF UpsertRoom
  <2> DEFINE r == [[reload[a] EXCEPT !.room = room, !.rooms = @ \ {room}] EXCEPT !.at = "invalidate"]
  <2>2. room \in Rooms
    BY DEF Reloading
  <2>3. r \in Reloading
    BY <2>2 DEF Reloading
  <2>4. Visiting(a)'
    BY <1>5, <2>1 DEF UpsertRoom, Proceed, Visiting, profile, Reloading
  <2> QED
    BY <1>5, <2>1, <2>2, <2>3, <2>4, Reloads DEF faults, UpsertRoom, Upserted, Proceed
<1>6. CASE InvalidateRoom(a)
  <2> DEFINE r == [[reload[a] EXCEPT !.room = None] EXCEPT !.at = "upsert"]
  <2>1. r \in Reloading
    BY DEF Reloading
  <2>2. Visiting(a)'
    BY <1>6 DEF InvalidateRoom, Proceed, Visiting, profile, Reloading
  <2> QED
    BY <1>6, <2>1, <2>2, Reloads DEF faults, InvalidateRoom, Proceed
<1>7. CASE SetAppConfig(a)
  <2> DEFINE r == [reload[a] EXCEPT !.at = "clear"]
  <2>1. r \in Reloading /\ reload[a].files.version \in Agreements
    BY <1>7, ConstantFacts DEF Reloading, SetAppConfig, Visiting
  <2>2. Visiting(a)'
    BY <1>7 DEF SetAppConfig, Proceed, Visiting, profile, Reloading
  <2> QED
    BY <1>7, <2>1, <2>2, Reloads DEF faults, SetAppConfig, Proceed
<1>8. CASE ClearRoomCache(a)
  <2> DEFINE r == [reload[a] EXCEPT !.at = "visits"]
  <2>1. r \in Reloading
    BY DEF Reloading
  <2>2. Visiting(a)'
    BY <1>8 DEF ClearRoomCache, Proceed, Visiting, profile, Reloading
  <2> QED
    BY <1>8, <2>1, <2>2, Reloads DEF faults, ClearRoomCache, Proceed
<1> QED
  BY <1>3, <1>4, <1>5, <1>6, <1>7, <1>8

(* The connections in rooms, one after another. *)
LEMMA ReloadsVisits ==
  ASSUME IInv, NEW a \in Admins,
         ConnectionViews(a) \/ VisitContext(a) \/ CacheVisit(a) \/ ReloadEnds(a)
  PROVE  IInv'
<1>1. TypeOK /\ Visiting(a) /\ reload[a] \in Reloading
  BY DEF IInv, TypeOK
<1> USE <1>1 DEF TypeOK, world
<1>2. CASE ConnectionViews(a)
  <2>1. PICK idle \in SUBSET {c \in Connections : at[c] \in {"idle", "leaving"}} :
          Proceed(a, "visit", [reload[a] EXCEPT
            !.visits = {<<c, present[c]>> : c \in {c \in Connections \ idle : present[c] \in Rooms}}])
    BY <1>2 DEF ConnectionViews
  <2> DEFINE visits == {<<c, present[c]>> : c \in {c \in Connections \ idle : present[c] \in Rooms}}
             r == [[reload[a] EXCEPT !.visits = visits] EXCEPT !.at = "visit"]
  <2>2. visits \in SUBSET (Connections \X Rooms)
    OBVIOUS
  <2>3. \A visit \in visits : agreed[PlayerOf[visit[1]]] # None
    BY ConstantFacts DEF IInv, Placed, HeldBack
  <2>4. r \in Reloading
    BY <2>2 DEF Reloading
  <2>5. reload'[a] = r /\ UNCHANGED agreed
    BY <1>2, <2>1 DEF ConnectionViews, Proceed, profile
  <2>6. /\ r.at = "visit" /\ r.visits = visits /\ r.visit = reload[a].visit
        /\ r.files = reload[a].files /\ reload[a].at = "visits"
    BY <1>2 DEF ConnectionViews, Reloading
  <2> HIDE DEF visits, r
  <2>7. Visiting(a)'
    BY <2>3, <2>5, <2>6 DEF Visiting
  <2> QED
    BY <1>2, <2>1, <2>4, <2>7, Reloads DEF faults, ConnectionViews, Proceed, r, visits
<1>3. CASE VisitContext(a)
  <2>1. PICK visit \in reload[a].visits :
          \/ /\ cache[visit[2]] # "unknown"
             /\ Proceed(a, "escape", [reload[a] EXCEPT !.context = cache[visit[2]], !.visit = visit])
             /\ UNCHANGED cache
          \/ /\ cache' = [cache EXCEPT ![visit[2]] = "unknown"]
             /\ Proceed(a, "cache", [reload[a] EXCEPT !.context = TableContext(visit[2]), !.visit = visit])
    BY <1>3 DEF VisitContext
  <2>2. visit \in Connections \X Rooms /\ agreed[PlayerOf[visit[1]]] # None
    BY DEF Reloading, Visiting
  <2>3. ASSUME NEW step \in {"escape", "cache"}, NEW context \in {"open", "closed"},
               Proceed(a, step, [reload[a] EXCEPT !.context = context, !.visit = visit]),
               cache' \in [Rooms -> {"unknown", "open", "closed"}]
        PROVE  IInv'
    <3> DEFINE r == [[reload[a] EXCEPT !.context = context, !.visit = visit] EXCEPT !.at = step]
    <3>1. r \in Reloading
      BY <2>2 DEF Reloading
    <3>2. Visiting(a)'
      BY <1>3, <2>2, <2>3 DEF VisitContext, Proceed, Visiting, profile, Reloading
    <3> QED
      BY <1>3, <2>3, <3>1, <3>2, Reloads DEF faults, VisitContext, Proceed
  <2>4. cache[visit[2]] # "unknown" => cache[visit[2]] \in {"open", "closed"}
    BY <2>2
  <2> QED
    BY <2>1, <2>2, <2>3, <2>4 DEF TableContext
<1>4. CASE CacheVisit(a)
  <2> DEFINE r == [reload[a] EXCEPT !.at = "escape"]
  <2>1. r \in Reloading
    BY DEF Reloading
  <2>2. Visiting(a)'
    BY <1>4 DEF CacheVisit, Proceed, Visiting, profile, Reloading
  <2>3. cache' \in [Rooms -> {"unknown", "open", "closed"}]
    BY <1>4 DEF CacheVisit, Visiting, Reloading
  <2> QED
    BY <1>4, <2>1, <2>2, <2>3, Reloads DEF faults, CacheVisit, Proceed
<1>5. CASE ReloadEnds(a)
  <2> DEFINE r == [[Waiting EXCEPT !.at = "done"] EXCEPT !.at = "done"]
  <2>1. r \in Reloading
    BY DEF Reloading, Waiting
  <2>2. Visiting(a)'
    BY <1>5 DEF ReloadEnds, Proceed, Visiting, profile, Waiting
  <2> QED
    BY <1>5, <2>1, <2>2, Reloads DEF faults, ReloadEnds, Proceed
<1> QED
  BY <1>2, <1>3, <1>4, <1>5

(* A player is sent out of a closed room. *)
LEMMA ReloadsEscape ==
  ASSUME IInv, NEW a \in Admins,
         \/ EscapeClosedRoom(a) \/ EscapeSetPlayerState(a) \/ EscapeSavePlayerState(a)
         \/ EscapeUpdateView(a)
  PROVE  IInv'
<1> DEFINE visit == reload[a].visit
           p == PlayerOf[visit[1]]
           next == [[reload[a] EXCEPT !.visits = @ \ {reload[a].visit}, !.visit = None,
                                      !.context = "street"] EXCEPT !.at = "visit"]
           goes(step) == [reload[a] EXCEPT !.at = step]
<1>1. TypeOK /\ Visiting(a) /\ reload[a] \in Reloading
  BY DEF IInv, TypeOK
<1>2. visit \in Connections \X Rooms
  BY <1>1 DEF Visiting, EscapeClosedRoom, EscapeSetPlayerState, EscapeSavePlayerState, EscapeUpdateView
<1>3. agreed[p] # None
  BY <1>1 DEF Visiting, EscapeClosedRoom, EscapeSetPlayerState, EscapeSavePlayerState,
     EscapeUpdateView
<1>4. UNCHANGED <<world, profile, at, seen, unpaid>> /\ unsaved' \subseteq Players
  BY <1>1 DEF TypeOK, faults, EscapeClosedRoom, EscapeSetPlayerState, EscapeSavePlayerState, EscapeUpdateView
<1>5. /\ next \in Reloading /\ goes("set") \in Reloading /\ goes("save") \in Reloading
      /\ goes("update") \in Reloading
  BY <1>1 DEF Reloading
<1>6. p \in Players /\ Front[visit[2]] \in Views /\ None \notin Views
  BY <1>2, ConstantFacts
<1>7. reload[a].files \in Files
  BY <1>1 DEF Visiting, EscapeClosedRoom, EscapeSetPlayerState, EscapeSavePlayerState,
     EscapeUpdateView
<1> USE <1>1, <1>2, <1>3, <1>4, <1>5, <1>6, <1>7
<1>8. ASSUME NextVisit(a) PROVE Visiting(a)' /\ reload' = [reload EXCEPT ![a] = next]
  BY <1>8 DEF NextVisit, Proceed, Visiting, profile, TypeOK, Reloading
<1>9. ASSUME NEW step \in {"set", "save", "update"}, Proceed(a, step, reload[a]),
             reload[a].at \in {"escape", "set", "save"}
      PROVE  Visiting(a)' /\ reload' = [reload EXCEPT ![a] = goes(step)]
  BY <1>9 DEF Proceed, Visiting, profile, TypeOK, Reloading
<1>10. CASE EscapeClosedRoom(a)
  BY <1>8, <1>9, <1>10, Reloads DEF faults, EscapeClosedRoom, TypeOK, world
<1>11. CASE EscapeSetPlayerState(a)
  BY <1>9, <1>11, Reloads DEF faults, EscapeSetPlayerState, TypeOK, world
<1>12. CASE EscapeSavePlayerState(a)
  BY <1>9, <1>12, Reloads DEF faults, EscapeSavePlayerState, EscapeSaved, TypeOK, world
<1>13. CASE EscapeUpdateView(a)
  <2>1. present' = [present EXCEPT ![visit[1]] = IF @ = None THEN None ELSE Front[visit[2]]]
    BY <1>13 DEF EscapeUpdateView, UpdatedView
  <2>2. present' \in [Connections -> Views \union {Pending, None}]
    BY <2>1 DEF TypeOK
  <2>3. ASSUME NEW d \in Connections
        PROVE  \/ present'[d] = present[d]
               \/ present[d] # None /\ agreed[PlayerOf[d]] # None
    BY <2>1 DEF TypeOK
  <2> QED
    BY <1>8, <1>13, <2>2, <2>3, Reloads DEF faults, EscapeUpdateView, TypeOK, world
<1> QED
  BY <1>10, <1>11, <1>12, <1>13

---------------------------------------------------------------------------
(* Failures *)

(* A connection breaks off, or gives up its line, with what it wrote.      *)
LEMMA BreaksOff ==
  ASSUME IInv, NEW c \in Connections, Breaks(c), UNCHANGED <<world, place, present, reload>>,
         stored' \in [Players -> Views \union {None}],
         read' \in [Players -> Agreements \union {None}],
         agreed' \in [Players -> Agreements \union {None}], wallet' \subseteq Players,
         unsaved' \subseteq Players, unpaid' \subseteq Connections,
         \A p \in Players : agreed[p] # None => agreed'[p] # None,
         \A p \in Players : agreed[p] = None =>
           /\ stored[p] = Admission => stored'[p] = Admission
           /\ stored'[p] \in {None, Admission},
         \A d \in Connections : Provided(d)'
  PROVE  IInv'
<1>1. TypeOK /\ StoredAtTheGate /\ (\A d \in Connections : Placed(d) /\ PlayerOf[d] \in Players)
  BY ConstantFacts DEF IInv
<1>2. PICK step \in {"gone", "idle", "leaving"} :
        /\ Goto(c, step, Fresh)
        /\ step = "gone" => at[c] \in {"new"} \union LoginSteps
        /\ step # "gone" => at[c] \in LineSteps
  BY DEF Breaks, Done
<1>3. at' = [at EXCEPT ![c] = step] /\ seen' = [seen EXCEPT ![c] = Fresh] /\ step \in Steps
  BY <1>2 DEF Goto, Steps
<1>4. at[c] \in LineSteps => place[PlayerOf[c]] # None
  BY <1>1 DEF TypeOK, LoggedIn
<1>5. TypeOK'
  BY <1>1, <1>2, <1>3, <1>4, FreshSeen DEF TypeOK, world, LoggedIn, LineSteps
<1>6. StoredAtTheGate'
  BY <1>1 DEF StoredAtTheGate, TypeOK
<1>7. ASSUME NEW d \in Connections PROVE Placed(d)'
  <2>1. HeldBack(d)'
    <3>1. CASE d = c
      BY <1>1, <1>2, <1>3, <3>1 DEF TypeOK, Placed, HeldBack, Absent, LoggedIn, LineSteps, LoginSteps
    <3>2. CASE d # c
      BY <1>1, <1>3, <3>2 DEF TypeOK, Placed, HeldBack, LoggedIn
    <3> QED
      BY <3>1, <3>2
  <2>2. VersionRead(d)' /\ ViewRead(d)' /\ Known(d)' /\ Absent(d)'
    <3>1. CASE d = c
      BY <1>1, <1>2, <1>3, <1>4, <3>1 DEF TypeOK, Placed, VersionRead, ViewRead, Known, Absent,
         LoggedIn, LineSteps, LoginSteps
    <3>2. CASE d # c
      BY <1>1, <1>3, <3>2 DEF TypeOK, Placed, VersionRead, ViewRead, Known, Absent, LoggedIn
    <3> QED
      BY <3>1, <3>2
  <2> QED
    BY <2>1, <2>2 DEF Placed
<1>8. ASSUME NEW a \in Admins PROVE Visiting(a)'
  <2>1. Visiting(a) /\ reload[a] \in Reloading /\ reload' = reload
    BY <1>1 DEF IInv, TypeOK
  <2>2. \A visit \in Connections \X Rooms : PlayerOf[visit[1]] \in Players
    BY <1>1
  <2>3. reload[a].visits \subseteq Connections \X Rooms
    BY <2>1 DEF Reloading
  <2> QED
    BY <2>1, <2>2, <2>3 DEF Visiting
<1> QED
  BY <1>5, <1>6, <1>7, <1>8 DEF IInv

(* Nobody is owed more than before when something but the grant fails.     *)
LEMMA StillProvided ==
  ASSUME IInv, NEW c \in Connections, Breaks(c), at[c] # "grant",
         UNCHANGED <<agreed, unpaid>>, wallet \subseteq wallet', NEW d \in Connections
  PROVE  Provided(d)'
<1>1. TypeOK /\ Provided(d)
  BY DEF IInv
<1>2. PICK step \in {"gone", "idle", "leaving"} :
        at' = [at EXCEPT ![c] = step] /\ (step # "gone" => at[c] \in LineSteps)
  BY DEF Breaks, Done, Goto
<1>3. at'[d] \notin {"new", "gone"} => at[d] \notin {"new", "gone"}
  BY <1>1, <1>2 DEF TypeOK, LineSteps
<1>4. \A e \in Connections : at[e] = "grant" => at'[e] = "grant"
  BY <1>1, <1>2 DEF TypeOK
<1> QED
  BY <1>1, <1>3, <1>4 DEF Provided

(* When the grant fails, or is not come to, who was there is noted. *)
LEMMA NoLongerProvided ==
  ASSUME IInv, NEW c \in Connections, Breaks(c), at[c] # "new", unpaid' = Unprovided(c),
         \A p \in Players \ {PlayerOf[c]} : agreed'[p] = agreed[p],
         wallet \subseteq wallet', NEW d \in Connections
  PROVE  Provided(d)'
<1>1. TypeOK /\ Provided(d) /\ PlayerOf[d] \in Players
  BY ConstantFacts DEF IInv
<1>2. PICK step \in {"gone", "idle", "leaving"} :
        at' = [at EXCEPT ![c] = step] /\ (step # "gone" => at[c] \in LineSteps)
  BY DEF Breaks, Done, Goto
<1>3. at'[d] \notin {"new", "gone"} => at[d] \notin {"new", "gone"}
  BY <1>1, <1>2 DEF TypeOK, LineSteps
<1>4. CASE PlayerOf[d] = PlayerOf[c]
  BY <1>3, <1>4 DEF Provided, Unprovided
<1>5. CASE PlayerOf[d] # PlayerOf[c]
  <2>1. agreed'[PlayerOf[d]] = agreed[PlayerOf[d]] /\ unpaid \subseteq unpaid'
    BY <1>1, <1>5 DEF Unprovided
  <2>2. \A e \in Connections : PlayerOf[e] = PlayerOf[d] => at'[e] = at[e]
    BY <1>1, <1>2, <1>5 DEF TypeOK
  <2> QED
    BY <1>1, <1>3, <2>1, <2>2 DEF Provided
<1> QED
  BY <1>4, <1>5

LEMMA Failures ==
  ASSUME IInv, NEW c \in Connections, Fails(c)
  PROVE  IInv'
<1> DEFINE p == PlayerOf[c]
<1>1. TypeOK /\ StoredAtTheGate /\ Placed(c) /\ p \in Players /\ seen[c] \in Seen
  BY ConstantFacts DEF IInv, TypeOK
<1>2. Breaks(c) /\ UNCHANGED <<world, place, present, reload>>
  BY DEF Fails, ReadFails, SaveFails, MarkFails, EnsureWalletFails, AdmitFails, GrantFails
<1>3. \A q \in Players : agreed[q] = None => stored[q] \in {None, Admission}
  BY <1>1 DEF StoredAtTheGate
<1> USE <1>1, <1>2, <1>3
<1>4. CASE ReadFails(c)
  BY <1>4, BreaksOff, StillProvided DEF ReadFails, faults, profile, TypeOK
<1>5. CASE SaveFails(c)
  <2>1. seen[c].view \in Views \union {None} /\ (agreed[p] = None => seen[c].view = Admission)
    BY <1>5 DEF SaveFails, Placed, HeldBack, Seen
  <2>2. stored' \in [Players -> Views \union {None}]
    BY <1>5, <2>1 DEF SaveFails, Persisted, TypeOK
  <2>3. \A q \in Players : agreed[q] = None =>
          /\ stored[q] = Admission => stored'[q] = Admission
          /\ stored'[q] \in {None, Admission}
    BY <1>5, <2>1 DEF SaveFails, Persisted, TypeOK
  <2>4. at[c] # "grant" /\ UNCHANGED <<agreed, unpaid, wallet, read>> /\ unsaved' \subseteq Players
    BY <1>5 DEF SaveFails, profile, TypeOK
  <2> QED
    BY <2>2, <2>3, <2>4, BreaksOff, StillProvided DEF TypeOK
<1>6. CASE MarkFails(c)
  <2>1. seen[c].version \in Agreements
    BY <1>6 DEF MarkFails, Placed, VersionRead
  <2>2. read' \in [Players -> Agreements \union {None}]
    BY <1>6, <2>1 DEF MarkFails, TypeOK
  <2>3. at[c] # "grant" /\ UNCHANGED <<agreed, unpaid, unsaved, wallet, stored>>
    BY <1>6 DEF MarkFails, faults
  <2> QED
    BY <2>2, <2>3, BreaksOff, StillProvided DEF TypeOK
<1>7. CASE EnsureWalletFails(c)
  <2>1. /\ at[c] # "grant" /\ UNCHANGED <<agreed, unpaid, unsaved, read, stored>>
        /\ wallet \subseteq wallet' /\ wallet' \subseteq Players
    BY <1>7 DEF EnsureWalletFails, faults, WalletsDue, TypeOK
  <2> QED
    BY <2>1, BreaksOff, StillProvided DEF TypeOK
<1>8. CASE AdmitFails(c)
  <2>1. seen[c].version \in Agreements /\ seen[c].version # None
    BY <1>8, ConstantFacts DEF AdmitFails, Placed, VersionRead
  <2>2. /\ agreed' \in [Players -> Agreements \union {None}]
        /\ \A q \in Players : agreed[q] # None => agreed'[q] # None
        /\ \A q \in Players \ {p} : agreed'[q] = agreed[q]
    BY <1>8, <2>1 DEF AdmitFails, TypeOK
  <2>3. /\ at[c] # "new" /\ UNCHANGED <<unsaved, read, stored, wallet>>
        /\ unpaid' = Unprovided(c) /\ unpaid' \subseteq Connections
    BY <1>8 DEF AdmitFails, Unprovided, TypeOK
  <2> QED
    BY <2>2, <2>3, BreaksOff, NoLongerProvided DEF TypeOK
<1>9. CASE GrantFails(c)
  <2>1. /\ at[c] # "new" /\ UNCHANGED <<unsaved, read, stored, agreed>>
        /\ unpaid' = Unprovided(c) /\ unpaid' \subseteq Connections
        /\ wallet \subseteq wallet' /\ wallet' \subseteq Players
    BY <1>9 DEF GrantFails, Unprovided, TypeOK
  <2> QED
    BY <2>1, BreaksOff, NoLongerProvided DEF TypeOK
<1> QED
  BY <1>4, <1>5, <1>6, <1>7, <1>8, <1>9 DEF Fails

(* A reload that stops has told nobody anything it had not begun to. *)
LEMMA ReloadFailures ==
  ASSUME IInv, NEW a \in Admins, ReloadFails(a)
  PROVE  IInv'
<1> DEFINE r == [[Waiting EXCEPT !.at = "done"] EXCEPT !.at = "done"]
           visit == reload[a].visit
           p == PlayerOf[visit[1]]
<1>1. TypeOK /\ Visiting(a) /\ reload[a] \in Reloading
  BY DEF IInv, TypeOK
<1>2. r \in Reloading
  BY DEF Reloading, Waiting
<1>3. reload' = [reload EXCEPT ![a] = r]
  BY DEF ReloadFails, RegistrationFails, VisitFails, EscapeSaveFails, Stops, Proceed
<1>4. Visiting(a)'
  BY <1>1, <1>3 DEF Visiting, Waiting, TypeOK
<1> USE <1>1, <1>2, <1>3, <1>4 DEF TypeOK
<1>5. CASE RegistrationFails(a)
  <2>1. enabled' \subseteq Rooms
    BY <1>5 DEF RegistrationFails, Disabled, Upserted, Reloading
  <2> QED
    BY <1>5, <2>1, Reloads DEF RegistrationFails, faults
<1>6. CASE VisitFails(a)
  BY <1>6, Reloads DEF VisitFails, faults, world
<1>7. CASE EscapeSaveFails(a)
  <2>1. visit \in Connections \X Rooms /\ agreed[p] # None
    BY <1>7 DEF EscapeSaveFails, Visiting
  <2>2. p \in Players /\ Front[visit[2]] \in Views
    BY <2>1, ConstantFacts
  <2>3. /\ stored' \in [Players -> Views \union {None}] /\ unsaved' \subseteq Players
        /\ \A q \in Players : agreed[q] = None => stored'[q] = stored[q]
    BY <1>7, <2>1, <2>2 DEF EscapeSaveFails, EscapeSaved
  <2> QED
    BY <1>7, <2>3, Reloads DEF EscapeSaveFails, world
<1> QED
  BY <1>5, <1>6, <1>7 DEF ReloadFails

(* Connections are gone, and nothing but the tables is left. *)
LEMMA Restarts ==
  ASSUME IInv, NEW f \in Files, Restart(f)
  PROVE  IInv'
<1> USE DEF Restart, profile
<1>1. TypeOK
  BY DEF IInv
<1>2. Waiting \in Reloading /\ {"new", "gone"} \subseteq Steps /\ Opened(f) \subseteq Rooms
  BY ConstantFacts DEF Waiting, Reloading, Steps, Opened
<1>3. TypeOK'
  BY <1>1, <1>2, ConstantFacts, FreshSeen DEF TypeOK, LoggedIn, LineSteps
<1>4. StoredAtTheGate'
  BY DEF IInv, StoredAtTheGate
<1>5. ASSUME NEW c \in Connections PROVE Placed(c)' /\ Provided(c)'
  <2>1. at'[c] \in {"new", "gone"} /\ present'[c] = None
    BY DEF TypeOK
  <2> QED
    BY <2>1 DEF Placed, HeldBack, VersionRead, ViewRead, Known, Absent, Provided, LoggedIn,
       LineSteps, LoginSteps
<1>6. \A a \in Admins : Visiting(a)'
  BY DEF Visiting, Waiting
<1> QED
  BY <1>3, <1>4, <1>5, <1>6 DEF IInv

---------------------------------------------------------------------------
LEMMA InitIInv == Init => IInv /\ CastInv
<1> SUFFICES ASSUME Init PROVE IInv /\ CastInv
  OBVIOUS
<1>0. CastInv
  BY ConstantsAssumption DEF Init, ConstantsAssumption, CastInv
<1>1. PICK f \in Files :
        /\ views = f.views /\ enabled = Opened(f) /\ version = f.version
        /\ cache = [r \in Rooms |-> "unknown"]
        /\ place = [p \in Players |-> None]
        /\ stored = [p \in Players |-> IF p \in Residents THEN Admission ELSE None]
        /\ present = [c \in Connections |-> None]
        /\ read = [p \in Players |-> IF p \in Residents THEN f.version ELSE None]
        /\ agreed = read /\ wallet = Residents
        /\ at = [c \in Connections |-> "new"]
        /\ seen = [c \in Connections |-> Fresh]
        /\ reload = [a \in Admins |-> Waiting]
        /\ unsaved = {} /\ unpaid = {}
  BY <1>0 DEF Init, CastInv, Cast
<1>2. Waiting \in Reloading /\ "new" \in Steps /\ Opened(f) \subseteq Rooms
        /\ Residents \subseteq Players /\ Admission \in Views /\ f.version \in Agreements
  BY ConstantsAssumption, ConstantFacts DEF Waiting, Reloading, Steps, Opened, ConstantsAssumption
<1>3. TypeOK
  BY <1>1, <1>2, FreshSeen DEF TypeOK, LoggedIn, LineSteps
<1>4. StoredAtTheGate
  BY <1>1, <1>2, ConstantFacts DEF StoredAtTheGate
<1>5. ASSUME NEW c \in Connections PROVE Placed(c) /\ Provided(c)
  BY <1>1 DEF Placed, HeldBack, VersionRead, ViewRead, Known, Absent, Provided, LoggedIn,
     LineSteps, LoginSteps
<1>6. \A a \in Admins : Visiting(a)
  BY <1>1 DEF Visiting, Waiting
<1> QED
  BY <1>0, <1>3, <1>4, <1>5, <1>6 DEF IInv

LEMMA NextIInv == IInv /\ CastInv /\ [Next]_vars => IInv' /\ CastInv'
<1> SUFFICES ASSUME IInv, CastInv, [Next]_vars PROVE IInv' /\ CastInv'
  OBVIOUS
<1>0. CastInv' /\ cast.connections \subseteq Connections /\ cast.lines \subseteq Lines
        /\ cast.files \subseteq Files
  BY DEF CastInv, Cast, Next, vars
<1>1. CASE UNCHANGED vars
  BY <1>0, <1>1 DEF vars, IInv, TypeOK, StoredAtTheGate, Placed, HeldBack, VersionRead, ViewRead, Known,
     Absent, Provided, Visiting, LoggedIn
<1>2. ASSUME NEW c \in Connections, Login(c) PROVE IInv'
  BY <1>2, LoginReads, LoginWrites, WalletAtLogin DEF Login
<1>3. ASSUME NEW c \in Connections, Handle(c) PROVE IInv'
  BY <1>3, Contexts, Observes, AtTheGate, Agrees, Commands, Moving, Leaves DEF Handle
<1>4. ASSUME NEW c \in Connections, Disconnect(c) \/ \E line \in Lines : Line(c, line) PROVE IInv'
  BY <1>4, Prompt
<1>5. ASSUME NEW a \in Admins, Reload(a) PROVE IInv'
  BY <1>0, <1>5, ReloadsWorld, ReloadsVisits, ReloadsEscape DEF Reload
<1>6. ASSUME NEW f \in Files, Restart(f) PROVE IInv'
  BY <1>6, Restarts
<1>7. ASSUME NEW c \in Connections, Fails(c) PROVE IInv'
  BY <1>7, Failures
<1>8. ASSUME NEW a \in Admins, ReloadFails(a) PROVE IInv'
  BY <1>8, ReloadFailures
<1> QED
  BY <1>0, <1>1, <1>2, <1>3, <1>4, <1>5, <1>6, <1>7, <1>8 DEF Next

(* The strengthened invariant of the server. *)
THEOREM Invariance == Spec => [](IInv /\ CastInv)
  BY InitIInv, NextIInv, PTL DEF Spec

(* Every variable keeps its type, and the runtime knows the player of every
   connection that has logged in, for any connections and reloads. *)
THEOREM TypeCorrect == Spec => []TypeOK
<1>1. IInv => TypeOK
  BY DEF IInv
<1> QED
  BY <1>1, Invariance, PTL

(* No login, command, reload or restart lets a player who has not agreed
   away from the admission view, in the runtime or in player_states. *)
THEOREM GateHolds == Spec => []PendingStayAtTheGate
<1>1. IInv => PendingStayAtTheGate
  BY DEF IInv, Placed, HeldBack, PendingStayAtTheGate
<1> QED
  BY <1>1, Invariance, PTL

(* A crash or an error between the agreement and the initial grant is
   repaired by the next login: every agreed player at a prompt has its wallet
   or is about to get it, unless that failed after this login. *)
THEOREM WalletsProvided == Spec => []AgreedPlayersHaveWallets
<1>1. IInv => AgreedPlayersHaveWallets
  BY DEF IInv, Provided, AgreedPlayersHaveWallets
<1> QED
  BY <1>1, Invariance, PTL

(* No late escape of a reload and no command leaves a presence record for a
   connection that is gone. *)
THEOREM RecordsEnd == Spec => []GoneConnectionsLeaveNoRecord
<1>1. IInv => GoneConnectionsLeaveNoRecord
  BY DEF IInv, Placed, Absent, GoneConnectionsLeaveNoRecord
<1> QED
  BY <1>1, Invariance, PTL

(* A player is only ever recorded to have agreed to what it has read last. *)
THEOREM AgreementsRead == Spec => AgreementsWereRead
<1> DEFINE Agreed == \A p \in Players : agreed'[p] # agreed[p] => agreed'[p] = read[p]
<1>1. IInv /\ CastInv /\ [Next]_vars => [Agreed]_vars
  <2> SUFFICES ASSUME IInv, CastInv, Next, agreed' # agreed PROVE Agreed
    BY DEF vars
  <2>0. cast.connections \subseteq Connections
    BY DEF CastInv, Cast
  <2>1. PICK c \in Connections : AdmitPlayer(c) \/ AdmitFails(c)
    BY <2>0 DEF Next, Fails, ReloadFails, ReadFails, SaveFails, MarkFails, EnsureWalletFails,
       GrantFails, RegistrationFails, VisitFails, EscapeSaveFails, Login, Handle, Reload, Restart, Line, Disconnect, RoomContext, FillCache, Observe,
       AppService, Gate, MarkAgreementRead, AcceptAdmission, EnsureWalletAndEnter, Enter, LeaveRoom,
       AnswerLine, Execute, SetPlayerState, PersistPlayerState, UpdateView, RemovePresence,
       EnsureWalletIfAdmitted, PlayerAdmission, LoadPlayerState, SetOrCreatePlayer, Arrive,
       HoldAtAdmission, SaveAtLogin, MarkOnline, ReloadRuntime, DisableRoomsExcept, UpsertRoom,
       InvalidateRoom, SetAppConfig, ClearRoomCache, ConnectionViews, VisitContext, CacheVisit,
       EscapeClosedRoom, EscapeSetPlayerState, EscapeSavePlayerState, EscapeUpdateView, ReloadEnds,
       profile
  <2> QED
    BY <2>1 DEF AdmitPlayer, AdmitFails, Admits, IInv, TypeOK
<1> QED
  BY <1>1, Invariance, PTL DEF Spec, AgreementsWereRead

---------------------------------------------------------------------------
(* The copies of a place.  While one connection of a player has a line or  *)
(* logs in, beside none but those that have not begun, and no reload runs, *)
(* the copies differ only as its own next writes make good, or as a save    *)
(* failed to make good.                                                    *)
Settled == (LineSteps \ {"persist", "present"}) \union {"idle"}

Alone(c) == /\ \A d \in Connections \ {c} : PlayerOf[d] = PlayerOf[c] => at[d] = "new"
            /\ \A a \in Admins : reload[a].at = "todo"

Same(c) == /\ place[PlayerOf[c]] = stored[PlayerOf[c]]
           /\ present[c] \in {Pending, stored[PlayerOf[c]]}

InStep(c) ==
  LET p == PlayerOf[c] IN
  /\ at[c] = "save"     => seen[c].view = place[p]
  /\ at[c] = "online"   => seen[c].view = place[p] /\ stored[p] = place[p]
  /\ at[c] \in Settled  => /\ present[c] # None
                           /\ p \in unsaved \/ Same(c)
  /\ at[c] = "persist"  => seen[c].view = place[p] /\ present[c] # None
  /\ at[c] = "present"  => /\ seen[c].view = place[p] /\ stored[p] = place[p]
                           /\ present[c] # None

CopiesInv == \A c \in Connections : Alone(c) => InStep(c)

(* The steps of one connection. *)
Works(c) == \/ Login(c) \/ Handle(c) \/ Disconnect(c) \/ Fails(c)
            \/ \E line \in Lines : Line(c, line)

(* A connection goes on, and is never new again. *)
LEMMA GoesOn ==
  ASSUME TypeOK, NEW c \in Connections, NEW step, NEW what, Goto(c, step, what)
  PROVE  /\ at'[c] = step /\ seen'[c] = what
         /\ \A d \in Connections \ {c} : at'[d] = at[d] /\ seen'[d] = seen[d]
BY DEF TypeOK, Goto

(* It writes where its own player is, and its own presence record. *)
LEMMA WritesItsOwn ==
  ASSUME TypeOK, NEW c \in Connections, Works(c)
  PROVE  /\ UNCHANGED reload
         /\ \A d \in Connections \ {c} : present'[d] = present[d]
         /\ \A p \in Players \ {PlayerOf[c]} : place'[p] = place[p] /\ stored'[p] = stored[p]
         /\ unsaved' \ {PlayerOf[c]} = unsaved \ {PlayerOf[c]}
<1> DEFINE Own == /\ UNCHANGED reload
                  /\ \A d \in Connections \ {c} : present'[d] = present[d]
                  /\ \A p \in Players \ {PlayerOf[c]} : place'[p] = place[p] /\ stored'[p] = stored[p]
                  /\ unsaved' \ {PlayerOf[c]} = unsaved \ {PlayerOf[c]}
<1>1. UNCHANGED <<place, stored, present, reload, unsaved>> => Own
  OBVIOUS
<1>2. ASSUME NEW v, place' = [place EXCEPT ![PlayerOf[c]] = v], UNCHANGED <<stored, present, reload, unsaved>>
      PROVE  Own
  BY <1>2 DEF TypeOK
<1>3. ASSUME NEW v, stored' = [stored EXCEPT ![PlayerOf[c]] = v], UNCHANGED <<place, present, reload>>,
             unsaved' \in {unsaved \ {PlayerOf[c]}, unsaved \union {PlayerOf[c]}}
      PROVE  Own
  BY <1>3 DEF TypeOK
<1>4. ASSUME NEW v, present' = [present EXCEPT ![c] = v], UNCHANGED <<place, stored, reload, unsaved>>
      PROVE  Own
  BY <1>4 DEF TypeOK
<1> HIDE DEF Own
<1>5. Login(c) => Own
  BY <1>1, <1>2, <1>3, <1>4 DEF faults, Login, EnsureWalletIfAdmitted, PlayerAdmission,
     LoadPlayerState, SetOrCreatePlayer, Arrive, HoldAtAdmission, SaveAtLogin, MarkOnline
<1>6. /\ RoomContext(c) \/ FillCache(c) \/ Observe(c) \/ AppService(c) \/ Gate(c) => Own
      /\ MarkAgreementRead(c) \/ AcceptAdmission(c) \/ AdmitPlayer(c) => Own
      /\ EnsureWalletAndEnter(c) \/ Enter(c) \/ LeaveRoom(c) \/ AnswerLine(c) => Own
  BY <1>1 DEF faults, RoomContext, FillCache, Observe, AppService, Gate, MarkAgreementRead,
     AcceptAdmission, AdmitPlayer, EnsureWalletAndEnter, Enter, LeaveRoom, AnswerLine
<1>7. Execute(c) \/ SetPlayerState(c) => Own
  BY <1>1, <1>2 DEF faults, Execute, SetPlayerState
<1>8. PersistPlayerState(c) \/ UpdateView(c) \/ RemovePresence(c) => Own
  BY <1>3, <1>4 DEF faults, PersistPlayerState, Persisted, UpdateView, UpdatedView, RemovePresence
<1>9. Disconnect(c) \/ (\E line \in Lines : Line(c, line)) => Own
  BY <1>1 DEF faults, Disconnect, Line
<1>10. ReadFails(c) \/ MarkFails(c) \/ EnsureWalletFails(c) \/ AdmitFails(c) \/ GrantFails(c) => Own
  BY <1>1 DEF faults, ReadFails, MarkFails, EnsureWalletFails, AdmitFails, GrantFails
<1>11. SaveFails(c) => Own
  <2>1. stored = [stored EXCEPT ![PlayerOf[c]] = stored[PlayerOf[c]]]
    BY DEF TypeOK
  <2> QED
    BY <1>3, <2>1 DEF SaveFails, Persisted
<1> QED
  BY <1>5, <1>6, <1>7, <1>8, <1>9, <1>10, <1>11 DEF Works, Handle, Fails, Own

(* A line that goes on, without a write of its own. *)
LEMMA LineGoesOn ==
  ASSUME TypeOK, NEW c \in Connections, InStep(c), NEW step, NEW what, Goto(c, step, what),
         step \in {"leaving", "gone"} \/ (step \in Settled /\ at[c] \in Settled
                                           /\ UNCHANGED <<place, stored, present>>
                                           /\ unsaved \subseteq unsaved')
  PROVE  InStep(c)' /\ at'[c] # "new"
BY GoesOn DEF InStep, Same, Settled, LineSteps

(* What a connection of an agreed or unagreed player does next leaves the  *)
(* copies in step.                                                         *)
LEMMA LoginInStep ==
  ASSUME IInv, NEW c \in Connections, InStep(c), Login(c)
  PROVE  InStep(c)' /\ at'[c] # "new"
<1>0. TypeOK /\ Known(c) /\ ViewRead(c) /\ PlayerOf[c] \in Players
  BY ConstantFacts DEF IInv, Placed
<1>1. \/ EnsureWalletIfAdmitted(c) /\ Goto(c, "admission", Fresh)
      \/ \E what : PlayerAdmission(c) /\ Goto(c, "load", what)
      \/ \E what : LoadPlayerState(c) /\ Goto(c, "create", what)
      \/ \E what : SetOrCreatePlayer(c) /\ Goto(c, "arrive", what)
      \/ Arrive(c) \/ HoldAtAdmission(c) \/ SaveAtLogin(c) \/ MarkOnline(c)
  BY DEF Login, EnsureWalletIfAdmitted, PlayerAdmission, LoadPlayerState, SetOrCreatePlayer
<1>2. ASSUME NEW step \in {"admission", "load", "create", "arrive", "hold"}, NEW what,
             Goto(c, step, what)
      PROVE  InStep(c)' /\ at'[c] # "new"
  BY <1>0, <1>2, GoesOn DEF InStep, Settled, LineSteps
<1>3. CASE Arrive(c)
  <2>1. CASE seen[c].admitted
    <3>1. /\ Goto(c, "save", [seen[c] EXCEPT !.view = place[PlayerOf[c]]]) /\ UNCHANGED place
          /\ [seen[c] EXCEPT !.view = place[PlayerOf[c]]].view = place[PlayerOf[c]]
      BY <1>0, <1>3, <2>1 DEF Arrive, TypeOK, Seen
    <3>2. at'[c] = "save" /\ seen'[c].view = place[PlayerOf[c]]
      BY <1>0, <3>1 DEF Goto, TypeOK, Seen
    <3> QED
      BY <3>1, <3>2 DEF InStep, Settled, LineSteps
  <2>2. CASE ~seen[c].admitted
    BY <1>2, <1>3, <2>2 DEF Arrive
  <2> QED
    BY <2>1, <2>2
<1>4. CASE HoldAtAdmission(c)
  <2>1. Goto(c, "save", seen[c]) /\ place'[PlayerOf[c]] = seen[c].view
    BY <1>0, <1>4 DEF HoldAtAdmission, TypeOK
  <2> QED
    BY <1>0, <2>1, GoesOn DEF InStep, Settled, LineSteps
<1>5. CASE SaveAtLogin(c)
  <2>1. /\ Goto(c, "online", seen[c]) /\ stored'[PlayerOf[c]] = seen[c].view /\ UNCHANGED place
        /\ seen[c].view = place[PlayerOf[c]]
    BY <1>0, <1>5 DEF SaveAtLogin, TypeOK, InStep
  <2> QED
    BY <1>0, <2>1, GoesOn DEF InStep, Settled, LineSteps
<1>6. CASE MarkOnline(c)
  <2>1. /\ Goto(c, "idle", Fresh) /\ UNCHANGED <<place, stored>>
        /\ present'[c] \in {seen[c].view, Pending}
        /\ seen[c].view = place[PlayerOf[c]] /\ stored[PlayerOf[c]] = place[PlayerOf[c]]
        /\ place[PlayerOf[c]] # None /\ Pending # None
    BY <1>0, <1>6, ConstantFacts DEF MarkOnline, Done, TypeOK, InStep, Known
  <2> QED
    BY <1>0, <2>1, GoesOn DEF InStep, Same, Settled, LineSteps
<1> QED
  BY <1>1, <1>2, <1>3, <1>4, <1>5, <1>6

(* So do the steps of a line that write no copy, ... *)
LEMMA LineInStep ==
  ASSUME IInv, NEW c \in Connections, InStep(c),
         \/ RoomContext(c) \/ FillCache(c) \/ Observe(c) \/ AppService(c) \/ Gate(c)
         \/ MarkAgreementRead(c) \/ AcceptAdmission(c) \/ AdmitPlayer(c)
         \/ EnsureWalletAndEnter(c) \/ Enter(c) \/ LeaveRoom(c) \/ AnswerLine(c)
         \/ Disconnect(c) \/ RemovePresence(c) \/ (\E line \in Lines : Line(c, line))
         \/ ReadFails(c) \/ MarkFails(c) \/ EnsureWalletFails(c) \/ AdmitFails(c) \/ GrantFails(c)
  PROVE  InStep(c)' /\ at'[c] # "new"
<1>0. TypeOK
  BY DEF IInv
<1> DEFINE Settles == \/ \E what : \E step \in {"leaving", "gone"} : Goto(c, step, what)
                      \/ /\ \E what : \E step \in Settled : Goto(c, step, what)
                         /\ at[c] \in Settled /\ UNCHANGED <<place, stored, present>>
                         /\ unsaved \subseteq unsaved'
<1>1. {"idle", "context", "fill", "observe", "config", "gate", "mark", "accept", "admit",
       "grant", "view", "set"} \subseteq Settled
  BY DEF Settled, LineSteps
<1>2. RoomContext(c) \/ FillCache(c) => Settles
  BY <1>1 DEF faults, RoomContext, FillCache, WithContext
<1>3. Observe(c) \/ AppService(c) \/ Gate(c) => Settles
  BY <1>1 DEF faults, Observe, AppService, Gate, Done, Sends
<1>4. MarkAgreementRead(c) \/ AcceptAdmission(c) \/ AdmitPlayer(c) => Settles
  BY <1>1 DEF faults, MarkAgreementRead, AcceptAdmission, AdmitPlayer, Done
<1>5. EnsureWalletAndEnter(c) \/ Enter(c) \/ LeaveRoom(c) \/ AnswerLine(c) => Settles
  BY <1>1 DEF faults, EnsureWalletAndEnter, Enter, LeaveRoom, AnswerLine, Done, Relocate, Sends
<1>6. Disconnect(c) \/ RemovePresence(c) \/ (\E line \in Lines : Line(c, line)) => Settles
  BY <1>1 DEF faults, Disconnect, RemovePresence, Line
<1>8. /\ ReadFails(c) => Settles
      /\ MarkFails(c) \/ EnsureWalletFails(c) \/ AdmitFails(c) \/ GrantFails(c) => Settles
  <2>1. ASSUME Breaks(c), at[c] \in {"new", "admission", "load"} \union Settled, UNCHANGED unsaved,
               UNCHANGED <<place, stored, present>>
        PROVE  Settles
    <3>1. PICK step \in {"gone", "idle", "leaving"} :
            Goto(c, step, Fresh) /\ (step = "idle" => at[c] \in LineSteps)
      BY <2>1 DEF Breaks, Done
    <3>2. step = "idle" => at[c] \in Settled
      BY <2>1, <3>1 DEF LineSteps
    <3> QED
      BY <1>1, <2>1, <3>1, <3>2
  <2> HIDE DEF Settles
  <2>2. ReadFails(c) => Settles
    BY <1>1, <2>1 DEF ReadFails, faults
  <2>3. MarkFails(c) => Settles
    BY <1>1, <2>1 DEF MarkFails, faults
  <2>4. EnsureWalletFails(c) => Settles
    BY <2>1 DEF EnsureWalletFails, faults
  <2>5. AdmitFails(c) => Settles
    BY <1>1, <2>1 DEF AdmitFails
  <2>6. GrantFails(c) => Settles
    BY <1>1, <2>1 DEF GrantFails
  <2> QED
    BY <2>2, <2>3, <2>4, <2>5, <2>6
<1>9. Settles
  <2> HIDE DEF Settles
  <2> QED
    BY <1>2, <1>3, <1>4, <1>5, <1>6, <1>8
<1> QED
  BY <1>0, <1>9, LineGoesOn

(* ... and the writes, one after the other. *)
LEMMA WritesInStep ==
  ASSUME IInv, NEW c \in Connections, InStep(c),
         Execute(c) \/ SetPlayerState(c) \/ PersistPlayerState(c) \/ UpdateView(c) \/ SaveFails(c)
  PROVE  InStep(c)' /\ at'[c] # "new"
<1> DEFINE p == PlayerOf[c]
<1>0. TypeOK /\ Known(c) /\ p \in Players /\ {"view", "set", "idle"} \subseteq Settled
      /\ Settled \intersect {"persist", "present", "save", "online"} = {} /\ None # Pending
  BY ConstantFacts DEF IInv, Placed, Settled, LineSteps
<1>1. at[c] \in Settled \union {"persist", "present"} => present[c] # None
  BY DEF InStep
<1>2. at[c] \in {"view", "set"} => present[c] # None
  BY <1>0, <1>1
<1>3. CASE Execute(c)
  <2>1. CASE Done(c) /\ UNCHANGED place
    <3>1. /\ at[c] \in Settled /\ UNCHANGED <<place, stored, present>> /\ Goto(c, "idle", Fresh)
          /\ unsaved \subseteq unsaved'
      BY <1>0, <1>3, <2>1 DEF Execute, Done, faults
    <3> QED
      BY <1>0, <3>1, LineGoesOn
  <2>2. ASSUME NEW v, place' = [place EXCEPT ![p] = v], Goto(c, "persist", [seen[c] EXCEPT !.view = v])
        PROVE  InStep(c)' /\ at'[c] # "new"
    <3>1. place'[p] = v /\ [seen[c] EXCEPT !.view = v].view = v /\ present' = present
          /\ present[c] # None
      BY <1>0, <1>2, <1>3, <2>2 DEF TypeOK, Seen, Execute
    <3>2. at'[c] = "persist" /\ seen'[c].view = v
      BY <1>0, <2>2 DEF Goto, TypeOK, Seen
    <3> QED
      BY <1>0, <3>1, <3>2 DEF InStep
  <2> QED
    BY <1>3, <2>1, <2>2 DEF Execute
<1>4. CASE SetPlayerState(c)
  <2>1. /\ place'[p] = seen[c].view /\ present' = present /\ present[c] # None
        /\ Goto(c, "persist", seen[c])
    BY <1>0, <1>2, <1>4 DEF TypeOK, SetPlayerState
  <2> QED
    BY <1>0, <2>1, GoesOn DEF InStep
<1>5. CASE PersistPlayerState(c)
  <2>1. /\ stored'[p] = seen[c].view /\ UNCHANGED <<place, present>> /\ present[c] # None
        /\ seen[c].view = place[p] /\ Goto(c, "present", seen[c])
    BY <1>0, <1>5 DEF TypeOK, PersistPlayerState, Persisted, InStep
  <2> QED
    BY <1>0, <2>1, GoesOn DEF InStep
<1>6. CASE UpdateView(c)
  <2>1. /\ present'[c] = seen[c].view /\ UNCHANGED <<place, stored>>
        /\ seen[c].view = place[p] /\ stored[p] = place[p] /\ Goto(c, "idle", Fresh)
        /\ place[p] # None
    BY <1>0, <1>6 DEF TypeOK, UpdateView, UpdatedView, Done, InStep, LoggedIn, LineSteps
  <2> QED
    BY <1>0, <2>1, GoesOn DEF InStep, Same
<1>7. CASE SaveFails(c)
  <2>1. /\ at[c] \in {"save", "persist"} /\ present' = present /\ p \in unsaved' /\ Breaks(c)
        /\ at[c] = "persist" => present[c] # None
    BY <1>1, <1>7 DEF SaveFails
  <2>2. PICK step \in {"gone", "idle", "leaving"} :
          Goto(c, step, Fresh) /\ (step = "idle" => at[c] = "persist")
    BY <2>1 DEF Breaks, Done, LineSteps
  <2> QED
    BY <1>0, <2>1, <2>2, GoesOn DEF InStep, Settled, LineSteps
<1> QED
  BY <1>3, <1>4, <1>5, <1>6, <1>7

(* Every step of a connection is one of those, and goes on. *)
LEMMA WorksGoOn ==
  ASSUME IInv, NEW c \in Connections, Works(c)
  PROVE  /\ at'[c] # "new"
         /\ \A d \in Connections \ {c} : at'[d] = at[d] /\ seen'[d] = seen[d]
<1>0. TypeOK
  BY DEF IInv
<1> DEFINE Goes == /\ at'[c] # "new"
                   /\ \A d \in Connections \ {c} : at'[d] = at[d] /\ seen'[d] = seen[d]
<1>1. ASSUME NEW step, step # "new", NEW what, Goto(c, step, what) PROVE Goes
  BY <1>0, <1>1, GoesOn
<1> HIDE DEF Goes
<1>2. Done(c) => Goes
  BY <1>1 DEF Done
<1>3. \A line, v : Sends(c, line, v) => Goes
  BY <1>1 DEF Sends
<1>4. Login(c) => Goes
  BY <1>1, <1>2 DEF Login, EnsureWalletIfAdmitted, PlayerAdmission, LoadPlayerState,
     SetOrCreatePlayer, Arrive, HoldAtAdmission, SaveAtLogin, MarkOnline
<1>5. RoomContext(c) \/ FillCache(c) => Goes
  BY <1>1 DEF RoomContext, FillCache, WithContext
<1>6. Observe(c) \/ AppService(c) \/ Gate(c) => Goes
  BY <1>1, <1>2, <1>3 DEF Observe, AppService, Gate
<1>7. MarkAgreementRead(c) \/ AcceptAdmission(c) \/ AdmitPlayer(c) \/ EnsureWalletAndEnter(c) => Goes
  BY <1>1, <1>2, <1>3 DEF Relocate, MarkAgreementRead, AcceptAdmission, AdmitPlayer, EnsureWalletAndEnter
<1>8. Enter(c) \/ LeaveRoom(c) \/ AnswerLine(c) \/ Execute(c) => Goes
  BY <1>1, <1>2, <1>3 DEF Relocate, Enter, LeaveRoom, AnswerLine, Execute
<1>9. SetPlayerState(c) \/ PersistPlayerState(c) \/ UpdateView(c) \/ RemovePresence(c) => Goes
  BY <1>1, <1>2 DEF SetPlayerState, PersistPlayerState, UpdateView, RemovePresence
<1>10. Disconnect(c) \/ (\E line \in Lines : Line(c, line)) => Goes
  BY <1>1 DEF Disconnect, Line
<1>11. Fails(c) => Goes
  BY <1>1, <1>2 DEF Fails, ReadFails, SaveFails, MarkFails, EnsureWalletFails, AdmitFails,
     GrantFails, Breaks
<1>12. Goes
  BY <1>4, <1>5, <1>6, <1>7, <1>8, <1>9, <1>10, <1>11 DEF Works, Handle
<1> QED
  BY <1>12 DEF Goes

(* A player is in step when it is alone, and what another does leaves it. *)
LEMMA CopiesWork ==
  ASSUME IInv, CopiesInv, NEW c \in Connections, Works(c)
  PROVE  CopiesInv'
<1>0. /\ UNCHANGED reload /\ at'[c] # "new"
      /\ \A d \in Connections \ {c} : /\ at'[d] = at[d] /\ seen'[d] = seen[d]
                                      /\ present'[d] = present[d]
      /\ \A p \in Players \ {PlayerOf[c]} : place'[p] = place[p] /\ stored'[p] = stored[p]
      /\ unsaved' \ {PlayerOf[c]} = unsaved \ {PlayerOf[c]}
  BY WorksGoOn, WritesItsOwn DEF IInv
<1>1. Alone(c) => InStep(c)'
  BY LoginInStep, LineInStep, WritesInStep DEF CopiesInv, Works, Handle, Fails
<1>2. Alone(c)' => Alone(c)
  BY <1>0 DEF Alone
<1>3. ASSUME NEW d \in Connections \ {c}, Alone(d)' PROVE InStep(d)'
  <2>1. PlayerOf[c] # PlayerOf[d]
    BY <1>0, <1>3 DEF Alone
  <2>2. PlayerOf[d] \in Players \ {PlayerOf[c]}
    BY <2>1, ConstantFacts
  <2>3. Alone(d)
    BY <1>0, <1>3, <2>1 DEF Alone
  <2>4. InStep(d)
    BY <2>3 DEF CopiesInv
  <2>5. /\ at'[d] = at[d] /\ seen'[d] = seen[d] /\ present'[d] = present[d]
        /\ place'[PlayerOf[d]] = place[PlayerOf[d]] /\ stored'[PlayerOf[d]] = stored[PlayerOf[d]]
    BY <1>0, <2>2
  <2>6. PlayerOf[d] \in unsaved => PlayerOf[d] \in unsaved'
    BY <1>0, <2>1
  <2> QED
    BY <2>4, <2>5, <2>6 DEF InStep, Same
<1> QED
  BY <1>1, <1>2, <1>3 DEF CopiesInv

(* A reload that has begun leaves nobody alone until the server restarts. *)
LEMMA CopiesReload ==
  ASSUME IInv, NEW a \in Admins, Reload(a) \/ ReloadFails(a)
  PROVE  CopiesInv'
<1>0. DOMAIN reload = Admins /\ "at" \in DOMAIN reload[a] /\ "at" \in DOMAIN Waiting
  BY DEF IInv, TypeOK, Reloading, Waiting
<1>1. ASSUME NEW step, step # "todo", NEW what, "at" \in DOMAIN what, Proceed(a, step, what)
      PROVE  reload'[a].at # "todo"
  BY <1>0, <1>1 DEF Proceed
<1>2. ASSUME NEW f, ReloadRuntime(a, f) PROVE reload'[a].at # "todo"
  BY <1>0, <1>1, <1>2 DEF ReloadRuntime
<1>3. DisableRoomsExcept(a) \/ UpsertRoom(a) \/ InvalidateRoom(a) => reload'[a].at # "todo"
  BY <1>0, <1>1 DEF DisableRoomsExcept, UpsertRoom, InvalidateRoom
<1>4. SetAppConfig(a) \/ ClearRoomCache(a) \/ ConnectionViews(a) => reload'[a].at # "todo"
  BY <1>0, <1>1 DEF SetAppConfig, ClearRoomCache, ConnectionViews
<1>5. VisitContext(a) \/ CacheVisit(a) => reload'[a].at # "todo"
  BY <1>0, <1>1 DEF VisitContext, CacheVisit
<1>6. NextVisit(a) => reload'[a].at # "todo"
  BY <1>0, <1>1 DEF NextVisit
<1>7. EscapeClosedRoom(a) \/ EscapeSetPlayerState(a) => reload'[a].at # "todo"
  BY <1>0, <1>1, <1>6 DEF EscapeClosedRoom, EscapeSetPlayerState
<1>8. EscapeSavePlayerState(a) \/ EscapeUpdateView(a) \/ ReloadEnds(a) => reload'[a].at # "todo"
  BY <1>0, <1>1, <1>6 DEF EscapeSavePlayerState, EscapeUpdateView, ReloadEnds
<1>9. ReloadFails(a) => reload'[a].at # "todo"
  BY <1>0, <1>1 DEF ReloadFails, RegistrationFails, VisitFails, EscapeSaveFails, Stops
<1>10. reload'[a].at # "todo"
  BY <1>2, <1>3, <1>4, <1>5, <1>7, <1>8, <1>9 DEF Reload
<1> QED
  BY <1>10 DEF CopiesInv, Alone

(* After a restart there are no connections but new ones and gone ones. *)
LEMMA CopiesRestart ==
  ASSUME NEW f, Restart(f)
  PROVE  CopiesInv'
<1>1. \A c \in Connections : at'[c] \in {"new", "gone"}
  BY DEF Restart
<1> QED
  BY <1>1 DEF CopiesInv, InStep, Settled, LineSteps

LEMMA CopiesInvNext == IInv /\ CastInv /\ CopiesInv /\ [Next]_vars => CopiesInv'
<1> SUFFICES ASSUME IInv, CastInv, CopiesInv, [Next]_vars PROVE CopiesInv'
  OBVIOUS
<1>0. cast.connections \subseteq Connections /\ cast.lines \subseteq Lines
  BY DEF CastInv, Cast
<1>1. CASE UNCHANGED vars
  BY <1>1 DEF vars, CopiesInv, Alone, InStep, Same
<1>2. ASSUME NEW c \in cast.connections,
             \/ Login(c) \/ Handle(c) \/ Disconnect(c) \/ Fails(c)
             \/ \E line \in cast.lines : Line(c, line)
      PROVE  CopiesInv'
  BY <1>0, <1>2, CopiesWork DEF Works
<1>3. ASSUME NEW a \in Admins, Reload(a) \/ ReloadFails(a) PROVE CopiesInv'
  BY <1>3, CopiesReload
<1>4. ASSUME NEW f, Restart(f) PROVE CopiesInv'
  BY <1>4, CopiesRestart
<1> QED
  BY <1>1, <1>2, <1>3, <1>4 DEF Next

(* What the runtime, player_states and the presence registry say of a      *)
(* player agrees between two lines of its only connection, from its first  *)
(* login, while no reload runs: whatever the lines were, and through       *)
(* restarts of the server, unless the last save of the player failed.      *)
THEOREM CopiesAgree == Spec => []CopiesAgreeWhenAlone
<1>1. Init => CopiesInv
  BY DEF Init, CopiesInv, InStep, Settled, LineSteps
<1>2. CopiesInv => CopiesAgreeWhenAlone
  BY DEF CopiesInv, Alone, InStep, Same, Settled, CopiesAgreeWhenAlone
<1>3. Spec => []CopiesInv
  BY <1>1, CopiesInvNext, Invariance, PTL DEF Spec
<1> QED
  BY <1>2, <1>3, PTL
=============================================================================
