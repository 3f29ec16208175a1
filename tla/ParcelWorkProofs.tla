-------------------------- MODULE ParcelWorkProofs --------------------------
(* ParcelWork for any sessions, players, desks, commands, routes and calls: *)
(* its types, who works at a desk, when a command is handled, and that its *)
(* statements do what WorkBoard does in single steps.                      *)
EXTENDS ParcelWork, TLAPS

(* The statement at which a session is, and what is left of its operation. *)
Placed(op, r) ==
  LET S == ScriptOf(op)
  IN  \E k \in 0..Len(S) - 1 : /\ Len(r) = Len(S) - k
                               /\ \A i \in 1..Len(r) : r[i] = S[i + k]

Following(r) == IF Len(r) = 1 THEN "end" ELSE r[2]

Leads(op, a, b) ==
  \/ /\ op \in {"createDesk", "hire", "fire", "addRoute", "dropRoute"}
     /\ a = "owned" /\ b = (IF op = "createDesk" THEN "count" ELSE "desk")
  \/ op = "createDesk" /\ a = "count" /\ b = "createDesk"
  \/ /\ op \in {"hire", "fire", "addRoute", "dropRoute"}
     /\ a = "desk" /\ b = op
  \/ op = "fire" /\ a = "fire" /\ b = "endShifts"
  \/ op = "fire" /\ a = "endShifts" /\ b = "end"
  \/ /\ op \in {"createDesk", "hire", "addRoute", "dropRoute", "transfer",
                "startShift", "endShift", "claim"}
     /\ a = op /\ b = "end"
  \/ op = "say" /\ a = "store"  /\ b = "notify"
  \/ op = "say" /\ a = "notify" /\ b = "routes"
  \/ op = "say" /\ a = "routes" /\ b = "queue"
  \/ op = "say" /\ a = "queue"  /\ b = "end"
  \/ op = "request" /\ a = "lock"    /\ b = "request"
  \/ op = "request" /\ a = "request" /\ b = "bill"
  \/ op = "request" /\ a = "bill"    /\ b = "end"
  \/ op = "startShift" /\ a = "assigned" /\ b = "absent"
  \/ op = "startShift" /\ a = "absent"   /\ b = "startShift"
  \/ op = "claim" /\ a = "queued" /\ b = "assigned"
  \/ op \in {"claim", "finish"} /\ a = "assigned" /\ b = "active"
  \/ op = "claim" /\ a = "active" /\ b = "claim"
  \/ op = "finish" /\ a = "mine"   /\ b = "assigned"
  \/ op = "finish" /\ a = "active" /\ b = "lock"
  \/ op = "finish" /\ a = "lock"   /\ b = "finish"
  \/ op = "finish" /\ a = "finish" /\ b = "open"
  \/ op = "finish" /\ a = "open"   /\ b = "commit"
  \/ op = "finish" /\ a = "commit" /\ b = "end"

---------------------------------------------------------------------------
(* Scripts *)

(* A script is not empty and made of labels. *)
LEMMA Scripts ==
  ASSUME NEW op \in Operations
  PROVE  ScriptOf(op) \in Seq(Labels) /\ Len(ScriptOf(op)) \in 1..7
<1>1. CASE op = "createDesk"
  BY <1>1 DEF ScriptOf, Labels, Operations, Checks
<1>2. CASE op = "hire"
  BY <1>2 DEF ScriptOf, Labels, Operations, Checks
<1>3. CASE op = "fire"
  BY <1>3 DEF ScriptOf, Labels, Operations, Checks
<1>4. CASE op = "addRoute"
  BY <1>4 DEF ScriptOf, Labels, Operations, Checks
<1>5. CASE op = "dropRoute"
  BY <1>5 DEF ScriptOf, Labels, Operations, Checks
<1>6. CASE op = "transfer"
  BY <1>6 DEF ScriptOf, Labels, Operations, Checks
<1>7. CASE op = "say"
  BY <1>7 DEF ScriptOf, Labels, Operations, Checks
<1>8. CASE op = "request"
  BY <1>8 DEF ScriptOf, Labels, Operations, Checks
<1>9. CASE op = "startShift"
  BY <1>9 DEF ScriptOf, Labels, Operations, Checks
<1>10. CASE op = "endShift"
  BY <1>10 DEF ScriptOf, Labels, Operations, Checks
<1>11. CASE op = "claim"
  BY <1>11 DEF ScriptOf, Labels, Operations, Checks
<1>12. CASE op = "finish"
  BY <1>12 DEF ScriptOf, Labels, Operations, Checks
<1> QED
  BY <1>1, <1>2, <1>3, <1>4, <1>5, <1>6, <1>7, <1>8, <1>9, <1>10, <1>11, <1>12 DEF Operations

(* A fresh script is placed, and so is what is left after a statement. *)
LEMMA Begun ==
  ASSUME NEW op \in Operations
  PROVE  Placed(op, ScriptOf(op))
<1> DEFINE S == ScriptOf(op)
<1>1. Len(S) \in 1..7
  BY Scripts
<1>2. 0 \in 0..Len(S) - 1 /\ Len(S) = Len(S) - 0 /\ \A i \in 1..Len(S) : S[i] = S[i + 0]
  BY <1>1
<1> QED
  BY <1>2 DEF Placed

LEMMA Left ==
  ASSUME NEW op \in Operations, NEW r \in Seq(Labels), Placed(op, r), Len(r) # 1
  PROVE  Placed(op, Tail(r))
<1> DEFINE S == ScriptOf(op)
<1>1. Len(S) \in 1..7 /\ S \in Seq(Labels)
  BY Scripts
<1>2. PICK k \in 0..Len(S) - 1 : Len(r) = Len(S) - k /\ \A i \in 1..Len(r) : r[i] = S[i + k]
  BY DEF Placed
<1>3. /\ Len(Tail(r)) = Len(r) - 1
      /\ \A i \in 1..Len(Tail(r)) : Tail(r)[i] = r[i + 1]
  BY <1>1, <1>2
<1> HIDE DEF S
<1>4. \A i \in 1..Len(Tail(r)) : i + 1 \in 1..Len(r) /\ r[i + 1] = S[i + 1 + k] /\ i + 1 + k = i + (k + 1)
  BY <1>1, <1>2, <1>3
<1>5. /\ k + 1 \in 0..Len(S) - 1 /\ Len(Tail(r)) = Len(S) - (k + 1)
      /\ \A i \in 1..Len(Tail(r)) : Tail(r)[i] = S[i + (k + 1)]
  BY <1>1, <1>2, <1>3, <1>4
<1> QED
  BY <1>5 DEF Placed, S

(* The statement before another, in each operation. *)
LEMMA Leading ==
  ASSUME NEW op \in Operations, NEW r, Placed(op, r)
  PROVE  Leads(op, r[1], Following(r)) /\ Len(r) \in 1..7
<1> DEFINE S == ScriptOf(op)
<1>1. Len(S) \in 1..7
  BY Scripts
<1>2. PICK k \in 0..Len(S) - 1 : Len(r) = Len(S) - k /\ \A i \in 1..Len(r) : r[i] = S[i + k]
  BY DEF Placed
<1>4. Leads(op, S[1 + k], IF k = Len(S) - 1 THEN "end" ELSE S[2 + k])
  <2>1. CASE op = "createDesk"
    BY <1>1, <1>2, <2>1 DEF ScriptOf, Leads
  <2>2. CASE op = "hire"
    BY <1>1, <1>2, <2>2 DEF ScriptOf, Leads
  <2>3. CASE op = "fire"
    BY <1>1, <1>2, <2>3 DEF ScriptOf, Leads
  <2>4. CASE op = "addRoute"
    BY <1>1, <1>2, <2>4 DEF ScriptOf, Leads
  <2>5. CASE op = "dropRoute"
    BY <1>1, <1>2, <2>5 DEF ScriptOf, Leads
  <2>6. CASE op = "transfer"
    BY <1>1, <1>2, <2>6 DEF ScriptOf, Leads
  <2>7. CASE op = "say"
    BY <1>1, <1>2, <2>7 DEF ScriptOf, Leads
  <2>8. CASE op = "request"
    BY <1>1, <1>2, <2>8 DEF ScriptOf, Leads
  <2>9. CASE op = "startShift"
    BY <1>1, <1>2, <2>9 DEF ScriptOf, Leads
  <2>10. CASE op = "endShift"
    BY <1>1, <1>2, <2>10 DEF ScriptOf, Leads
  <2>11. CASE op = "claim"
    BY <1>1, <1>2, <2>11 DEF ScriptOf, Leads
  <2>12. CASE op = "finish"
    BY <1>1, <1>2, <2>12 DEF ScriptOf, Leads
  <2> QED
    BY <2>1, <2>2, <2>3, <2>4, <2>5, <2>6, <2>7, <2>8, <2>9, <2>10, <2>11, <2>12 DEF Operations
<1> HIDE DEF S
<1>3. Len(r) \in 1..7
  <2> DEFINE n == Len(S)
  <2> HIDE DEF n
  <2>1. n \in 1..7 /\ k \in 0..n - 1 /\ Len(r) = n - k
    BY <1>1, <1>2 DEF n
  <2> QED
    BY <2>1
<1>5. r[1] = S[1 + k] /\ (Len(r) # 1 => r[2] = S[2 + k]) /\ (Len(r) = 1 <=> k = Len(S) - 1)
  BY <1>1, <1>2, <1>3
<1> QED
  BY <1>3, <1>4, <1>5 DEF Following

---------------------------------------------------------------------------
(* The inductive invariant *)

Hired(d, p) == deskOwner[d] = p \/ staff[d][p] # "none"

(* What the statements a session has issued have told it, and still holds  *)
(* when it issues the next.                                                *)
Knows(s, label) ==
  LET c == call[s].command
      d == call[s].desk
      p == call[s].player
  IN  /\ label = "store" => command[c] = NoCommand
      /\ label \in {"routes", "queue"} => <<"command", c>> \in inbox
      /\ label \in {"absent", "startShift", "active", "claim"} => Hired(d, p)
      /\ label \in {"finish", "open", "commit"} => holder[c] = s /\ command[c] # NoCommand
      /\ label \in {"open", "commit"} => item[d][c] = [status |-> "claimed", by |-> p]
      /\ label = "commit" => (read[s].last <=> OpenBesides(d, c) = {})

SessionInv(s) ==
  todo[s] # <<>> => /\ call[s] \in Call
                    /\ Placed(call[s].op, todo[s])
                    /\ Knows(s, todo[s][1])

(* Two sessions never store the same command. *)
SaysApart ==
  \A s, t \in Sessions :
     s # t /\ call[s].op = "say" /\ call[t].op = "say" /\ call[s].command = call[t].command
       => call[s].command = None

TablesTyped ==
  /\ parcelOwner \in Players
  /\ deskOwner \in [Desks -> Players \cup {None}]
  /\ staff \in [Desks -> [Players -> {"none", "active", "removed"}]]
  /\ shift \in [Desks -> SUBSET Players]
  /\ route \in SUBSET (Desks \X Prefixes)
  /\ command \in [Commands -> [status : {"none", "delivered", "handled"},
                               owner : Players \cup {None}]]
  /\ item \in [Desks -> [Commands -> Item]]
  /\ requested \in SUBSET Commands
  /\ inbox \in SUBSET ({"command", "request"} \X Commands)

SessionsTyped ==
  /\ holder \in [Commands -> Sessions \cup {None}]
  /\ todo \in [Sessions -> Seq(Labels)]
  /\ call \in [Sessions -> Call \cup {NoCall}]
  /\ read \in [Sessions -> Read]

LEMMA Types == TypeOK <=> TablesTyped /\ SessionsTyped /\ cachedOwner \in Players
BY DEF TypeOK, TablesTyped, SessionsTyped

(* DrainedCommandsHandled, item by item. *)
Drained(c) == /\ \E d \in Desks : item[d][c].status = "done"
              /\ \A d \in Desks : item[d][c].status \in {"none", "done"}

IInv == /\ TypeOK
        /\ menu \in Menus
        /\ \A s \in Sessions : SessionInv(s)
        /\ SaysApart
        /\ \A c \in Commands : Drained(c) => command[c].status = "handled"
        /\ OnlyHiredWorkersWork

LEMMA DrainedIsDone ==
  ASSUME NEW c \in Commands
  PROVE  {item[d][c].status : d \in Desks} \ {"none"} = {"done"} <=> Drained(c)
BY DEF Drained

(* A call has the arguments its statements use. *)
LEMMA CallTyped ==
  ASSUME NEW c \in Call
  PROVE  /\ c.op \in Operations /\ c.player \in Players /\ c.player # None
         /\ c.op \notin {"transfer", "say", "request"} => c.desk \in Desks
         /\ c.op \in {"say", "request", "claim", "finish"} => c.command \in Commands /\ c.command # None
         /\ c.op \in {"hire", "fire", "transfer"} => c.whom \in Players
         /\ c.op \in {"addRoute", "dropRoute"} => c.prefix \in Prefixes
<1>1. c \in Arguments
  BY DEF Call
<1>2. /\ c.op \in Operations /\ c.player \in Players /\ c.whom \in Players \cup {None}
      /\ c.desk \in Desks \cup {None} /\ c.command \in Commands \cup {None}
      /\ c.prefix \in Prefixes \cup {None}
  BY <1>1 DEF Arguments
<1> QED
  BY <1>2, ConstantsAssumption DEF Call, ConstantsAssumption

---------------------------------------------------------------------------
(* A session's own steps *)

(* Where a session is at a statement, and what comes next. *)
LEMMA Here ==
  ASSUME TypeOK, NEW s \in Sessions, SessionInv(s), NEW a, At(s, a)
  PROVE  /\ call[s] \in Call /\ Placed(call[s].op, todo[s])
         /\ todo[s] # <<>> /\ todo[s] \in Seq(Labels) /\ Len(todo[s]) \in 1..7
         /\ Knows(s, a) /\ Leads(call[s].op, a, Following(todo[s]))
<1>1. todo[s] # <<>> /\ todo[s] \in Seq(Labels) /\ todo[s][1] = a
  BY DEF At, TypeOK
<1>2. call[s] \in Call /\ Placed(call[s].op, todo[s]) /\ Knows(s, a)
  BY <1>1 DEF SessionInv
<1> QED
  BY <1>1, <1>2, CallTyped, Leading

Others(s) ==
  \A t \in Sessions \ {s} :
     /\ todo'[t] = todo[t] /\ call'[t] = call[t] /\ read'[t] = read[t]
     /\ \A c \in Commands : holder[c] = t => holder'[c] = t

Own(s) == SessionsTyped' /\ Others(s) /\ SaysApart' /\ SessionInv(s)'

LEMMA NoneIsNobody == NoCall.op = "say" /\ NoCall.command = None /\ NoRead \in Read
BY DEF NoCall, NoRead, Read

LEMMA EndOwn ==
  ASSUME TypeOK, SaysApart, NEW s \in Sessions, End(s)
  PROVE  Own(s)
<1>1. todo'[s] = <<>> /\ call'[s] = NoCall /\ SessionsTyped'
  BY NoneIsNobody DEF End, Release, TypeOK, SessionsTyped
<1>2. Others(s)
  BY DEF End, Release, TypeOK, Others
<1>3. SaysApart'
  BY <1>1, <1>2, NoneIsNobody DEF SaysApart, Others
<1>4. SessionInv(s)'
  BY <1>1 DEF SessionInv
<1> QED
  BY <1>1, <1>2, <1>3, <1>4 DEF Own

LEMMA Advanced ==
  ASSUME TypeOK, NEW s \in Sessions, SessionInv(s), NEW a, At(s, a), Advance(s)
  PROVE  /\ todo' \in [Sessions -> Seq(Labels)]
         /\ \A t \in Sessions \ {s} : todo'[t] = todo[t]
         /\ Following(todo[s]) = "end" => todo'[s] = <<>>
         /\ todo'[s] # <<>> => /\ Placed(call[s].op, todo'[s])
                               /\ todo'[s][1] = Following(todo[s])
<1>1. /\ call[s] \in Call /\ Placed(call[s].op, todo[s]) /\ todo[s] # <<>>
      /\ todo[s] \in Seq(Labels) /\ Len(todo[s]) \in 1..7
      /\ Leads(call[s].op, a, Following(todo[s]))
  BY Here
<1>2. todo'[s] = Tail(todo[s]) /\ Tail(todo[s]) \in Seq(Labels)
  BY <1>1 DEF Advance, TypeOK
<1>3. todo' \in [Sessions -> Seq(Labels)] /\ \A t \in Sessions \ {s} : todo'[t] = todo[t]
  BY <1>2 DEF Advance, TypeOK
<1>4. CASE Len(todo[s]) = 1
  <2>1. Tail(todo[s]) = <<>>
    <3> DEFINE r == Tail(todo[s])
    <3>1. r \in Seq(Labels) /\ Len(r) = 0
      BY <1>1, <1>4
    <3> HIDE DEF r
    <3>2. r = <<>>
      BY <3>1
    <3> QED
      BY <3>2 DEF r
  <2> QED
    BY <1>2, <1>3, <2>1
<1>5. CASE Len(todo[s]) # 1
  <2>1. Tail(todo[s])[1] = todo[s][2] /\ Following(todo[s]) = todo[s][2]
    BY <1>1, <1>5 DEF Following
  <2>2. Placed(call[s].op, Tail(todo[s]))
    BY <1>1, <1>5, CallTyped, Left
  <2>3. todo[s][2] # "end"
    BY <1>1, <1>5 DEF Labels, Checks, Operations
  <2> QED
    BY <1>2, <1>3, <2>1, <2>2, <2>3
<1> QED
  BY <1>4, <1>5

(* A session at its next statement, once it knows what it should there. *)
LEMMA AdvanceOwn ==
  ASSUME TypeOK, SaysApart, NEW s \in Sessions, SessionInv(s), NEW a, At(s, a), Advance(s),
         call' = call,
         holder' \in [Commands -> Sessions \cup {None}], read' \in [Sessions -> Read],
         \A t \in Sessions \ {s} : /\ read'[t] = read[t]
                                   /\ \A c \in Commands : holder[c] = t => holder'[c] = t,
         NEW b, b = Following(todo[s]), b # "end" => Knows(s, b)'
  PROVE  Own(s)
<1>1. /\ todo' \in [Sessions -> Seq(Labels)]
      /\ \A t \in Sessions \ {s} : todo'[t] = todo[t]
      /\ Following(todo[s]) = "end" => todo'[s] = <<>>
      /\ todo'[s] # <<>> => /\ Placed(call[s].op, todo'[s])
                            /\ todo'[s][1] = Following(todo[s])
  BY Advanced
<1>2. SessionsTyped' /\ Others(s)
  BY <1>1 DEF SessionsTyped, Others, TypeOK
<1>3. SaysApart'
  BY DEF SaysApart
<1>4. call[s] \in Call
  BY Here
<1>5. todo'[s] # <<>> => todo'[s][1] = b /\ b # "end"
  BY <1>1
<1>6. SessionInv(s)'
  BY <1>1, <1>4, <1>5 DEF SessionInv
<1> QED
  BY <1>2, <1>3, <1>6 DEF Own

---------------------------------------------------------------------------
(* Steps and the other sessions *)

OpenAt(d, c) == item[d][c].status \in {"queued", "claimed"}

(* What no step of s takes from another session. *)
Kept(s) ==
  /\ \A c \in Commands : command[c] = NoCommand =>
        command'[c] = NoCommand \/ (At(s, "store") /\ call[s].command = c)
  /\ \A c \in Commands : command[c] # NoCommand => command'[c] # NoCommand
  /\ inbox \subseteq inbox'
  /\ \A d \in Desks, p \in Players : Hired(d, p) => Hired(d, p)'
  /\ \A d \in Desks, c \in Commands : holder[c] \notin {s, None} =>
        /\ OpenAt(d, c)' <=> OpenAt(d, c)
        /\ item[d][c].status = "claimed" => item'[d][c] = item[d][c]

AllHandled == \A c \in Commands : Drained(c) => command[c].status = "handled"

Tables(s) == /\ TablesTyped'
             /\ Kept(s)
             /\ AllHandled'
             /\ OnlyHiredWorkersWork'
             /\ [Board!Next]_(Board!vars)

LEMMA OpenOnes ==
  ASSUME NEW d, NEW c
  PROVE  OpenBesides(d, c) = {e \in Desks \ {d} : OpenAt(e, c)}
BY DEF OpenBesides, OpenAt

LEMMA OthersKeep ==
  ASSUME IInv, NEW s \in Sessions, Kept(s), Others(s), NEW t \in Sessions \ {s}
  PROVE  SessionInv(t)'
<1>1. todo'[t] = todo[t] /\ call'[t] = call[t] /\ read'[t] = read[t]
      /\ (\A x \in Commands : holder[x] = t => holder'[x] = t)
  BY DEF Others
<1>a. CASE todo[t] = <<>>
  BY <1>1, <1>a DEF SessionInv
<1> SUFFICES ASSUME todo[t] # <<>> PROVE SessionInv(t)'
  BY <1>a
<1>0. PICK c, d, p, a : /\ c = call[t].command /\ d = call[t].desk
                        /\ p = call[t].player /\ a = todo[t][1]
  OBVIOUS
<1>k. /\ a = "store" => command[c] = NoCommand
      /\ a \in {"routes", "queue"} => <<"command", c>> \in inbox
      /\ a \in {"absent", "startShift", "active", "claim"} => Hired(d, p)
      /\ a \in {"finish", "open", "commit"} => holder[c] = t /\ command[c] # NoCommand
      /\ a \in {"open", "commit"} => item[d][c] = [status |-> "claimed", by |-> p]
      /\ a = "commit" => (read[t].last <=> OpenBesides(d, c) = {})
  BY <1>0 DEF IInv, SessionInv, Knows
<1>2. At(t, a) /\ SessionInv(t) /\ TypeOK
  <2>1. SessionInv(t) /\ TypeOK /\ todo[t] \in Seq(Labels)
    BY DEF IInv, TypeOK
  <2> QED
    BY <2>1, <1>0 DEF At
<1>3. /\ call[t] \in Call /\ Placed(call[t].op, todo[t])
      /\ Leads(call[t].op, a, Following(todo[t]))
  BY <1>2, Here
<1>4. /\ call[t].op \in Operations /\ p \in Players
      /\ call[t].op \notin {"transfer", "say", "request"} => d \in Desks
      /\ call[t].op \in {"say", "request", "claim", "finish"} => c \in Commands /\ c # None
  BY <1>0, <1>3, CallTyped
<1>5. a = "store" => command'[c] = NoCommand
  <2> SUFFICES ASSUME a = "store" PROVE command'[c] = NoCommand
    OBVIOUS
  <2>1. call[t].op = "say" /\ c \in Commands /\ c # None /\ command[c] = NoCommand
    BY <1>3, <1>4, <1>k DEF Leads
  <2>2. ASSUME At(s, "store"), call[s].command = c PROVE FALSE
    <3>1. SessionInv(s) /\ TypeOK
      BY DEF IInv
    <3>2. Leads(call[s].op, "store", Following(todo[s]))
      BY <3>1, <2>2, Here
    <3>3. call[s].op = "say"
      BY <3>2 DEF Leads
    <3> QED
      BY <1>0, <2>1, <2>2, <3>3 DEF IInv, SaysApart
  <2> QED
    BY <2>1, <2>2 DEF Kept
<1>6. a \in {"routes", "queue"} => <<"command", c>> \in inbox'
  BY <1>k DEF Kept
<1>7. a \in {"absent", "startShift", "active", "claim"} => Hired(d, p)'
  <2> SUFFICES ASSUME a \in {"absent", "startShift", "active", "claim"} PROVE Hired(d, p)'
    OBVIOUS
  <2>1. call[t].op \notin {"transfer", "say", "request"} /\ Hired(d, p)
    BY <1>3, <1>k DEF Leads
  <2> QED
    BY <2>1, <1>4 DEF Kept
<1>8. a \in {"finish", "open", "commit"} =>
        /\ holder'[c] = t /\ command'[c] # NoCommand
        /\ a \in {"open", "commit"} => item'[d][c] = [status |-> "claimed", by |-> p]
        /\ a = "commit" => (read'[t].last <=> OpenBesides(d, c)' = {})
  <2> SUFFICES ASSUME a \in {"finish", "open", "commit"}
               PROVE  /\ holder'[c] = t /\ command'[c] # NoCommand
                      /\ a \in {"open", "commit"} => item'[d][c] = [status |-> "claimed", by |-> p]
                      /\ a = "commit" => (read'[t].last <=> OpenBesides(d, c)' = {})
    OBVIOUS
  <2>1. call[t].op = "finish" /\ c \in Commands /\ d \in Desks
    BY <1>3, <1>4 DEF Leads
  <2>2. holder[c] = t /\ command[c] # NoCommand
    BY <1>k
  <2>3. holder[c] \notin {s, None}
    BY <2>2, ConstantsAssumption DEF ConstantsAssumption
  <2>4. holder'[c] = t /\ command'[c] # NoCommand
    BY <1>1, <2>1, <2>2 DEF Kept
  <2>5. \A e \in Desks : /\ OpenAt(e, c)' <=> OpenAt(e, c)
                         /\ item[e][c].status = "claimed" => item'[e][c] = item[e][c]
    BY <2>1, <2>3 DEF Kept
  <2>6. a \in {"open", "commit"} => item'[d][c] = [status |-> "claimed", by |-> p]
    BY <1>k, <2>1, <2>5
  <2>7. OpenBesides(d, c)' = OpenBesides(d, c)
    BY <2>5 DEF OpenBesides, OpenAt
  <2> QED
    BY <1>1, <1>k, <2>4, <2>6, <2>7
<1> QED
  <2>1. Knows(t, a)'
    BY <1>0, <1>1, <1>5, <1>6, <1>7, <1>8 DEF Knows
  <2> QED
    BY <1>0, <1>1, <1>3, <2>1 DEF SessionInv

LEMMA StepKeeps ==
  ASSUME IInv, NEW s \in Sessions, Own(s), Tables(s), cachedOwner' \in Players, menu' = menu
  PROVE  IInv' /\ [Board!Next]_(Board!vars)
<1>1. \A t \in Sessions : SessionInv(t)'
  BY OthersKeep DEF Own, Tables
<1>2. TypeOK'
  BY DEF TypeOK, TablesTyped, SessionsTyped, Own, Tables
<1> QED
  BY <1>1, <1>2 DEF IInv, Own, Tables, AllHandled

(* Steps that leave commands, items and the inbox alone. *)
LEMMA DeskTables ==
  ASSUME IInv, NEW s \in Sessions, UNCHANGED <<command, item, inbox>>, TablesTyped',
         \A d \in Desks, p \in Players : Hired(d, p) => Hired(d, p)',
         \A d \in Desks, p \in Players : p \in shift'[d] => p \in shift[d] \/ Hired(d, p)
  PROVE  Tables(s)
<1>1. Kept(s)
  BY DEF Kept, OpenAt
<1>2. AllHandled'
  BY DEF IInv, AllHandled, Drained
<1>3. OnlyHiredWorkersWork'
  BY DEF IInv, OnlyHiredWorkersWork, Hired
<1>4. [Board!Next]_(Board!vars)
  BY DEF Board!vars
<1> QED
  BY <1>1, <1>2, <1>3, <1>4 DEF Tables

LEMMA SameTables ==
  ASSUME IInv, NEW s \in Sessions, UNCHANGED tables
  PROVE  Tables(s)
<1>1. TablesTyped' /\ UNCHANGED <<command, item, inbox, deskOwner, staff, shift>>
  BY DEF IInv, TypeOK, TablesTyped, tables
<1> QED
  BY <1>1, DeskTables DEF Hired

---------------------------------------------------------------------------
(* Statements that only read, and calls that begin or stop *)

LEMMA FirstLabel ==
  ASSUME NEW op \in Operations
  PROVE  /\ ScriptOf(op)[1] \in {"owned", "transfer", "store", "lock", "assigned",
                                 "endShift", "queued", "mine"}
         /\ ScriptOf(op)[1] = "store" => op = "say"
BY DEF Operations, ScriptOf

LEMMA BeginKeeps ==
  ASSUME IInv, NEW s \in Sessions, NEW c \in menu, Begin(s, c)
  PROVE  Own(s) /\ Tables(s)
<1>1. c \in Call
  BY ConstantsAssumption DEF ConstantsAssumption, IInv
<1>2. c.op \in Operations /\ (c.op = "say" => c.command \in Commands)
  BY <1>1, CallTyped
<1>3. /\ todo' = [todo EXCEPT ![s] = ScriptOf(c.op)] /\ call' = [call EXCEPT ![s] = c]
      /\ holder' = holder
  BY DEF Begin
<1>4. read' \in [Sessions -> Read] /\ \A t \in Sessions \ {s} : read'[t] = read[t]
  <2>1. read \in [Sessions -> Read] /\ cachedOwner \in Players \cup {None}
    BY DEF IInv, TypeOK
  <2>2. [read[s] EXCEPT !.owner = cachedOwner] \in Read
    BY <2>1 DEF Read
  <2> QED
    BY <2>1, <2>2 DEF Begin
<1>5. todo \in [Sessions -> Seq(Labels)] /\ call \in [Sessions -> Call \cup {NoCall}]
      /\ holder \in [Commands -> Sessions \cup {None}]
  BY DEF IInv, TypeOK
<1>6. todo'[s] = ScriptOf(c.op) /\ call'[s] = c
      /\ \A t \in Sessions \ {s} : todo'[t] = todo[t] /\ call'[t] = call[t]
  BY <1>3, <1>5
<1>7. SessionsTyped'
  BY <1>1, <1>2, <1>3, <1>4, <1>5, Scripts DEF SessionsTyped
<1>8. Others(s)
  BY <1>3, <1>4, <1>6 DEF Others
<1>9. SaysApart'
  BY <1>6, <1>2 DEF Begin, Storable, IInv, SaysApart
<1>10. SessionInv(s)'
  <2>1. PICK a : a = ScriptOf(c.op)[1]
    OBVIOUS
  <2>2. Knows(s, a)'
    <3>1. a \in {"owned", "transfer", "store", "lock", "assigned", "endShift", "queued", "mine"}
          /\ (a = "store" => c.op = "say")
      BY <1>2, <2>1, FirstLabel
    <3>2. a = "store" => command'[c.command] = NoCommand
      BY <3>1 DEF Begin, Storable, tables
    <3> QED
      BY <1>6, <3>1, <3>2 DEF Knows
  <2> QED
    BY <1>1, <1>2, <1>6, <2>1, <2>2, Begun DEF SessionInv
<1>11. Tables(s)
  BY SameTables DEF Begin
<1> QED
  BY <1>7, <1>8, <1>9, <1>10, <1>11 DEF Own

(* The invariant, for the session that moves. *)
LEMMA Invs == ASSUME IInv, NEW s \in Sessions
              PROVE  TypeOK /\ SaysApart /\ SessionInv(s)
BY DEF IInv

LEMMA CheckKeeps ==
  ASSUME IInv, NEW s \in Sessions, Check(s)
  PROVE  Own(s) /\ Tables(s)
<1>1. PICK a : /\ At(s, a) /\ a \in Checks
               /\ a = "assigned" => Assigned(call[s].desk, call[s].player)
  BY DEF Check, Finds, Checks
<1>2. Advance(s) /\ UNCHANGED <<tables, holder, call, read>>
  BY DEF Check
<1>3. /\ call[s] \in Call /\ Knows(s, a) /\ Leads(call[s].op, a, Following(todo[s]))
  BY <1>1, Invs, Here
<1>4. PICK b : b = Following(todo[s])
  OBVIOUS
<1>5. b # "end" => Knows(s, b)'
  <2> SUFFICES ASSUME b # "end" PROVE Knows(s, b)'
    OBVIOUS
  <2>1. b \notin {"store", "routes", "queue", "finish", "open", "commit"}
    BY <1>1, <1>3, <1>4 DEF Leads, Checks
  <2>2. b \in {"absent", "startShift", "active", "claim"} => a \in {"assigned", "absent", "active"}
    BY <1>1, <1>3, <1>4 DEF Leads, Checks
  <2>3. a \in {"assigned", "absent", "active"} => Hired(call[s].desk, call[s].player)
    BY <1>1, <1>3 DEF Knows, Hired, Assigned
  <2>4. b \in {"absent", "startShift", "active", "claim"} => Hired(call[s].desk, call[s].player)'
    BY <1>2, <2>2, <2>3 DEF Hired, tables
  <2> QED
    BY <2>1, <2>4 DEF Knows
<1>6. Own(s)
  <2>1. holder' \in [Commands -> Sessions \cup {None}] /\ read' \in [Sessions -> Read]
    BY <1>2 DEF IInv, TypeOK
  <2> QED
    BY <1>1, <1>2, <1>4, <1>5, <2>1, Invs, AdvanceOwn
<1> QED
  BY <1>2, <1>6, SameTables

(* A call that ends and writes nothing. *)
LEMMA EndKeeps ==
  ASSUME IInv, NEW s \in Sessions, End(s), UNCHANGED tables
  PROVE  Own(s) /\ Tables(s)
BY Invs, EndOwn, SameTables

LEMMA ReadRoutesKeeps ==
  ASSUME IInv, NEW s \in Sessions, ReadRoutes(s)
  PROVE  Own(s) /\ Tables(s)
<1>1. At(s, "routes") /\ Advance(s) /\ UNCHANGED <<tables, call, holder>>
  BY DEF ReadRoutes
<1>2. /\ call[s] \in Call /\ Knows(s, "routes") /\ Leads(call[s].op, "routes", Following(todo[s]))
  BY <1>1, Invs, Here
<1>3. PICK b : b = Following(todo[s])
  OBVIOUS
<1>4. b = "queue"
  BY <1>2, <1>3 DEF Leads
<1>5. Knows(s, b)'
  <2>1. <<"command", call[s].command>> \in inbox
    BY <1>2 DEF Knows
  <2> QED
    BY <1>1, <1>4, <2>1 DEF Knows, tables
<1>6. read' \in [Sessions -> Read] /\ \A t \in Sessions \ {s} : read'[t] = read[t]
  <2>1. read \in [Sessions -> Read] /\ Targets(call[s].command) \in SUBSET Desks
    BY DEF IInv, TypeOK, Targets
  <2>2. [read[s] EXCEPT !.desks = Targets(call[s].command)] \in Read
    BY <2>1 DEF Read
  <2> QED
    BY <2>1, <2>2 DEF ReadRoutes
<1>7. Own(s)
  <2>1. holder' \in [Commands -> Sessions \cup {None}]
    BY <1>1 DEF IInv, TypeOK
  <2> QED
    BY <1>1, <1>3, <1>5, <1>6, <2>1, Invs, AdvanceOwn
<1> QED
  BY <1>1, <1>7, SameTables

LEMMA RoutedKeeps ==
  ASSUME IInv, NEW s \in Sessions, Routed(s)
  PROVE  Own(s) /\ Tables(s)
<1>1. At(s, "queue") /\ AdvanceOrEnd(s) /\ UNCHANGED tables
  BY DEF Routed
<1>2. Leads(call[s].op, "queue", Following(todo[s])) /\ Len(todo[s]) \in 1..7
      /\ todo[s] \in Seq(Labels)
  BY <1>1, Invs, Here
<1>3. Following(todo[s]) = "end"
  BY <1>2 DEF Leads
<1>4. Len(todo[s]) = 1
  BY <1>2, <1>3 DEF Following, Labels, Checks, Operations
<1>5. End(s)
  BY <1>1, <1>4 DEF AdvanceOrEnd
<1> QED
  BY <1>1, <1>5, EndKeeps

LEMMA LockKeeps ==
  ASSUME IInv, NEW s \in Sessions, LockCommand(s)
  PROVE  Own(s) /\ Tables(s)
<1>0. PICK c : c = call[s].command
  OBVIOUS
<1>1. /\ At(s, "lock") /\ Advance(s) /\ UNCHANGED <<tables, call, read>>
      /\ command[c] # NoCommand /\ holder[c] = None /\ holder' = [holder EXCEPT ![c] = s]
  BY <1>0 DEF LockCommand
<1>2. /\ call[s] \in Call /\ Leads(call[s].op, "lock", Following(todo[s]))
  BY <1>1, Invs, Here
<1>3. PICK b : b = Following(todo[s])
  OBVIOUS
<1>4. b \in {"request", "finish"} /\ c \in Commands
  BY <1>0, <1>2, <1>3, CallTyped DEF Leads
<1>5. holder \in [Commands -> Sessions \cup {None}] /\ read' \in [Sessions -> Read]
  BY <1>1 DEF IInv, TypeOK
<1>6. holder' \in [Commands -> Sessions \cup {None}] /\ holder'[c] = s
      /\ \A t \in Sessions \ {s} : \A x \in Commands : holder[x] = t => holder'[x] = t
  BY <1>1, <1>4, <1>5, ConstantsAssumption DEF ConstantsAssumption
<1>7. Knows(s, b)'
  BY <1>0, <1>1, <1>4, <1>6 DEF Knows, tables
<1>8. Own(s)
  BY <1>1, <1>3, <1>5, <1>6, <1>7, Invs, AdvanceOwn
<1> QED
  BY <1>1, <1>8, SameTables

LEMMA FinishItemKeeps ==
  ASSUME IInv, NEW s \in Sessions, FinishItem(s)
  PROVE  Own(s) /\ Tables(s)
<1>1. CASE End(s)
  BY <1>1, EndKeeps DEF FinishItem
<1>2. CASE /\ ItemOf(s) = [status |-> "claimed", by |-> call[s].player]
           /\ Advance(s) /\ UNCHANGED <<call, read, holder>>
  <2>1. At(s, "finish") /\ UNCHANGED tables
    BY DEF FinishItem
  <2>2. Knows(s, "finish") /\ Leads(call[s].op, "finish", Following(todo[s]))
    BY <2>1, Invs, Here
  <2>3. PICK b : b = Following(todo[s])
    OBVIOUS
  <2>4. b = "open"
    BY <2>2, <2>3 DEF Leads
  <2>5. Knows(s, b)'
    <3>1. holder[call[s].command] = s /\ command[call[s].command] # NoCommand
      BY <2>2 DEF Knows
    <3> QED
      BY <1>2, <2>1, <2>4, <3>1 DEF Knows, ItemOf, tables
  <2>6. holder' \in [Commands -> Sessions \cup {None}] /\ read' \in [Sessions -> Read]
    BY <1>2 DEF IInv, TypeOK
  <2>7. Own(s)
    BY <1>2, <2>1, <2>3, <2>5, <2>6, Invs, AdvanceOwn
  <2> QED
    BY <2>1, <2>7, SameTables
<1> QED
  BY <1>1, <1>2 DEF FinishItem

LEMMA CountOpenKeeps ==
  ASSUME IInv, NEW s \in Sessions, CountOpen(s)
  PROVE  Own(s) /\ Tables(s)
<1>1. At(s, "open") /\ Advance(s) /\ UNCHANGED <<tables, call, holder>>
  BY DEF CountOpen
<1>2. Knows(s, "open") /\ Leads(call[s].op, "open", Following(todo[s]))
  BY <1>1, Invs, Here
<1>3. PICK b : b = Following(todo[s])
  OBVIOUS
<1>4. b = "commit"
  BY <1>2, <1>3 DEF Leads
<1>5. PICK last \in BOOLEAN : last <=> OpenBesides(call[s].desk, call[s].command) = {}
  OBVIOUS
<1>6. /\ read' \in [Sessions -> Read] /\ (read'[s].last <=> OpenBesides(call[s].desk, call[s].command) = {})
      /\ \A t \in Sessions \ {s} : read'[t] = read[t]
  <2>1. read \in [Sessions -> Read]
    BY DEF IInv, TypeOK
  <2>2. read' = [read EXCEPT ![s].last = last]
    BY <1>5 DEF CountOpen
  <2>3. [read[s] EXCEPT !.last = last] \in Read /\ [read[s] EXCEPT !.last = last].last = last
    BY <2>1 DEF Read
  <2> QED
    BY <1>5, <2>1, <2>2, <2>3
<1>7. Knows(s, b)'
  <2>1. /\ holder[call[s].command] = s /\ command[call[s].command] # NoCommand
        /\ item[call[s].desk][call[s].command] = [status |-> "claimed", by |-> call[s].player]
    BY <1>2 DEF Knows
  <2> QED
    BY <1>1, <1>4, <1>6, <2>1 DEF Knows, OpenBesides, tables
<1>8. Own(s)
  <2>1. holder' \in [Commands -> Sessions \cup {None}]
    BY <1>1 DEF IInv, TypeOK
  <2> QED
    BY <1>1, <1>3, <1>6, <1>7, <2>1, Invs, AdvanceOwn
<1> QED
  BY <1>1, <1>8, SameTables

---------------------------------------------------------------------------
(* The owner's writes, and shifts *)

(* The tables as they are, for a session's arguments. *)
LEMMA ArgumentsAt ==
  ASSUME IInv, NEW s \in Sessions, NEW a, At(s, a)
  PROVE  /\ TablesTyped /\ call[s].player \in Players /\ call[s].player # None
         /\ a \in {"createDesk", "hire", "fire", "endShifts", "addRoute", "dropRoute",
                   "startShift", "endShift", "claim", "finish", "commit"}
               => call[s].desk \in Desks
         /\ a \in {"hire", "fire", "endShifts", "transfer"} => call[s].whom \in Players
         /\ a \in {"addRoute", "dropRoute"} => call[s].prefix \in Prefixes
         /\ a \in {"store", "notify", "routes", "queue", "request", "bill", "claim", "finish", "commit"}
               => call[s].command \in Commands
<1>1. call[s] \in Call /\ Leads(call[s].op, a, Following(todo[s]))
  BY Invs, Here
<1>2. TablesTyped
  BY Invs, Types
<1> QED
  BY <1>1, <1>2, CallTyped DEF Leads

LEMMA CreateDeskKeeps ==
  ASSUME IInv, NEW s \in Sessions, CreateDesk(s)
  PROVE  Own(s) /\ Tables(s)
<1>1. TablesTyped /\ call[s].player \in Players /\ call[s].desk \in Desks
  BY ArgumentsAt DEF CreateDesk
<1>2. /\ UNCHANGED <<parcelOwner, staff, shift, route, command, item, requested, inbox>>
      /\ deskOwner' \in [Desks -> Players \cup {None}]
      /\ \A d \in Desks : deskOwner'[d] = deskOwner[d] \/ deskOwner[d] = None
  BY <1>1 DEF CreateDesk, TablesTyped
<1>3. TablesTyped'
  BY <1>1, <1>2 DEF TablesTyped
<1>4. \A d \in Desks, p \in Players : Hired(d, p) => Hired(d, p)'
  BY <1>2, ConstantsAssumption DEF Hired, ConstantsAssumption
<1>5. Tables(s)
  BY <1>2, <1>3, <1>4, DeskTables
<1> QED
  BY <1>5, Invs, EndOwn DEF CreateDesk

(* A change of one assignment, never back to none. *)
LEMMA StaffTables ==
  ASSUME IInv, NEW s \in Sessions, NEW d \in Desks, NEW w \in Players,
         NEW status \in {"active", "removed"}, staff' = [staff EXCEPT ![d][w] = status],
         UNCHANGED <<parcelOwner, deskOwner, shift, route, command, item, requested, inbox>>
  PROVE  Tables(s)
<1>1. TablesTyped
  BY Invs, Types
<1>2. /\ staff' \in [Desks -> [Players -> {"none", "active", "removed"}]]
      /\ \A e \in Desks, p \in Players : staff[e][p] # "none" => staff'[e][p] # "none"
  BY <1>1 DEF TablesTyped
<1>3. TablesTyped'
  BY <1>1, <1>2 DEF TablesTyped
<1>4. \A e \in Desks, p \in Players : Hired(e, p) => Hired(e, p)'
  BY <1>2 DEF Hired
<1> QED
  BY <1>3, <1>4, DeskTables

LEMMA HireKeeps ==
  ASSUME IInv, NEW s \in Sessions, Hire(s)
  PROVE  Own(s) /\ Tables(s)
<1>1. call[s].desk \in Desks /\ call[s].whom \in Players
  BY ArgumentsAt DEF Hire
<1> QED
  BY <1>1, StaffTables, Invs, EndOwn DEF Hire

LEMMA FireKeeps ==
  ASSUME IInv, NEW s \in Sessions, Fire(s)
  PROVE  Own(s) /\ Tables(s)
<1>1. call[s].desk \in Desks /\ call[s].whom \in Players /\ At(s, "fire")
  BY ArgumentsAt DEF Fire
<1>2. CASE End(s) /\ UNCHANGED staff
  BY <1>2, EndKeeps DEF Fire, tables
<1>3. CASE /\ staff' = [staff EXCEPT ![call[s].desk][call[s].whom] = "removed"]
           /\ AdvanceOrEnd(s)
  <2>1. Tables(s)
    BY <1>1, <1>3, StaffTables DEF Fire
  <2>2. CASE End(s)
    BY <2>1, <2>2, Invs, EndOwn
  <2>3. CASE Advance(s) /\ UNCHANGED <<call, read, holder>>
    <3>1. PICK b : b = Following(todo[s])
      OBVIOUS
    <3>2. Leads(call[s].op, "fire", b)
      BY <1>1, <3>1, Invs, Here
    <3>3. b \in {"endShifts", "end"}
      BY <3>2 DEF Leads
    <3>4. Knows(s, b)'
      BY <3>3 DEF Knows
    <3>5. holder' \in [Commands -> Sessions \cup {None}] /\ read' \in [Sessions -> Read]
      BY <2>3 DEF IInv, TypeOK
    <3> QED
      BY <1>1, <2>1, <2>3, <3>1, <3>4, <3>5, Invs, AdvanceOwn
  <2> QED
    BY <1>3, <2>2, <2>3 DEF AdvanceOrEnd
<1> QED
  BY <1>2, <1>3 DEF Fire

(* A change of one desk's shifts: nobody joins who is not hired. *)
LEMMA ShiftTables ==
  ASSUME IInv, NEW s \in Sessions, NEW d \in Desks, NEW here \in SUBSET Players,
         shift' = [shift EXCEPT ![d] = here],
         \A p \in here : p \in shift[d] \/ Hired(d, p),
         UNCHANGED <<parcelOwner, deskOwner, staff, route, command, item, requested, inbox>>
  PROVE  Tables(s)
<1>1. TablesTyped
  BY Invs, Types
<1>2. /\ shift' \in [Desks -> SUBSET Players]
      /\ \A e \in Desks, p \in Players : p \in shift'[e] => p \in shift[e] \/ Hired(e, p)
  BY <1>1 DEF TablesTyped
<1>3. TablesTyped'
  BY <1>1, <1>2 DEF TablesTyped
<1> QED
  BY <1>2, <1>3, DeskTables DEF Hired

LEMMA ShiftKeeps ==
  ASSUME IInv, NEW s \in Sessions, StartShift(s) \/ EndShift(s) \/ EndShifts(s)
  PROVE  Own(s) /\ Tables(s)
<1>0. PICK a \in {"startShift", "endShift", "endShifts"} :
         /\ At(s, a)
         /\ a = "startShift" => StartShift(s)
         /\ a = "endShift" => EndShift(s)
         /\ a = "endShifts" => EndShifts(s)
  BY DEF StartShift, EndShift, EndShifts
<1>1. TablesTyped /\ call[s].player \in Players /\ call[s].desk \in Desks
  BY <1>0, ArgumentsAt
<1>2. shift[call[s].desk] \in SUBSET Players
  BY <1>1 DEF TablesTyped
<1>3. a = "startShift" => Hired(call[s].desk, call[s].player)
  BY <1>0, Invs, Here DEF Knows
<1>4. PICK here \in SUBSET Players :
         /\ shift' = [shift EXCEPT ![call[s].desk] = here]
         /\ \A p \in here : p \in shift[call[s].desk] \/ Hired(call[s].desk, p)
  <2>1. CASE a = "startShift"
    <3>1. shift[call[s].desk] \cup {call[s].player} \in SUBSET Players
      BY <1>1, <1>2
    <3> QED
      BY <1>0, <1>3, <2>1, <3>1 DEF StartShift
  <2>2. CASE a = "endShift"
    <3>1. shift[call[s].desk] \ {call[s].player} \in SUBSET Players
      BY <1>1, <1>2
    <3> QED
      BY <1>0, <2>2, <3>1 DEF EndShift
  <2>3. CASE a = "endShifts"
    <3>1. shift[call[s].desk] \ {call[s].whom} \in SUBSET Players
      BY <1>1, <1>2
    <3> QED
      BY <1>0, <2>3, <3>1 DEF EndShifts
  <2> QED
    BY <1>0, <2>1, <2>2, <2>3
<1>5. /\ End(s)
      /\ UNCHANGED <<parcelOwner, deskOwner, staff, route, command, item, requested, inbox>>
  BY <1>0 DEF StartShift, EndShift, EndShifts
<1>6. Tables(s)
  BY <1>1, <1>4, <1>5, ShiftTables
<1> QED
  BY <1>5, <1>6, Invs, EndOwn

LEMMA RouteKeeps ==
  ASSUME IInv, NEW s \in Sessions, AddRoute(s) \/ DropRoute(s)
  PROVE  Own(s) /\ Tables(s)
<1>1. TablesTyped
  BY Invs, Types
<1>2. route' \in SUBSET (Desks \X Prefixes)
  <2>1. CASE AddRoute(s)
    <3>1. call[s].desk \in Desks /\ call[s].prefix \in Prefixes
      BY <2>1, ArgumentsAt DEF AddRoute
    <3> QED
      BY <1>1, <2>1, <3>1 DEF AddRoute, TablesTyped
  <2>2. CASE DropRoute(s)
    BY <1>1, <2>2 DEF DropRoute, TablesTyped
  <2> QED
    BY <2>1, <2>2
<1>3. End(s) /\ UNCHANGED <<parcelOwner, deskOwner, staff, shift, command, item, requested, inbox>>
  BY DEF AddRoute, DropRoute
<1>4. TablesTyped'
  BY <1>1, <1>2, <1>3 DEF TablesTyped
<1>5. Tables(s)
  BY <1>3, <1>4, DeskTables DEF Hired
<1> QED
  BY <1>3, <1>5, Invs, EndOwn

LEMMA TransferKeeps ==
  ASSUME IInv, NEW s \in Sessions, TransferParcel(s)
  PROVE  Own(s) /\ Tables(s)
<1>1. TablesTyped /\ call[s].whom \in Players
  BY ArgumentsAt DEF TransferParcel
<1>2. TablesTyped' /\ UNCHANGED <<command, item, inbox, shift, deskOwner, staff>>
  BY <1>1 DEF TransferParcel, TablesTyped
<1>3. Tables(s)
  BY <1>2, DeskTables DEF Hired
<1> QED
  BY <1>3, Invs, EndOwn DEF TransferParcel

---------------------------------------------------------------------------
(* A visitor's command and its payment request *)

LEMMA AdvanceOrEndOwn ==
  ASSUME IInv, NEW s \in Sessions, NEW a, At(s, a), AdvanceOrEnd(s),
         NEW b, b = Following(todo[s]), Knows(s, b)'
  PROVE  Own(s)
<1>1. CASE End(s)
  BY <1>1, Invs, EndOwn
<1>2. CASE Advance(s) /\ UNCHANGED <<call, read, holder>>
  <2>1. holder' \in [Commands -> Sessions \cup {None}] /\ read' \in [Sessions -> Read]
    BY <1>2 DEF IInv, TypeOK
  <2> QED
    BY <1>2, <2>1, Invs, AdvanceOwn
<1> QED
  BY <1>1, <1>2 DEF AdvanceOrEnd

(* Handled commands and notified rooms, as WorkBoard sees them. *)
HandledOnes  == {c \in Commands : command[c].status = "handled"}
NotifiedOnes == {c \in Commands : <<"command", c>> \in inbox}

(* Steps that leave the items alone. *)
LEMMA CommandTables ==
  ASSUME IInv, NEW s \in Sessions, TablesTyped',
         UNCHANGED <<deskOwner, staff, shift, item>>, inbox \subseteq inbox',
         \A c \in Commands : command[c] = NoCommand =>
            command'[c] = NoCommand \/ (At(s, "store") /\ call[s].command = c),
         \A c \in Commands : command[c] # NoCommand => command'[c] # NoCommand,
         HandledOnes \subseteq HandledOnes',
         \/ HandledOnes' = HandledOnes /\ NotifiedOnes' = NotifiedOnes
         \/ \E c \in Commands : HandledOnes' = HandledOnes /\ NotifiedOnes' = NotifiedOnes \cup {c}
         \/ \E c \in Commands : HandledOnes' = HandledOnes \cup {c} /\ NotifiedOnes' = NotifiedOnes
  PROVE  Tables(s)
<1>1. Kept(s)
  BY DEF Kept, Hired, OpenAt
<1>2. AllHandled'
  <2> SUFFICES ASSUME NEW c \in Commands, Drained(c)' PROVE command'[c].status = "handled"
    BY DEF AllHandled
  <2>1. c \in HandledOnes
    BY DEF IInv, Drained, HandledOnes
  <2> QED
    BY <2>1 DEF HandledOnes
<1>3. OnlyHiredWorkersWork'
  BY DEF IInv, OnlyHiredWorkersWork
<1>4. [Board!Next]_(Board!vars)
  <2>1. CASE HandledOnes' = HandledOnes /\ NotifiedOnes' = NotifiedOnes
    BY <2>1 DEF Board!vars, HandledOnes, NotifiedOnes
  <2>2. ASSUME NEW c \in Commands, HandledOnes' = HandledOnes, NotifiedOnes' = NotifiedOnes \cup {c}
        PROVE  Board!Next
    <3>1. Board!Notify(c)
      BY <2>2 DEF Board!Notify, HandledOnes, NotifiedOnes
    <3> QED
      BY <3>1 DEF Board!Next
  <2>3. ASSUME NEW c \in Commands, HandledOnes' = HandledOnes \cup {c}, NotifiedOnes' = NotifiedOnes
        PROVE  Board!Next
    <3>1. Board!Settle(c)
      BY <2>3 DEF Board!Settle, HandledOnes, NotifiedOnes
    <3> QED
      BY <3>1 DEF Board!Next
  <2> QED
    BY <2>1, <2>2, <2>3
<1> QED
  BY <1>1, <1>2, <1>3, <1>4 DEF Tables

LEMMA StoreCommandKeeps ==
  ASSUME IInv, NEW s \in Sessions, StoreCommand(s)
  PROVE  Own(s) /\ Tables(s)
<1>0. PICK c : c = call[s].command
  OBVIOUS
<1>1. /\ At(s, "store") /\ AdvanceOrEnd(s)
      /\ command' = [command EXCEPT ![c] = [status |-> "delivered", owner |-> read[s].owner]]
      /\ UNCHANGED <<parcelOwner, deskOwner, staff, shift, route, item, requested, inbox>>
  BY <1>0 DEF StoreCommand
<1>2. TablesTyped /\ c \in Commands /\ read[s].owner \in Players \cup {None}
  BY <1>0, <1>1, ArgumentsAt, Invs DEF TypeOK, Read
<1>3. command[c] = NoCommand /\ Leads(call[s].op, "store", Following(todo[s]))
  BY <1>0, <1>1, Invs, Here DEF Knows
<1>4. /\ command' \in [Commands -> [status : {"none", "delivered", "handled"},
                                    owner : Players \cup {None}]]
      /\ command'[c].status = "delivered"
      /\ \A x \in Commands \ {c} : command'[x] = command[x]
  BY <1>1, <1>2 DEF TablesTyped
<1>5. TablesTyped'
  BY <1>1, <1>2, <1>4 DEF TablesTyped
<1>6. HandledOnes' = HandledOnes /\ NotifiedOnes' = NotifiedOnes
  BY <1>1, <1>3, <1>4 DEF HandledOnes, NotifiedOnes, NoCommand
<1>7. Tables(s)
  <2>1. \A x \in Commands : command[x] = NoCommand => command'[x] = NoCommand \/ x = c
    BY <1>4
  <2>2. \A x \in Commands : command[x] # NoCommand => command'[x] # NoCommand
    BY <1>3, <1>4
  <2> QED
    BY <1>0, <1>1, <1>5, <1>6, <2>1, <2>2, CommandTables
<1>8. PICK b : b = Following(todo[s])
  OBVIOUS
<1>9. b = "notify"
  BY <1>3, <1>8 DEF Leads
<1>10. Knows(s, b)'
  BY <1>9 DEF Knows
<1> QED
  BY <1>1, <1>7, <1>8, <1>10, AdvanceOrEndOwn

LEMMA NotifyKeeps ==
  ASSUME IInv, NEW s \in Sessions, NotifyRoom(s)
  PROVE  Own(s) /\ Tables(s)
<1>0. PICK c : c = call[s].command
  OBVIOUS
<1>1. /\ At(s, "notify") /\ AdvanceOrEnd(s)
      /\ inbox' = inbox \cup {<<"command", c>>}
      /\ UNCHANGED <<parcelOwner, deskOwner, staff, shift, route, command, item, requested>>
  BY <1>0 DEF NotifyRoom
<1>2. TablesTyped /\ c \in Commands
  BY <1>0, <1>1, ArgumentsAt
<1>3. TablesTyped'
  BY <1>1, <1>2 DEF TablesTyped
<1>4. HandledOnes' = HandledOnes /\ NotifiedOnes' = NotifiedOnes \cup {c}
  BY <1>1, <1>2 DEF HandledOnes, NotifiedOnes
<1>5. Tables(s)
  BY <1>1, <1>2, <1>3, <1>4, CommandTables
<1>6. PICK b : b = Following(todo[s])
  OBVIOUS
<1>7. b = "routes"
  BY <1>1, <1>6, Invs, Here DEF Leads
<1>8. Own(s)
  <2>1. CASE End(s)
    BY <2>1, Invs, EndOwn
  <2>2. CASE Advance(s) /\ UNCHANGED <<call, read, holder>>
    <3>1. Knows(s, b)'
      BY <1>0, <1>1, <1>7, <2>2 DEF Knows
    <3> QED
      BY <1>1, <1>6, <3>1, AdvanceOrEndOwn
  <2> QED
    BY <1>1, <2>1, <2>2 DEF AdvanceOrEnd
<1> QED
  BY <1>5, <1>8

LEMMA RequestKeeps ==
  ASSUME IInv, NEW s \in Sessions, RequestPayment(s)
  PROVE  Own(s) /\ Tables(s)
<1>0. PICK c : c = call[s].command
  OBVIOUS
<1>1. /\ At(s, "request") /\ command[c].owner = call[s].player /\ requested' = requested \cup {c}
      /\ command' = [command EXCEPT ![c].status = "handled"] /\ Advance(s) /\ Release(s)
      /\ UNCHANGED <<parcelOwner, deskOwner, staff, shift, route, item, inbox, call, read>>
  BY <1>0 DEF RequestPayment, Requestable
<1>2. TablesTyped /\ c \in Commands /\ call[s].player # None
  BY <1>0, <1>1, ArgumentsAt
<1>3. /\ command' \in [Commands -> [status : {"none", "delivered", "handled"},
                                    owner : Players \cup {None}]]
      /\ command'[c].status = "handled" /\ command[c] # NoCommand
      /\ \A x \in Commands \ {c} : command'[x] = command[x]
  BY <1>1, <1>2 DEF TablesTyped, NoCommand
<1>4. TablesTyped'
  BY <1>1, <1>2, <1>3 DEF TablesTyped
<1>5. HandledOnes' = HandledOnes \cup {c} /\ NotifiedOnes' = NotifiedOnes
  BY <1>1, <1>2, <1>3 DEF HandledOnes, NotifiedOnes
<1>6. Tables(s)
  <2>1. \A x \in Commands : command[x] = NoCommand => command'[x] = NoCommand
    BY <1>3
  <2>2. \A x \in Commands : command[x] # NoCommand => command'[x] # NoCommand
    BY <1>3 DEF NoCommand
  <2> QED
    BY <1>1, <1>2, <1>4, <1>5, <2>1, <2>2, CommandTables
<1>7. PICK b : b = Following(todo[s])
  OBVIOUS
<1>8. b = "bill"
  BY <1>1, <1>7, Invs, Here DEF Leads
<1>9. holder' \in [Commands -> Sessions \cup {None}] /\ read' \in [Sessions -> Read]
      /\ \A t \in Sessions \ {s} : \A x \in Commands : holder[x] = t => holder'[x] = t
  BY <1>1 DEF IInv, TypeOK, Release
<1>10. Knows(s, b)'
  BY <1>8 DEF Knows
<1>11. Own(s)
  BY <1>1, <1>7, <1>9, <1>10, Invs, AdvanceOwn
<1> QED
  BY <1>6, <1>11

LEMMA BillKeeps ==
  ASSUME IInv, NEW s \in Sessions, BillPayer(s)
  PROVE  Own(s) /\ Tables(s)
<1>1. TablesTyped /\ call[s].command \in Commands
  BY ArgumentsAt DEF BillPayer
<1>2. TablesTyped' /\ UNCHANGED <<deskOwner, staff, shift, item, command>> /\ inbox \subseteq inbox'
  BY <1>1 DEF BillPayer, TablesTyped
<1>3. HandledOnes' = HandledOnes /\ NotifiedOnes' = NotifiedOnes
  BY <1>2 DEF BillPayer, HandledOnes, NotifiedOnes
<1>4. Tables(s)
  BY <1>2, <1>3, CommandTables
<1> QED
  BY <1>4, Invs, EndOwn DEF BillPayer

---------------------------------------------------------------------------
(* Work items *)

(* One item changes. *)
ItemBecomes(d, c, new) ==
  /\ item' \in [Desks -> [Commands -> Item]] /\ item'[d][c] = new
  /\ \A e \in Desks, x \in Commands : e # d \/ x # c => item'[e][x] = item[e][x]

LEMMA ItemSet ==
  ASSUME TablesTyped, NEW d \in Desks, NEW c \in Commands, NEW new \in Item,
         item' = [item EXCEPT ![d][c] = new]
  PROVE  ItemBecomes(d, c, new)
BY DEF TablesTyped, ItemBecomes

LEMMA ItemStatusSet ==
  ASSUME TablesTyped, NEW d \in Desks, NEW c \in Commands,
         NEW status \in {"queued", "done"}, item' = [item EXCEPT ![d][c].status = status]
  PROVE  ItemBecomes(d, c, [status |-> status, by |-> item[d][c].by])
<1>1. item[d][c] \in Item
  BY DEF TablesTyped
<1>2. [item[d][c] EXCEPT !.status = status] = [status |-> status, by |-> item[d][c].by]
      /\ [status |-> status, by |-> item[d][c].by] \in Item
  BY <1>1 DEF Item
<1>3. item' = [item EXCEPT ![d][c] = [status |-> status, by |-> item[d][c].by]]
  BY <1>2 DEF TablesTyped
<1> QED
  BY <1>2, <1>3, ItemSet

(* Steps at one item that keep or hire its worker. *)
LEMMA ItemTables ==
  ASSUME IInv, NEW s \in Sessions, NEW d \in Desks, NEW c \in Commands, NEW new \in Item,
         ItemBecomes(d, c, new),
         UNCHANGED <<parcelOwner, deskOwner, staff, shift, route, requested, inbox>>,
         command' \in [Commands -> [status : {"none", "delivered", "handled"},
                                    owner : Players \cup {None}]],
         \A x \in Commands \ {c} : command'[x] = command[x],
         command'[c] = command[c] \/ (command[c] # NoCommand /\ command'[c].status = "handled"),
         \/ holder[c] \in {s, None}
         \/ item[d][c].status = "queued" /\ new.status = "claimed",
         Drained(c)' => command'[c].status = "handled",
         \A p \in Players : new.by = p => item[d][c].by = p \/ Hired(d, p),
         [Board!Next]_(Board!vars)
  PROVE  Tables(s)
<1>1. TablesTyped'
  <2>1. TablesTyped
    BY Invs, Types
  <2> QED
    BY <2>1 DEF TablesTyped, ItemBecomes
<1>2. Kept(s)
  <2>1. \A e \in Desks, x \in Commands : holder[x] \notin {s, None} =>
          /\ OpenAt(e, x)' <=> OpenAt(e, x)
          /\ item[e][x].status = "claimed" => item'[e][x] = item[e][x]
    <3> SUFFICES ASSUME NEW e \in Desks, NEW x \in Commands, holder[x] \notin {s, None}
                 PROVE  /\ OpenAt(e, x)' <=> OpenAt(e, x)
                        /\ item[e][x].status = "claimed" => item'[e][x] = item[e][x]
      OBVIOUS
    <3>1. CASE e = d /\ x = c
      BY <3>1 DEF ItemBecomes, OpenAt
    <3>2. CASE e # d \/ x # c
      BY <3>2 DEF ItemBecomes, OpenAt
    <3> QED
      BY <3>1, <3>2
  <2>2. \A x \in Commands : command[x] = NoCommand => command'[x] = NoCommand
    OBVIOUS
  <2>3. \A x \in Commands : command[x] # NoCommand => command'[x] # NoCommand
    BY DEF NoCommand
  <2> QED
    BY <2>1, <2>2, <2>3 DEF Kept, Hired
<1>3. AllHandled'
  <2> SUFFICES ASSUME NEW x \in Commands, Drained(x)' PROVE command'[x].status = "handled"
    BY DEF AllHandled
  <2>1. CASE x = c
    BY <2>1
  <2>2. CASE x # c
    <3>1. \A e \in Desks : item'[e][x] = item[e][x]
      BY <2>2 DEF ItemBecomes
    <3>2. Drained(x)
      BY <3>1 DEF Drained
    <3> QED
      BY <2>2, <3>2 DEF IInv
  <2> QED
    BY <2>1, <2>2
<1>4. OnlyHiredWorkersWork'
  <2> SUFFICES ASSUME NEW e \in Desks, NEW p \in Players,
                      p \in shift'[e] \/ (\E x \in Commands : item'[e][x].by = p)
               PROVE  Hired(e, p)'
    BY DEF OnlyHiredWorkersWork, Hired
  <2>1. p \in shift[e] \/ (\E x \in Commands : item[e][x].by = p) => Hired(e, p)
    BY DEF IInv, OnlyHiredWorkersWork, Hired
  <2>2. \A x \in Commands : item'[e][x].by = p => item[e][x].by = p \/ Hired(e, p)
    BY DEF ItemBecomes
  <2>3. Hired(e, p)
    BY <2>1, <2>2
  <2> QED
    BY <2>3 DEF Hired
<1> QED
  BY <1>1, <1>2, <1>3, <1>4 DEF Tables

LEMMA QueueKeeps ==
  ASSUME IInv, NEW s \in Sessions, NEW d \in Desks, QueueItem(s, d)
  PROVE  Own(s) /\ Tables(s)
<1>0. PICK c : c = call[s].command
  OBVIOUS
<1>1. /\ At(s, "queue") /\ holder[c] = None /\ read' = [read EXCEPT ![s].desks = @ \ {d}]
      /\ UNCHANGED <<parcelOwner, deskOwner, staff, shift, route, command, requested, inbox,
                     todo, call, holder>>
      /\ item' = IF item[d][c] = NoItem THEN [item EXCEPT ![d][c].status = "queued"] ELSE item
  BY <1>0 DEF QueueItem
<1>2. TablesTyped /\ c \in Commands /\ <<"command", c>> \in inbox
  BY <1>0, <1>1, ArgumentsAt, Invs, Here DEF Knows
<1>3. Own(s)
  <2>1. read \in [Sessions -> Read]
    BY DEF IInv, TypeOK
  <2>2. [read[s] EXCEPT !.desks = read[s].desks \ {d}] \in Read
    BY <2>1 DEF Read
  <2>3. read' \in [Sessions -> Read] /\ \A t \in Sessions \ {s} : read'[t] = read[t]
    BY <1>1, <2>1, <2>2
  <2>4. SessionsTyped' /\ Others(s) /\ SaysApart'
    BY <1>1, <2>3 DEF SessionsTyped, Others, SaysApart, IInv, TypeOK
  <2>5. SessionInv(s)'
    <3>1. call[s] \in Call /\ Placed(call[s].op, todo[s]) /\ todo[s][1] = "queue"
      BY <1>1, Invs, Here DEF At
    <3>2. Knows(s, "queue")'
      BY <1>0, <1>1, <1>2 DEF Knows
    <3> QED
      BY <1>1, <3>1, <3>2 DEF SessionInv
  <2> QED
    BY <2>4, <2>5 DEF Own
<1>4. CASE item[d][c] # NoItem
  BY <1>1, <1>3, <1>4, SameTables DEF tables
<1>5. CASE item[d][c] = NoItem
  <2>1. ItemBecomes(d, c, [status |-> "queued", by |-> None])
    <3>1. item' = [item EXCEPT ![d][c].status = "queued"] /\ item[d][c].by = None
      BY <1>1, <1>5 DEF NoItem
    <3>2. ItemBecomes(d, c, [status |-> "queued", by |-> item[d][c].by])
      BY <1>2, <3>1, ItemStatusSet
    <3> QED
      BY <3>1, <3>2
  <2>2. [status |-> "queued", by |-> None] \in Item
    BY DEF Item
  <2>3. ~Drained(c)'
    BY <2>1 DEF Drained, ItemBecomes
  <2>4. Board!Queue(d, c)
    <3>1. item' = [item EXCEPT ![d][c] = [status |-> "queued", by |-> None]]
      <4>1. [item[d][c] EXCEPT !.status = "queued"] = [status |-> "queued", by |-> None]
        BY <1>5 DEF NoItem
      <4> QED
        BY <1>1, <1>2, <1>5, <4>1 DEF TablesTyped
    <3> QED
      BY <1>1, <1>2, <1>5, <3>1 DEF Board!Queue, Board!NoItem, NoItem
  <2>5. [Board!Next]_(Board!vars)
    BY <1>2, <2>4 DEF Board!Next
  <2>6. command' \in [Commands -> [status : {"none", "delivered", "handled"},
                                   owner : Players \cup {None}]]
    BY <1>1, <1>2 DEF TablesTyped
  <2>7. \A p \in Players : [status |-> "queued", by |-> None].by = p => FALSE
    BY ConstantsAssumption DEF ConstantsAssumption
  <2>8. Tables(s)
    BY <1>1, <1>2, <2>1, <2>2, <2>3, <2>5, <2>6, <2>7, ItemTables
  <2> QED
    BY <1>3, <2>8
<1> QED
  BY <1>4, <1>5

LEMMA ClaimKeeps ==
  ASSUME IInv, NEW s \in Sessions, ClaimItem(s)
  PROVE  Own(s) /\ Tables(s)
<1>0. PICK c, d, p : c = call[s].command /\ d = call[s].desk /\ p = call[s].player
  OBVIOUS
<1>1. /\ At(s, "claim") /\ End(s)
      /\ UNCHANGED <<parcelOwner, deskOwner, staff, shift, route, command, requested, inbox>>
      /\ item' = IF item[d][c].status = "queued"
                   THEN [item EXCEPT ![d][c] = [status |-> "claimed", by |-> p]] ELSE item
  BY <1>0 DEF ClaimItem, ItemOf
<1>2. TablesTyped /\ c \in Commands /\ d \in Desks /\ p \in Players /\ Hired(d, p)
  BY <1>0, <1>1, ArgumentsAt, Invs, Here DEF Knows
<1>3. Own(s)
  BY <1>1, Invs, EndOwn
<1>4. CASE item[d][c].status # "queued"
  BY <1>1, <1>3, <1>4, SameTables DEF tables
<1>5. CASE item[d][c].status = "queued"
  <2>1. [status |-> "claimed", by |-> p] \in Item
    BY <1>2 DEF Item
  <2>2. ItemBecomes(d, c, [status |-> "claimed", by |-> p])
    BY <1>1, <1>2, <1>5, <2>1, ItemSet
  <2>3. ~Drained(c)'
    BY <1>2, <2>2 DEF Drained, ItemBecomes
  <2>4. Board!Claim(d, c, p)
    BY <1>1, <1>2, <1>5 DEF Board!Claim
  <2>5. [Board!Next]_(Board!vars)
    BY <1>2, <2>4 DEF Board!Next
  <2>6. command' \in [Commands -> [status : {"none", "delivered", "handled"},
                                   owner : Players \cup {None}]]
    BY <1>1, <1>2 DEF TablesTyped
  <2>7. \A q \in Players : [status |-> "claimed", by |-> p].by = q => Hired(d, q)
    BY <1>2
  <2>8. Tables(s)
    BY <1>1, <1>2, <1>5, <2>1, <2>2, <2>3, <2>5, <2>6, <2>7, ItemTables
  <2> QED
    BY <1>3, <2>8
<1> QED
  BY <1>4, <1>5

LEMMA CommitKeeps ==
  ASSUME IInv, NEW s \in Sessions, CommitFinish(s)
  PROVE  Own(s) /\ Tables(s)
<1>0. PICK c, d, p : c = call[s].command /\ d = call[s].desk /\ p = call[s].player
  OBVIOUS
<1>1. /\ At(s, "commit") /\ End(s)
      /\ UNCHANGED <<parcelOwner, deskOwner, staff, shift, route, requested, inbox>>
      /\ item' = [item EXCEPT ![d][c].status = "done"]
      /\ command' = IF read[s].last THEN [command EXCEPT ![c].status = "handled"] ELSE command
  BY <1>0 DEF CommitFinish
<1>2. TablesTyped /\ c \in Commands /\ d \in Desks /\ p \in Players
  BY <1>0, <1>1, ArgumentsAt
<1>3. /\ holder[c] = s /\ command[c] # NoCommand
      /\ item[d][c] = [status |-> "claimed", by |-> p]
      /\ read[s].last <=> OpenBesides(d, c) = {}
  BY <1>0, <1>1, Invs, Here DEF Knows
<1>4. Own(s)
  BY <1>1, Invs, EndOwn
<1>5. [status |-> "done", by |-> p] \in Item /\ ItemBecomes(d, c, [status |-> "done", by |-> p])
  <2>1. ItemBecomes(d, c, [status |-> "done", by |-> item[d][c].by])
    BY <1>1, <1>2, ItemStatusSet
  <2>2. item[d][c].by = p
    BY <1>3
  <2>3. [status |-> "done", by |-> p] \in Item
    BY <1>2 DEF Item
  <2> QED
    BY <2>1, <2>2, <2>3
<1>6. /\ command' \in [Commands -> [status : {"none", "delivered", "handled"},
                                    owner : Players \cup {None}]]
      /\ \A x \in Commands \ {c} : command'[x] = command[x]
      /\ IF read[s].last THEN command'[c].status = "handled" ELSE command' = command
  BY <1>1, <1>2 DEF TablesTyped
<1>7. Drained(c)' => command'[c].status = "handled"
  <2> SUFFICES ASSUME ~read[s].last PROVE ~Drained(c)'
    BY <1>6
  <2>1. PICK e \in Desks \ {d} : OpenAt(e, c)
    BY <1>3, OpenOnes
  <2>2. item'[e][c] = item[e][c]
    BY <1>2, <1>5, <2>1 DEF ItemBecomes
  <2> QED
    BY <2>1, <2>2 DEF Drained, OpenAt
<1>8. Board!Finish(d, c)
  <2>1. read[s].last <=> Board!Open(c) = {d}
    <3>1. Board!Open(c) = OpenBesides(d, c) \cup {d} /\ d \notin OpenBesides(d, c)
      BY <1>2, <1>3 DEF Board!Open, OpenBesides
    <3> QED
      BY <1>3, <3>1
  <2>2. HandledOnes' = IF read[s].last THEN HandledOnes \cup {c} ELSE HandledOnes
    BY <1>2, <1>6 DEF HandledOnes
  <2>3. NotifiedOnes' = NotifiedOnes
    BY <1>1 DEF NotifiedOnes
  <2> QED
    BY <1>1, <1>3, <2>1, <2>2, <2>3 DEF Board!Finish, HandledOnes, NotifiedOnes
<1>9. [Board!Next]_(Board!vars)
  BY <1>2, <1>8 DEF Board!Next
<1>10. \A q \in Players : [status |-> "done", by |-> p].by = q => item[d][c].by = q
  BY <1>3
<1>11. command'[c] = command[c] \/ (command[c] # NoCommand /\ command'[c].status = "handled")
  BY <1>3, <1>6
<1>12. Tables(s)
  BY <1>1, <1>2, <1>3, <1>5, <1>6, <1>7, <1>9, <1>10, <1>11, ItemTables
<1> QED
  BY <1>4, <1>12

---------------------------------------------------------------------------
(* The specification *)

LEMMA InitKeeps == Init => IInv /\ Board!Init
<1> SUFFICES ASSUME Init PROVE IInv /\ Board!Init
  OBVIOUS
<1>1. NoCall \in Call \cup {NoCall} /\ NoRead \in Read /\ NoItem \in Item /\ <<>> \in Seq(Labels)
  BY DEF NoRead, Read, NoItem, Item
<1>2. NoCommand \in [status : {"none", "delivered", "handled"}, owner : Players \cup {None}]
  BY DEF NoCommand
<1>3. TypeOK
  <2>1. TablesTyped
    BY <1>1, <1>2, ConstantsAssumption DEF Init, TablesTyped, ConstantsAssumption
  <2>2. SessionsTyped
    BY <1>1 DEF Init, SessionsTyped
  <2> QED
    BY <2>1, <2>2, Types, ConstantsAssumption DEF Init, ConstantsAssumption
<1>4. \A s \in Sessions : SessionInv(s)
  BY DEF Init, SessionInv
<1>5. SaysApart
  BY DEF Init, SaysApart, NoCall
<1>6. \A c \in Commands : ~Drained(c)
  BY DEF Init, Drained, NoItem
<1>7. OnlyHiredWorkersWork
  BY ConstantsAssumption DEF Init, OnlyHiredWorkersWork, NoItem, ConstantsAssumption
<1>8. Board!Init
  BY DEF Init, Board!Init, NoItem, Board!NoItem, NoCommand
<1> QED
  BY <1>3, <1>4, <1>5, <1>6, <1>7, <1>8 DEF IInv, Init

(* Every statement keeps the invariant and is a step of WorkBoard, or none. *)
LEMMA StatementKeeps ==
  ASSUME IInv, NEW s \in Sessions, Statement(s)
  PROVE  Own(s) /\ Tables(s)
<1>1. CASE Check(s)
  BY <1>1, CheckKeeps
<1>2. CASE Refuse(s) \/ CommandNotFound(s) \/ NoNewRequest(s)
  BY <1>2, EndKeeps DEF Refuse, CommandNotFound, NoNewRequest
<1>3. CASE CreateDesk(s) \/ Hire(s) \/ Fire(s) \/ TransferParcel(s)
  BY <1>3, CreateDeskKeeps, HireKeeps, FireKeeps, TransferKeeps
<1>4. CASE EndShifts(s) \/ StartShift(s) \/ EndShift(s)
  BY <1>4, ShiftKeeps
<1>5. CASE AddRoute(s) \/ DropRoute(s)
  BY <1>5, RouteKeeps
<1>6. CASE StoreCommand(s) \/ NotifyRoom(s) \/ ReadRoutes(s) \/ Routed(s)
  BY <1>6, StoreCommandKeeps, NotifyKeeps, ReadRoutesKeeps, RoutedKeeps
<1>7. CASE \E d \in Desks : QueueItem(s, d)
  BY <1>7, QueueKeeps
<1>8. CASE LockCommand(s) \/ RequestPayment(s) \/ BillPayer(s)
  BY <1>8, LockKeeps, RequestKeeps, BillKeeps
<1>9. CASE ClaimItem(s) \/ FinishItem(s) \/ CountOpen(s) \/ CommitFinish(s)
  BY <1>9, ClaimKeeps, FinishItemKeeps, CountOpenKeeps, CommitKeeps
<1> QED
  BY <1>1, <1>2, <1>3, <1>4, <1>5, <1>6, <1>7, <1>8, <1>9 DEF Statement

LEMMA NextKeeps == IInv /\ [Next]_vars => IInv' /\ [Board!Next]_(Board!vars)
<1> SUFFICES ASSUME IInv, [Next]_vars PROVE IInv' /\ [Board!Next]_(Board!vars)
  OBVIOUS
<1>1. CASE UNCHANGED vars
  <2>1. /\ UNCHANGED <<parcelOwner, deskOwner, staff, shift, route, command, item, requested, inbox>>
        /\ UNCHANGED <<todo, call, read, cachedOwner, holder, menu>>
    BY <1>1 DEF vars, tables, sessions
  <2>2. TypeOK'
    BY <2>1 DEF IInv, TypeOK
  <2>3. (\A s \in Sessions : SessionInv(s)') /\ SaysApart' /\ AllHandled' /\ OnlyHiredWorkersWork'
    BY <2>1 DEF IInv, SessionInv, Knows, Hired, OpenBesides, SaysApart, AllHandled, Drained,
                OnlyHiredWorkersWork
  <2>4. UNCHANGED Board!vars
    BY <2>1 DEF Board!vars
  <2> QED
    BY <2>1, <2>2, <2>3, <2>4 DEF IInv, AllHandled
<1>2. CASE RefreshCache /\ UNCHANGED menu
  <2>1. /\ UNCHANGED <<parcelOwner, deskOwner, staff, shift, route, command, item, requested, inbox>>
        /\ UNCHANGED <<todo, call, read, holder, menu>> /\ cachedOwner' = parcelOwner
    BY <1>2 DEF RefreshCache, tables, sessions
  <2>2. TypeOK'
    BY <2>1 DEF IInv, TypeOK
  <2>3. (\A s \in Sessions : SessionInv(s)') /\ SaysApart' /\ AllHandled' /\ OnlyHiredWorkersWork'
    BY <2>1 DEF IInv, SessionInv, Knows, Hired, OpenBesides, SaysApart, AllHandled, Drained,
                OnlyHiredWorkersWork
  <2>4. UNCHANGED Board!vars
    BY <2>1 DEF Board!vars
  <2> QED
    BY <2>1, <2>2, <2>3, <2>4 DEF IInv, AllHandled
<1>3. ASSUME NEW s \in Sessions, SessionStep(s), UNCHANGED menu
      PROVE  IInv' /\ [Board!Next]_(Board!vars)
  <2>2. Own(s) /\ Tables(s)
    BY <1>3, BeginKeeps, StatementKeeps, EndKeeps DEF SessionStep, Disconnect
  <2>3. cachedOwner' \in Players
    BY <1>3 DEF SessionStep, IInv, TypeOK
  <2> QED
    BY <1>3, <2>2, <2>3, StepKeeps
<1> QED
  BY <1>1, <1>2, <1>3 DEF Next

LEMMA Inductive == Spec => []IInv
<1>1. Init => IInv
  BY InitKeeps
<1>2. IInv /\ [Next]_vars => IInv'
  BY NextKeeps
<1> QED
  BY <1>1, <1>2, PTL DEF Spec

(* Every variable has its type in every reachable state: in particular no  *)
(* stored command is left pending, whoever stores it and stops wherever.   *)
THEOREM WorkTyped == Spec => []TypeOK
<1>1. IInv => TypeOK
  BY DEF IInv
<1> QED
  BY <1>1, Inductive, PTL

(* ensure_worker_assigned guards every step of the work: nobody has a      *)
(* shift or an item at a desk who never was its staff or its owner.        *)
THEOREM WorkersAreHired == Spec => []OnlyHiredWorkersWork
<1>1. IInv => OnlyHiredWorkersWork
  BY DEF IInv
<1> QED
  BY <1>1, Inductive, PTL

(* finish_parcel_work: a command all whose items are done is handled, for  *)
(* any desks and any workers who finish its items at the same time.        *)
THEOREM DrainedAreHandled == Spec => []DrainedCommandsHandled
<1>1. IInv => DrainedCommandsHandled
  BY DrainedIsDone DEF IInv, DrainedCommandsHandled
<1> QED
  BY <1>1, Inductive, PTL

(* Statement by statement, and wherever calls stop, the desks do what      *)
(* WorkBoard does in single steps.                                         *)
THEOREM WorkImplementsBoard == Spec => ImplementsWorkBoard
<1>1. Init => Board!Init
  BY InitKeeps
<1>2. IInv /\ [Next]_vars => [Board!Next]_(Board!vars)
  BY NextKeeps
<1> QED
  BY <1>1, <1>2, Inductive, PTL DEF Spec, ImplementsWorkBoard, Board!Spec
=============================================================================
