----------------------------- MODULE Residents -----------------------------
(***************************************************************************)
(* The resident loop (app/src/resident_loop.rs, memory.rs): the self model *)
(* of a player, made over by every observation sent to them and by every   *)
(* step of theirs.  A call ensures the model under the agent's lock, works *)
(* from what it returned, and records the new state under the lock again;  *)
(* connections of a player overwrite each other in between, and days pass. *)
(*                                                                         *)
(* Rows before the latest are never read and are left out, as are the      *)
(* texts and scores of a state that no later state is made from.           *)
(***************************************************************************)
EXTENDS TaskMatch, Naturals, FiniteSets

CONSTANTS
    Residents, Terminals,
    ResidentOf,         \* the player of a connection
    Scenes, Folk,       \* views with their events; other players in sight, those
                        \* whose name begins with + left out
    Exits,              \* directions out of every scene
    MaxPressure,        \* MAX_SUBJECTIVE_PRESSURE_POINTS
    DefaultLoneliness, DefaultBoredom,
    MaxDay, MaxSearches \* bounds on the days, and on the searches of one

ASSUME ResidentsAssumption ==
    /\ ResidentOf \in [Terminals -> Residents]
    /\ {MaxPressure, MaxDay, MaxSearches} \subseteq Nat
    /\ {DefaultLoneliness, DefaultBoredom} \subseteq 0..MaxPressure
    /\ IsFiniteSet(Folk)

VARIABLES
    selfModel,  \* agent_self_models: the state of the latest row, by resident
    madeBy,     \* the texts it was made from
    texts,      \* the program's texts of identity and style
    day,        \* the virtual day
    turn        \* per connection, its call

residentVars == <<selfModel, madeBy, texts, day, turn>>

None     == 0
NoModel  == [reportDay |-> None, searchDay |-> None, searches |-> MaxSearches + 1,
             snap |-> <<>>]
Observation == [scene : Scenes, users : SUBSET Folk]
Call(op, obs, action) == [op |-> op, seen |-> <<obs>>, action |-> action,
                          prev |-> NoModel, day |-> None]
NoTurn   == [op |-> "none", seen |-> <<>>, action |-> "observe", prev |-> NoModel,
             day |-> None]

(* default_resident_current_state *)
DefaultState == [reportDay |-> None, searchDay |-> None, searches |-> 0, snap |-> <<>>]

ResidentsInit == /\ selfModel = [r \in Residents |-> NoModel]
                 /\ madeBy = [r \in Residents |-> 0] /\ texts = 1
                 /\ day = 1
                 /\ turn = [t \in Terminals |-> NoTurn]

-----------------------------------------------------------------------------
(* The rules of the loop, of a previous state, a day and an action. *)
ReportCommand == With(<<"memory">>, "rest", "report")

TaskCommands ==
    {Bare("look"), Bare("who"), Bare("quit"), ReportCommand,
     With(<<"memory">>, "rest", "recall"), With(<<"say">>, "text", "hello"),
     With(<<"settings", "gender">>, "gender", "other"),
     With(<<"parcel", "build", "apply">>, "sheet", "a sheet")}
      \cup {With(<<"move">>, "direction", d) : d \in {"north", "up"}}

ResidentLoopAction(c) ==
    CASE c.path \in One({"move", "who", "look", "map"}) -> "search"
      [] c = ReportCommand                              -> "report"
      [] OTHER                                          -> "other"

SearchesToday(prev, d) == IF prev.searchDay = d THEN prev.searches ELSE 0
ReportDue(prev, d)     == prev.reportDay # d

CompletesAnyReport(prev, d, action) ==      \* a mutant: a second one of a day counts
    action = "report" /\ SearchesToday(prev, d) > 0
CompletesDailyReport(prev, d, action) ==
    action = "report" /\ ReportDue(prev, d) /\ SearchesToday(prev, d) > 0

(* Of a snapshot: what the last one said, or what a resident begins with. *)
Last(prev, field, default) == IF prev.snap = <<>> THEN default ELSE prev.snap[1][field]

Relieved(p, n) == IF n < p THEN p - n ELSE 0
Raised(p)      == IF p < MaxPressure THEN p + 1 ELSE p

NextLonelinessPoints(prev, contacts, action, done) ==
    LET p == Last(prev, "lonely", DefaultLoneliness)
    IN  CASE contacts > 0                                -> Relieved(p, contacts)
          [] contacts = 0 /\ (action = "search" \/ done) -> Relieved(p, 1)
          [] contacts = 0 /\ action = "observe"          -> p
          [] OTHER                                       -> Raised(p)

NextBoredomPoints(prev, contacts, action, done) ==
    LET p == Last(prev, "bored", DefaultBoredom)
    IN  CASE contacts > 0 \/ action = "search" \/ done  -> Relieved(p, 1)
          [] contacts = 0 /\ action = "observe"         -> p
          [] OTHER                                      -> Raised(p)

ResidentObservedTaskState(obs, prev, d, action) ==
    LET contacts == Cardinality(obs.users)
        done     == CompletesDailyReport(prev, d, action)
    IN  [progress |-> Last(prev, "progress", 0) + (IF done THEN 1 ELSE 0),
         lonely   |-> NextLonelinessPoints(prev, contacts, action, done),
         bored    |-> NextBoredomPoints(prev, contacts, action, done)]

(* The last snapshot is kept when it is of this scene, company and day. *)
Stored(obs, prev, d) ==
    /\ prev.snap # <<>>
    /\ LET s == prev.snap[1] IN s.scene = obs.scene /\ s.users = obs.users /\ s.day = d

Meters(obs, prev, d) ==
    IF Stored(obs, prev, d)
      THEN [f \in {"progress", "lonely", "bored"} |-> prev.snap[1][f]]
      ELSE ResidentObservedTaskState(obs, prev, d, "observe")

(* resident_current_state: virtual time and the new snapshot. *)
ResidentCurrentState(obs, prev, d, action, meters) ==
    [reportDay |-> IF CompletesDailyReport(prev, d, action) THEN d ELSE prev.reportDay,
     searchDay |-> IF action = "search" \/ prev.searchDay = d THEN d ELSE None,
     searches  |-> SearchesToday(prev, d) + (IF action = "search" THEN 1 ELSE 0),
     snap      |-> <<[scene |-> obs.scene, users |-> obs.users, day |-> d,
                      progress |-> meters.progress,
                      lonely |-> meters.lonely, bored |-> meters.bored]>>]

-----------------------------------------------------------------------------
(* An observation is sent to an admitted player: resident_context. *)
BeginContext(t, obs) ==
    /\ turn[t] = NoTurn
    /\ turn' = [turn EXCEPT ![t] = Call("context", obs, "observe")]
    /\ UNCHANGED <<selfModel, madeBy, texts, day>>

(* A command was run between two observations: record_resident_task_step.  *)
(* What it is as an action depends on it and the first observation alone.  *)
LoopAction(c) == IF ValidateCommand(c, AvailableCommands(Exits)) THEN ResidentLoopAction(c)
                                                                 ELSE "refused"

BeginStep(t, obs, command) ==
    /\ turn[t] = NoTurn
    /\ turn' = [turn EXCEPT ![t] = Call("step", obs, LoopAction(command))]
    /\ UNCHANGED <<selfModel, madeBy, texts, day>>

(* ensure_self_model: one transaction.  A model of other texts is deleted  *)
(* with its rows, and the resident begins anew.                            *)
EnsureSelfModel(t) ==
    LET r    == ResidentOf[t]
        kept == selfModel[r] # NoModel /\ madeBy[r] = texts
        now  == IF kept THEN selfModel[r] ELSE DefaultState
    IN  /\ turn[t].op # "none" /\ turn[t].prev = NoModel
        /\ selfModel' = [selfModel EXCEPT ![r] = now]
        /\ madeBy' = [madeBy EXCEPT ![r] = texts]
        /\ turn' = [turn EXCEPT ![t].prev = now]
        /\ UNCHANGED <<texts, day>>

(* Its memories are searched, and the clock is read. *)
ReadClock(t) ==
    /\ turn[t].prev # NoModel /\ turn[t].day = None
    /\ turn' = [turn EXCEPT ![t].day = day]
    /\ UNCHANGED <<selfModel, madeBy, texts, day>>

(* record_self_model_state: over whatever the latest state is by now. *)
EndTurn(t) == turn' = [turn EXCEPT ![t] = NoTurn] /\ UNCHANGED <<madeBy, texts, day>>

RecordContext(t) ==
    LET c == turn[t]
    IN  /\ c.op = "context" /\ c.day # None
        /\ selfModel' = [selfModel EXCEPT ![ResidentOf[t]] =
              ResidentCurrentState(c.seen[1], c.prev, c.day, "observe",
                                   Meters(c.seen[1], c.prev, c.day))]
        /\ EndTurn(t)

RecordStep(t) ==
    LET c == turn[t]
    IN  /\ c.op = "step" /\ c.day # None /\ c.action # "refused"
        /\ c.action = "search" => SearchesToday(c.prev, c.day) < MaxSearches
        /\ selfModel' = [selfModel EXCEPT ![ResidentOf[t]] =
              ResidentCurrentState(c.seen[1], c.prev, c.day, c.action,
                 ResidentObservedTaskState(c.seen[1], c.prev, c.day, c.action))]
        /\ EndTurn(t)

(* A refused command is not recorded; a call may fail anywhere. *)
GiveUp(t) == turn[t] # NoTurn /\ EndTurn(t) /\ UNCHANGED selfModel

-----------------------------------------------------------------------------
DayPasses == /\ day' = day + 1
             /\ UNCHANGED <<selfModel, madeBy, texts, turn>>

(* The server comes back with other texts. *)
Upgrade == /\ texts = 1 /\ texts' = 2
           /\ turn' = [t \in Terminals |-> NoTurn]
           /\ UNCHANGED <<selfModel, madeBy, day>>

TurnStep(t) == EnsureSelfModel(t) \/ ReadClock(t) \/ RecordContext(t) \/ RecordStep(t)
                 \/ GiveUp(t)

-----------------------------------------------------------------------------
ResidentsTypeOK ==
    \A r \in Residents :
        \/ selfModel[r] = NoModel
        \/ /\ selfModel[r].searches \in 0..MaxSearches
           /\ {selfModel[r].reportDay, selfModel[r].searchDay} \subseteq 0..day
           /\ {Last(selfModel[r], "lonely", 0), Last(selfModel[r], "bored", 0)}
                 \subseteq 0..MaxPressure

(* Progress counts days with a report: whatever stale states connections   *)
(* write over each other, a resident has no more progress than days up to  *)
(* the last report that counted.                                           *)
ProgressCountsDays ==
    \A r \in Residents : Last(selfModel[r], "progress", 0) <= selfModel[r].reportDay
=============================================================================
