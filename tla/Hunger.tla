------------------------------- MODULE Hunger -------------------------------
(***************************************************************************)
(* The hunger gate before a command (app/src/hunger.rs) over player_hunger *)
(* (storage_ext.rs): the points are read, compared and raised in           *)
(* statements of their own, and a player may have several connections.    *)
(***************************************************************************)
EXTENDS Naturals, FiniteSets

CONSTANTS
    Diners,         \* players
    Mouths,         \* connections
    DinerOf,        \* the player of a connection
    Threshold,      \* HUNGER_THRESHOLD_POINTS
    MaxHunger,      \* MAX_HUNGER_POINTS
    MaxCooldowns    \* bound on the cooldowns that pass

ASSUME HungerAssumption ==
    /\ DinerOf \in [Mouths -> Diners] /\ IsFiniteSet(Mouths)
    /\ {MaxHunger, MaxCooldowns} \subseteq Nat /\ Threshold \in Nat \ {0}

VARIABLES
    points,     \* player_hunger.hunger_points
    rich,       \* the balance pays for a meal
    cooling,    \* last_hungry_broke_allowed_at is less than the cooldown ago
    cooled,     \* cooldowns that have passed
    gate,       \* per connection, the statement of the check it is at
    appetite    \* and the profile of its command

hungerVars == <<points, rich, cooling, cooled, gate, appetite>>

(* recovery, counts_as_interaction *)
HungerCommandProfile == {"exempt", "recovery", "meaningful"}

HungerInit ==
    /\ points = [d \in Diners |-> 0]
    /\ rich \in [Diners -> BOOLEAN]
    /\ cooling = [d \in Diners |-> FALSE] /\ cooled = [d \in Diners |-> 0]
    /\ gate = [m \in Mouths |-> "idle"] /\ appetite = [m \in Mouths |-> "exempt"]

(* profile_for_command: the command's path, or a line of a room and        *)
(* whether the room says that it recovers.                                 *)
FreeCommands == {"look", "map", "inventory", "history", "news", "who", "balance",
                 "mailbox", "inbox", "memory", "settings", "help", "quit"}
FreeWords    == (FreeCommands \ {"inbox"}) \cup {"", "mail"}
Commands     == FreeCommands \cup {"move", "enter", "say"}
Words        == FreeWords \cup {"go", "enter", "order"}

ProfileForRawLine(word, recovers) ==
    CASE word \in FreeWords                      -> "exempt"
      [] word \in {"go", "enter"} \/ recovers    -> "recovery"
      [] OTHER                                   -> "meaningful"

ProfileForCommand(name) ==
    CASE name \in FreeCommands      -> "exempt"
      [] name \in {"move", "enter"} -> "recovery"
      [] OTHER                      -> "meaningful"

-----------------------------------------------------------------------------
(* check_hunger_profile.  A profile that recovers and counts for nothing   *)
(* passes without a look; "exempt" and "recovery" both do.                 *)
Ungated(p) == p # "meaningful"

Profiles == {ProfileForCommand(name) : name \in Commands}
              \cup {ProfileForRawLine(word, recovers) : word \in Words, recovers \in BOOLEAN}

CheckHunger(m, p) ==
    /\ gate[m] = "idle" /\ ~Ungated(p)
    /\ gate' = [gate EXCEPT ![m] = "read"] /\ appetite' = [appetite EXCEPT ![m] = p]
    /\ UNCHANGED <<points, rich, cooling, cooled>>

At(m, g)   == gate[m] = g
Goto(m, g) == gate' = [gate EXCEPT ![m] = g] /\ UNCHANGED appetite

Hungry(d) == points[d] >= Threshold

PlayerHunger(m) ==
    /\ At(m, "read")
    /\ Goto(m, IF Hungry(DinerOf[m]) THEN "balance" ELSE "record")
    /\ UNCHANGED <<points, rich, cooling, cooled>>

PlayerBalance(m) ==
    /\ At(m, "balance")
    /\ Goto(m, IF rich[DinerOf[m]] THEN "idle" ELSE "allowance")     \* blocked
    /\ UNCHANGED <<points, rich, cooling, cooled>>

(* One statement: taken only when the cooldown is over. *)
MayAlwaysTake(d) == TRUE        \* a mutant: no cooldown in the where
MayTakeAllowance(d) == ~cooling[d]

TryRecordHungryBroke(m) ==
    LET d == DinerOf[m]
    IN  /\ At(m, "allowance")
        /\ IF MayTakeAllowance(d)
             THEN cooling' = [cooling EXCEPT ![d] = TRUE] /\ Goto(m, "record")
             ELSE UNCHANGED cooling /\ Goto(m, "idle")
        /\ UNCHANGED <<points, rich, cooled>>

(* least(points + 1, max), and the command goes on. *)
RecordInteraction(m) ==
    LET d == DinerOf[m]
    IN  /\ At(m, "record")
        /\ points' = [points EXCEPT ![d] = IF @ < MaxHunger THEN @ + 1 ELSE @]
        /\ Goto(m, "idle")
        /\ UNCHANGED <<rich, cooling, cooled>>

LeaveGate(m) == /\ gate[m] # "idle" /\ Goto(m, "idle")
                /\ UNCHANGED <<points, rich, cooling, cooled>>

-----------------------------------------------------------------------------
(* Money comes and goes, and a cooldown passes. *)
BalanceChanges(d) == /\ rich' = [rich EXCEPT ![d] = ~@]
                     /\ UNCHANGED <<points, cooling, cooled, gate, appetite>>

CooldownPasses(d) == /\ cooling[d] /\ cooled[d] < MaxCooldowns
                     /\ cooling' = [cooling EXCEPT ![d] = FALSE]
                     /\ cooled' = [cooled EXCEPT ![d] = @ + 1]
                     /\ UNCHANGED <<points, rich, gate, appetite>>

MouthStep(m) ==
    \/ \E p \in Profiles : CheckHunger(m, p)
    \/ PlayerHunger(m) \/ PlayerBalance(m) \/ TryRecordHungryBroke(m)
    \/ RecordInteraction(m) \/ LeaveGate(m)

DinerStep(d) == BalanceChanges(d) \/ CooldownPasses(d)

-----------------------------------------------------------------------------
HungerTypeOK ==
    /\ points \in [Diners -> 0..MaxHunger]
    /\ rich \in [Diners -> BOOLEAN] /\ cooling \in [Diners -> BOOLEAN]
    /\ cooled \in [Diners -> 0..MaxCooldowns]
    /\ gate \in [Mouths -> {"idle", "read", "balance", "allowance", "record"}]
    /\ appetite \in [Mouths -> HungerCommandProfile]

(* A hungry player works on at the pace of the cooldown, from however many *)
(* connections: beyond the threshold there is one interaction for every    *)
(* cooldown begun, and one for each other connection that had read the     *)
(* points before they reached it.                                          *)
MouthsOf(d) == {m \in Mouths : DinerOf[m] = d}

HungryWorkIsPaced ==
    \A d \in Diners :
        points[d] + Cardinality({m \in MouthsOf(d) : At(m, "record")})
            < Threshold + Cardinality(MouthsOf(d)) + cooled[d]
                + (IF cooling[d] THEN 1 ELSE 0)
=============================================================================
