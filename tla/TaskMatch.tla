----------------------------- MODULE TaskMatch -----------------------------
(***************************************************************************)
(* Which commands count as a step of a resident's task: those a template   *)
(* of the observation permits (core/src/agent_task_match.rs) and that can  *)
(* be written as one line (core/src/agent_task.rs).                        *)
(*                                                                         *)
(* A task command is a path of Console with its arguments by field.        *)
(***************************************************************************)
EXTENDS Console

(* A field a template leaves open: an empty or <bracketed> text, a zero.   *)
Open == "<open>"

(* The fields a family compares; the others may say anything. *)
Slugged == {"parcel_id", "slug"}

SettingsActionMatches(op) == CASE op = "name"   -> {"name"}   [] op = "gender" -> {"gender"}
                               [] op = "mbti"   -> {"mbti"}   [] op = "intro"  -> {"intro"}
                               [] OTHER         -> {}
InboxActionMatches(op)    == IF op = "list" THEN {"filter"} ELSE {"item_id"}
PayActionMatches(op)      == CASE op = "direct"   -> {"target", "amount", "memo"}
                               [] op = "accept"   -> {"request_id"}
                               [] op = "requests" -> {}
BadgeActionMatches(op)    == IF op = "user" THEN {"target"} ELSE {}
BuildActionMatches(op)    == IF op = "set" THEN {"field"} ELSE {}
MailingListMatches(op)    == IF op = "list" THEN {"parcel_id"} ELSE Slugged
DeskMatches(op)           == IF op = "list" THEN {"parcel_id"} ELSE Slugged
JobMatches(op)            == IF op = "list" THEN {"parcel_id"} ELSE Slugged
RouteMatches(op)          == IF op = "list" THEN {"parcel_id"}
                                            ELSE Slugged \cup {"command_prefix"}
StaffMatches(op)          == IF op = "list" THEN Slugged ELSE Slugged \cup {"username"}
ShiftMatches(op)          == Slugged
WorkMatches(op)           == {"parcel_id", IF op = "list" THEN "slug" ELSE "work_id"}
ParcelBadgeMatches(op)    == IF op = "list" THEN {"parcel_id"} ELSE Slugged

ParcelActionMatches(path) ==
    CASE path[1] = "build"       -> BuildActionMatches(path[2])
      [] path[1] = "mailingList" -> MailingListMatches(path[2])
      [] path[1] = "desk"        -> DeskMatches(path[2])
      [] path[1] = "job"         -> JobMatches(path[2])
      [] path[1] = "route"       -> RouteMatches(path[2])
      [] path[1] = "staff"       -> StaffMatches(path[2])
      [] path[1] = "shift"       -> ShiftMatches(path[2])
      [] path[1] = "work"        -> WorkMatches(path[2])
      [] path[1] = "badge"       -> ParcelBadgeMatches(path[2])
      [] path[1] \in {"info", "claim", "token"}            -> {"parcel_id"}
      [] path[1] = "transfer"                              -> {"parcel_id", "target"}
      [] path[1] = "requestPayment"                        -> {"command_id", "amount"}
      [] path[1] \in {"subscribe", "unsubscribe", "chat"}  -> {"target", "slug"}
      [] OTHER                                             -> {}

Compared(path) ==
    CASE path \in One({"say", "broadcast"}) -> {"text"}
      [] path = <<"mail">>      -> {"target", "text"}
      [] path = <<"memory">>    -> {"rest"}
      [] path = <<"agree">>     -> {"phrase"}
      [] path = <<"extension">> -> {"input"}
      [] path[1] = "settings"   -> SettingsActionMatches(path[2])
      [] path[1] = "inbox"      -> InboxActionMatches(path[2])
      [] path[1] = "pay"        -> PayActionMatches(path[2])
      [] path[1] = "badges"     -> BadgeActionMatches(path[2])
      [] path[1] = "parcel"     -> ParcelActionMatches(Tail(path))

(* Every other command must be the template: its direction or target too,   *)
(* as a gender or a type; these are not left open.                         *)
Exact(path) == path \in One({"look", "map", "move", "enter", "inspect", "read", "take",
                             "talk", "mailbox", "history", "news", "who", "balance",
                             "inventory", "help", "quit"})
Closed(path) == path \in {<<"settings", "gender">>, <<"settings", "mbti">>}

CommandMatchesTemplate(c, t) ==
    /\ c.path = t.path
    /\ IF Exact(c.path) THEN c = t
         ELSE \A f \in Compared(c.path) :
                 c.args[f] = t.args[f] \/ (t.args[f] = Open /\ ~Closed(c.path))

CommandIsAvailable(c, templates) == \E t \in templates : CommandMatchesTemplate(c, t)

(* command_line: a build sheet has no line. *)
HasLine(c) == c.path # <<"parcel", "build", "apply">>

(* validate_command; a resident's task ignores hunger. *)
ValidateCommand(c, templates) == HasLine(c) /\ CommandIsAvailable(c, templates)

-----------------------------------------------------------------------------
(* What every view offers, and the ways out of it. *)
NoArgs == [f \in {} |-> Open]
Bare(name)          == [path |-> <<name>>, args |-> NoArgs]
With(path, f, value) == [path |-> path, args |-> [g \in {f} |-> value]]

AvailableCommands(exits) ==
    {Bare(name) : name \in {"look", "map", "inventory", "help", "history", "who"}}
      \cup {With(<<"say">>, "text", Open), With(<<"memory">>, "rest", Open),
            [path |-> <<"settings", "show">>, args |-> NoArgs],
            With(<<"inbox", "list">>, "filter", "unread"),
            [path |-> <<"badges", "mine">>, args |-> NoArgs]}
      \cup {With(<<"move">>, "direction", d) : d \in exits}
=============================================================================
