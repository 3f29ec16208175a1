------------------------------ MODULE Console ------------------------------
(***************************************************************************)
(* From a command to the statements it runs: the commands a player can     *)
(* type (core/src/command.rs), the gate before admission, the order in     *)
(* which a view claims them (dispatch/semantic.rs), the requests they      *)
(* become (request_mapping.rs), the domain a request is routed to          *)
(* (route.rs) and the steps its handler takes (dispatch/*.rs and           *)
(* commerce/service.rs).                                                   *)
(*                                                                         *)
(* A command is the path of its enum's variants, <<"parcel", "desk",       *)
(* "create">>; what it carries (ids, slugs, texts) is left to the modules  *)
(* that run its statements.                                                *)
(***************************************************************************)
EXTENDS Sequences

One(names)         == {<<name>> : name \in names}
Under(head, paths) == {<<head>> \o path : path \in paths}

-----------------------------------------------------------------------------
(* The commands. *)
PayAction      == {"direct", "requests", "accept"}
InboxAction    == {"list", "read", "claim", "ack", "archive"}
SettingsAction == {"show", "mailToken", "name", "gender", "mbti", "intro"}
BuildAction    == {"help", "apply", "set", "publish"}
BadgeAction    == {"mine", "user"}

ParcelMailingListAction == {"create", "list", "subscribers", "send", "close"}
ParcelDeskAction  == {"create", "list"}
ParcelJobAction   == {"publish", "list", "read"}
ParcelRouteAction == {"add", "list", "remove"}
ParcelStaffAction == {"add", "list", "remove"}
ParcelShiftAction == {"start", "end"}
ParcelWorkAction  == {"list", "claim", "done"}
ParcelBadgeAction == {"list", "create", "award", "revoke"}

ParcelAction ==
    One({"list", "info", "claim", "transfer", "token", "inbox", "requestPayment",
         "subscribe", "unsubscribe", "chat", "subscriptions"})
      \cup Under("build", One(BuildAction))
      \cup Under("mailingList", One(ParcelMailingListAction))
      \cup Under("desk", One(ParcelDeskAction)) \cup Under("job", One(ParcelJobAction))
      \cup Under("route", One(ParcelRouteAction)) \cup Under("staff", One(ParcelStaffAction))
      \cup Under("shift", One(ParcelShiftAction)) \cup Under("work", One(ParcelWorkAction))
      \cup Under("badge", One(ParcelBadgeAction))

SemanticCommand ==
    One({"look", "map", "move", "enter", "inspect", "read", "take", "talk", "agree",
         "say", "mail", "broadcast", "mailbox", "memory", "history", "news", "who",
         "balance", "extension", "inventory", "help", "quit"})
      \cup Under("settings", One(SettingsAction)) \cup Under("inbox", One(InboxAction))
      \cup Under("pay", One(PayAction)) \cup Under("parcel", ParcelAction)
      \cup Under("badges", One(BadgeAction))

-----------------------------------------------------------------------------
(* Before admission: what the gate says of a command.  onBoard: its target *)
(* is the admission board.                                                 *)
PendingAdmission(command, agreed, onBoard) ==
    CASE agreed                                               -> "notPending"
      [] command \in One({"look", "help", "quit"})            -> "allow"
      [] Head(command) = "settings"                           -> "passThrough"
      [] command = <<"read">> /\ onBoard                      -> "allow"
      [] OTHER                                                -> "block"

(* Who claims a command in a view: the first that matches. *)
ViewCommand(command, inServiceRoom) ==
    CASE command = <<"mailbox">>                              -> "inbox"
      [] command = <<"memory">>                               -> "memory"
      [] command = <<"enter">>                                -> "enter"
      [] command \in One({"inventory", "history", "who", "news", "balance"}) -> "world"
      [] Head(command) = "inbox"                              -> "business"
      [] OTHER -> IF inServiceRoom THEN "serviceRoom" ELSE "business"

-----------------------------------------------------------------------------
(* The request of a business command; <<>> when there is none, and the     *)
(* runtime takes it.                                                       *)
PaymentRequest(action) == <<"pay", action>>
InboxRequest(action)   == <<"inbox", action>>
BuildRequest(action)   == <<"build", action>>
BadgeRequest(action)   == <<"badges", action>>

SettingsRequest(action) ==
    <<"settings", IF action \in {"show", "mailToken"} THEN action ELSE "roleCard">>

OfMailingList == {"subscribe", "unsubscribe", "chat", "subscriptions"}

ParcelRequest(path) ==
    CASE path[1] = "build"         -> BuildRequest(path[2])
      [] path[1] \in OfMailingList -> <<"mailingList", path[1]>>
      [] Len(path) = 2             -> path
      [] OTHER                     -> <<"parcel", path[1]>>

BusinessRequest(command) ==
    CASE command[1] = "settings" -> SettingsRequest(command[2])
      [] command[1] = "pay"      -> PaymentRequest(command[2])
      [] command[1] = "inbox"    -> InboxRequest(command[2])
      [] command[1] = "parcel"   -> ParcelRequest(Tail(command))
      [] command[1] = "badges"   -> BadgeRequest(command[2])
      [] OTHER                   -> <<>>

(* The domain of a request, by the requests its route function takes. *)
InboxRequests    == Under("inbox", One(InboxAction))
PaymentRequests  == Under("pay", One(PayAction))
RegistryRequests == Under("parcel", One({"list", "info", "claim", "transfer", "token"}))
BuildRequests    == Under("build", One(BuildAction))
MailingListRequests ==
    Under("parcel", One({"inbox", "requestPayment"}))
      \cup Under("mailingList", One(ParcelMailingListAction \cup OfMailingList))
WorkRequests ==
    Under("desk", One(ParcelDeskAction)) \cup Under("job", One(ParcelJobAction))
      \cup Under("staff", One(ParcelStaffAction)) \cup Under("shift", One(ParcelShiftAction))
      \cup Under("work", One(ParcelWorkAction)) \cup Under("route", One(ParcelRouteAction))
BadgeRequests ==
    Under("badge", One(ParcelBadgeAction)) \cup Under("badges", One(BadgeAction))
OperationRequests == MailingListRequests \cup WorkRequests \cup BadgeRequests

Routed(request) ==
    CASE request \in InboxRequests     -> "inbox"
      [] request \in PaymentRequests   -> "payment"
      [] request[1] = "settings"       -> "settings"
      [] request \in RegistryRequests  -> "registry"
      [] request \in BuildRequests     -> "build"
      [] request \in OperationRequests -> "operation"

RouteInbox(request) ==
    IF request[2] \in {"claim", "ack", "archive"} THEN <<"mutate", request[2]>>
                                                  ELSE Tail(request)

-----------------------------------------------------------------------------
(* The steps of a handler.  A label is the guard "inside", a call of       *)
(* storage ("store" stands for one that another module runs), or an event  *)
(* of the connection ("invalidate", "item", "live").  "onList" is a guard  *)
(* that looks for a list, and the call that looks for it again.            *)
(* Reads alone leave nothing to do.                                        *)
Reads == {"list", "info", "help", "requests", "read", "show", "subscribers",
          "subscriptions", "mine", "user"}

HandleRegistry(op) ==
    CASE op = "claim"    -> <<"claim", "roomToken", "invalidate">>
      [] op = "transfer" -> <<"transfer", "roomToken", "invalidate">>
      [] op = "token"    -> <<"roomToken">>
      [] op \in Reads    -> <<>>

HandleBuild(op) ==
    CASE op = "apply"   -> <<"title", "description", "commands", "invalidate">>
      [] op = "set"     -> <<"field", "invalidate">>
      [] op = "publish" -> <<"publish", "invalidate">>
      [] op \in Reads   -> <<>>

HandlePayment(op) == IF op = "requests" THEN <<>> ELSE <<"store", "live">>

HandleInbox(routed) == IF routed[1] = "mutate" THEN <<"store", "item">> ELSE <<>>

HandleSettings(op) == IF op = "show" THEN <<>> ELSE <<"store">>

(* The service calls of a parcel operation.  The command whose payment is  *)
(* requested must be of a parcel the player stands in.                     *)
ParcelScript(op) == IF op = "requestPayment" THEN <<"inside", "store">> ELSE <<>>

MailingListScript(op) ==
    CASE op = "create"                        -> <<"inside", "list">>
      [] op = "close"                         -> <<"inside", "store">>
      [] op \in {"subscribe", "unsubscribe",
                 "send", "chat"}              -> <<"onList">>
      [] op \in {"list", "subscribers"}       -> <<"inside">>
      [] op = "subscriptions"                 -> <<>>

DeskScript(op)  == IF op = "create" THEN <<"inside", "desk">> ELSE <<"inside">>
JobScript(op)   == IF op = "publish" THEN <<"inside", "guide">> ELSE <<"inside">>
StaffScript(op) == IF op = "list" THEN <<"inside">> ELSE <<"inside", "store">>
ShiftFromAfar(op) == <<"store">>    \* a mutant: no ensure_inside_parcel
ShiftScript(op) == <<"inside", "store">>
WorkScript(op)  == IF op = "list" THEN <<"inside">> ELSE <<"inside", "store">>
RouteScript(op) == IF op = "list" THEN <<"inside">> ELSE <<"inside", "store">>
BadgeScript(op) == CASE op = "create"              -> <<"inside", "badge">>
                     [] op \in {"award", "revoke"} -> <<"inside", op>>
                     [] op = "list"                -> <<"inside">>

(* What the connection is told after them, besides the answer's text. *)
PaymentEvents(op)     == IF op = "requestPayment" THEN <<"live">> ELSE <<>>
MailingListEvents(op) == CASE op \in {"create", "close"} -> <<"invalidate">>
                           [] op \in {"send", "chat"}    -> <<"live">>
                           [] OTHER                      -> <<>>
DeskEvents(op)        == IF op = "create" THEN <<"invalidate">> ELSE <<>>
RouteEvents(op)       == IF op = "list" THEN <<>> ELSE <<"invalidate">>
TextOnly              == {"job", "staff", "shift", "work"}
TextOnlyBadges        == {"badge", "badges"}

Events(request) ==
    LET op == request[2]
    IN  CASE request[1] = "parcel"      -> PaymentEvents(op)
          [] request[1] = "mailingList" -> MailingListEvents(op)
          [] request[1] = "desk"        -> DeskEvents(op)
          [] request[1] = "route"       -> RouteEvents(op)
          [] request[1] \in TextOnly \cup TextOnlyBadges -> <<>>

HandleOperation(request) ==
    LET op == request[2]
        calls == CASE request[1] = "parcel"      -> ParcelScript(op)
                   [] request[1] = "mailingList" -> MailingListScript(op)
                   [] request[1] = "desk"        -> DeskScript(op)
                   [] request[1] = "job"         -> JobScript(op)
                   [] request[1] = "staff"       -> StaffScript(op)
                   [] request[1] = "shift"       -> ShiftScript(op)
                   [] request[1] = "work"        -> WorkScript(op)
                   [] request[1] = "route"       -> RouteScript(op)
                   [] request[1] = "badge"       -> BadgeScript(op)
                   [] request[1] = "badges"      -> <<>>
    IN  calls \o Events(request)

Handle(request) ==
    LET domain == Routed(request)
    IN  CASE domain = "inbox"     -> HandleInbox(RouteInbox(request))
          [] domain = "payment"   -> HandlePayment(request[2])
          [] domain = "settings"  -> HandleSettings(request[2])
          [] domain = "registry"  -> HandleRegistry(request[2])
          [] domain = "build"     -> HandleBuild(request[2])
          [] domain = "operation" -> HandleOperation(request)

(* What a command typed in a view runs. *)
Script(command, inServiceRoom) ==
    IF ViewCommand(command, inServiceRoom) # "business" \/ BusinessRequest(command) = <<>>
      THEN <<>>
      ELSE Handle(BusinessRequest(command))
=============================================================================
