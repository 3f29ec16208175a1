----------------------------- MODULE LandProofs -----------------------------
(* The tokens of rooms, the awards and the limits of boards, the rights of *)
(* the lines and what the caches of rooms show, for any parcels, players,  *)
(* boards, connections and lookups of RoomCache.                           *)
EXTENDS RoomCache, SequenceTheorems, FiniteSetTheorems, TLAPS

(* Short sequences, which the paths of commands are made of. *)
LEMMA Pair == \A a, b : <<a>> \o <<b>> = <<a, b>>
<1> TAKE a, b
<1> DEFINE S == {a, b}
<1>1. <<a>> \in Seq(S) /\ <<b>> \in Seq(S) /\ <<a, b>> \in Seq(S)
  OBVIOUS
<1>2. Len(<<a>>) = 1 /\ Len(<<b>>) = 1 /\ Len(<<a, b>>) = 2
  OBVIOUS
<1>3. (<<a>> \o <<b>>) \in Seq(S) /\ Len(<<a>> \o <<b>>) = 2
       /\ \A i \in 1..2 : (<<a>> \o <<b>>)[i] = IF i <= 1 THEN <<a>>[i] ELSE <<b>>[i - 1]
  BY <1>1, <1>2, ConcatProperties
<1>4. \A i \in 1..2 : (<<a>> \o <<b>>)[i] = <<a, b>>[i]
  BY <1>3
<1> QED
  BY <1>1, <1>2, <1>3, <1>4, SeqEqual

(* A path of three. *)
LEMMA Triple == \A a, b, c : <<a>> \o <<b, c>> = <<a, b, c>>
<1> TAKE a, b, c
<1> DEFINE S == {a, b, c}
<1>1. <<a>> \in Seq(S) /\ <<b, c>> \in Seq(S) /\ <<a, b, c>> \in Seq(S)
  OBVIOUS
<1>2. Len(<<a>>) = 1 /\ Len(<<b, c>>) = 2 /\ Len(<<a, b, c>>) = 3
  OBVIOUS
<1>3. (<<a>> \o <<b, c>>) \in Seq(S) /\ Len(<<a>> \o <<b, c>>) = 3
       /\ \A i \in 1..3 : (<<a>> \o <<b, c>>)[i] = IF i <= 1 THEN <<a>>[i] ELSE <<b, c>>[i - 1]
  BY <1>1, <1>2, ConcatProperties
<1>4. \A i \in 1..3 : (<<a>> \o <<b, c>>)[i] = <<a, b, c>>[i]
  BY <1>3
<1> QED
  BY <1>1, <1>2, <1>3, <1>4, SeqEqual

(* A path without its head. *)
LEMMA Tail2 == \A a, b : Tail(<<a, b>>) = <<b>>
OBVIOUS

(* A path of three without its head. *)
LEMMA Tail3 == \A a, b, c : Tail(<<a, b, c>>) = <<b, c>>
OBVIOUS

(* The paths of one name under a head. *)
LEMMA Ones == \A h, S : Under(h, One(S)) = {<<h, n>> : n \in S}
<1> TAKE h, S
<1>1. One(S) = {<<n>> : n \in S}
  BY DEF One
<1>2. Under(h, One(S)) = {<<h>> \o p : p \in {<<n>> : n \in S}}
  BY <1>1 DEF Under
<1>3. {<<h>> \o p : p \in {<<n>> : n \in S}} = {<<h>> \o <<n>> : n \in S}
  OBVIOUS
<1> QED
  BY <1>2, <1>3, Pair

(* The families of parcel commands with their actions, and the rest. *)
ParcelPlain  == {"list", "info", "claim", "transfer", "token", "inbox", "requestPayment",
                 "subscribe", "unsubscribe", "chat", "subscriptions"}
ParcelPair(f, op) ==
  \/ f = "build" /\ op \in BuildAction
  \/ f = "mailingList" /\ op \in ParcelMailingListAction
  \/ f = "desk" /\ op \in ParcelDeskAction
  \/ f = "job" /\ op \in ParcelJobAction
  \/ f = "route" /\ op \in ParcelRouteAction
  \/ f = "staff" /\ op \in ParcelStaffAction
  \/ f = "shift" /\ op \in ParcelShiftAction
  \/ f = "work" /\ op \in ParcelWorkAction
  \/ f = "badge" /\ op \in ParcelBadgeAction
PlainPair(f, op) ==
  \/ f = "settings" /\ op \in SettingsAction
  \/ f = "inbox" /\ op \in InboxAction
  \/ f = "pay" /\ op \in PayAction
  \/ f = "badges" /\ op \in BadgeAction

(* A parcel command is a name, or a family and its action. *)
LEMMA ParcelPaths ==
  ASSUME NEW path \in ParcelAction
  PROVE  \/ \E n \in ParcelPlain : path = <<n>>
         \/ \E f, op : ParcelPair(f, op) /\ path = <<f, op>>
<1>1. CASE path \in One(ParcelPlain)
  BY <1>1 DEF One
<1>2. ASSUME NEW f, NEW S, path \in Under(f, One(S)), \A op \in S : ParcelPair(f, op)
      PROVE  \E g, op : ParcelPair(g, op) /\ path = <<g, op>>
  BY <1>2, Ones
<1>3. /\ \A op \in BuildAction : ParcelPair("build", op)
      /\ \A op \in ParcelMailingListAction : ParcelPair("mailingList", op)
      /\ \A op \in ParcelDeskAction : ParcelPair("desk", op)
      /\ \A op \in ParcelJobAction : ParcelPair("job", op)
      /\ \A op \in ParcelRouteAction : ParcelPair("route", op)
      /\ \A op \in ParcelStaffAction : ParcelPair("staff", op)
      /\ \A op \in ParcelShiftAction : ParcelPair("shift", op)
      /\ \A op \in ParcelWorkAction : ParcelPair("work", op)
      /\ \A op \in ParcelBadgeAction : ParcelPair("badge", op)
  BY DEF ParcelPair
<1> QED
  BY <1>1, <1>2, <1>3 DEF ParcelAction, ParcelPlain

(* Every command is a path of one, two or three names. *)
LEMMA CommandShapes ==
  ASSUME NEW c \in SemanticCommand
  PROVE  \/ \E n : c = <<n>> /\ n \notin {"settings", "pay", "inbox", "parcel", "badges"}
         \/ \E f, op : PlainPair(f, op) /\ c = <<f, op>>
         \/ \E n \in ParcelPlain : c = <<"parcel", n>>
         \/ \E f, op : ParcelPair(f, op) /\ c = <<"parcel", f, op>>
<1> DEFINE Simple == {"look", "map", "move", "enter", "inspect", "read", "take", "talk",
         "agree", "say", "mail", "broadcast", "mailbox", "memory", "history", "news", "who",
         "balance", "extension", "inventory", "help", "quit"}
<1>1. CASE c \in One(Simple)
  BY <1>1 DEF One
<1>2. ASSUME NEW f, NEW S, c \in Under(f, One(S)), \A op \in S : PlainPair(f, op)
      PROVE  \E g, op : PlainPair(g, op) /\ c = <<g, op>>
  BY <1>2, Ones
<1>3. /\ \A op \in SettingsAction : PlainPair("settings", op)
      /\ \A op \in InboxAction : PlainPair("inbox", op)
      /\ \A op \in PayAction : PlainPair("pay", op)
      /\ \A op \in BadgeAction : PlainPair("badges", op)
  BY DEF PlainPair
<1>4. CASE c \in Under("parcel", ParcelAction)
  <2>1. PICK path \in ParcelAction : c = <<"parcel">> \o path
    BY <1>4 DEF Under
  <2>2. ASSUME NEW n \in ParcelPlain, path = <<n>> PROVE c = <<"parcel", n>>
    BY <2>1, <2>2, Pair
  <2>3. ASSUME NEW f, NEW op, ParcelPair(f, op), path = <<f, op>>
        PROVE  c = <<"parcel", f, op>>
    BY <2>1, <2>3, Triple
  <2> QED
    BY <2>2, <2>3, ParcelPaths
<1> QED
  BY <1>1, <1>2, <1>3, <1>4 DEF SemanticCommand
---------------------------------------------------------------------------
(* Requests, as pairs. *)
Req(f, op) ==
  \/ PlainPair(f, op) /\ f # "settings"
  \/ f = "settings"
  \/ ParcelPair(f, op)
  \/ f = "parcel" /\ op \in {"list", "info", "claim", "transfer", "token", "inbox", "requestPayment"}
  \/ f = "mailingList" /\ op \in OfMailingList

(* What the commands of parcels ask for. *)
LEMMA PlainRequests ==
  ASSUME NEW n \in ParcelPlain
  PROVE  BusinessRequest(<<"parcel", n>>)
           = IF n \in OfMailingList THEN <<"mailingList", n>> ELSE <<"parcel", n>>
<1>1. BusinessRequest(<<"parcel", n>>) = ParcelRequest(<<n>>)
  BY Tail2 DEF BusinessRequest
<1> QED
  BY <1>1 DEF ParcelRequest, ParcelPlain, OfMailingList

LEMMA PairRequests ==
  ASSUME NEW f, NEW op, ParcelPair(f, op)
  PROVE  BusinessRequest(<<"parcel", f, op>>) = <<f, op>> /\ f # "parcel"
<1>1. BusinessRequest(<<"parcel", f, op>>) = ParcelRequest(<<f, op>>)
  BY Tail3 DEF BusinessRequest
<1>2. f # "parcel" /\ f \notin OfMailingList
  BY DEF ParcelPair, OfMailingList
<1>3. ParcelRequest(<<f, op>>) = <<f, op>>
  BY <1>2 DEF ParcelRequest, BuildRequest
<1> QED
  BY <1>1, <1>2, <1>3

(* Every request is a pair, and only the command of a transfer asks for    *)
(* one.                                                                    *)
LEMMA Requests ==
  ASSUME NEW c \in SemanticCommand, BusinessRequest(c) # <<>>
  PROVE  \E f, op : /\ Req(f, op) /\ BusinessRequest(c) = <<f, op>>
                    /\ <<f, op>> = <<"parcel", "transfer">> => c = <<"parcel", "transfer">>
<1>1. ASSUME NEW n, c = <<n>>, n \notin {"settings", "pay", "inbox", "parcel", "badges"}
      PROVE  BusinessRequest(c) = <<>>
  BY <1>1 DEF BusinessRequest
<1>2. ASSUME NEW f, NEW op, PlainPair(f, op), c = <<f, op>>
      PROVE  \E x : Req(f, x) /\ BusinessRequest(c) = <<f, x>> /\ f # "parcel"
  <2>1. CASE f = "settings"
    BY <1>2, <2>1 DEF BusinessRequest, SettingsRequest, Req
  <2>2. CASE f # "settings"
    BY <1>2, <2>2 DEF BusinessRequest, PaymentRequest, InboxRequest, BadgeRequest, Req, PlainPair
  <2> QED
    BY <2>1, <2>2
<1>3. ASSUME NEW n \in ParcelPlain, c = <<"parcel", n>>
      PROVE  \E f : /\ Req(f, n) /\ BusinessRequest(c) = <<f, n>>
  BY <1>3, PlainRequests DEF Req, ParcelPlain, OfMailingList
<1>4. ASSUME NEW f, NEW op, ParcelPair(f, op), c = <<"parcel", f, op>>
      PROVE  Req(f, op) /\ BusinessRequest(c) = <<f, op>> /\ f # "parcel"
  BY <1>4, PairRequests DEF Req
<1> QED
  BY <1>1, <1>2, <1>3, <1>4, CommandShapes
---------------------------------------------------------------------------
(* Where a request is routed. *)
LEMMA RequestSets ==
  /\ InboxRequests = {<<"inbox", n>> : n \in InboxAction}
  /\ PaymentRequests = {<<"pay", n>> : n \in PayAction}
  /\ RegistryRequests = {<<"parcel", n>> : n \in {"list", "info", "claim", "transfer", "token"}}
  /\ BuildRequests = {<<"build", n>> : n \in BuildAction}
  /\ MailingListRequests =
       {<<"parcel", n>> : n \in {"inbox", "requestPayment"}}
         \cup {<<"mailingList", n>> : n \in ParcelMailingListAction \cup OfMailingList}
  /\ WorkRequests =
       {<<"desk", n>> : n \in ParcelDeskAction} \cup {<<"job", n>> : n \in ParcelJobAction}
         \cup {<<"staff", n>> : n \in ParcelStaffAction}
         \cup {<<"shift", n>> : n \in ParcelShiftAction}
         \cup {<<"work", n>> : n \in ParcelWorkAction}
         \cup {<<"route", n>> : n \in ParcelRouteAction}
  /\ BadgeRequests = {<<"badge", n>> : n \in ParcelBadgeAction}
                       \cup {<<"badges", n>> : n \in BadgeAction}
BY Ones DEF InboxRequests, PaymentRequests, RegistryRequests, BuildRequests,
   MailingListRequests, WorkRequests, BadgeRequests

(* Steps that leave the rows of the parcels alone, those that change the   *)
(* sheet of a parcel, and those that come before or after no transfer.     *)
Quiet == {"store", "live", "item", "inside", "onList", "roomToken", "invalidate",
          "list", "desk", "guide", "badge", "award", "revoke"}
Sheets == {"title", "description", "commands", "field", "publish"}
Kept   == Quiet \cup Sheets \cup {"claim"}

(* Steps that begin by asking whether the player is in the parcel. *)
Guards == {"inside"}
Guarded(q) == q \in Seq(Quiet) /\ (q # <<>> => Head(q) \in Guards)

(* What is said after guarded steps leaves them guarded. *)
LEMMA GuardedFirst ==
  ASSUME NEW a, NEW b, Guarded(a), b \in Seq(Quiet), a = <<>> => b = <<>>
  PROVE  Guarded(a \o b)
<1>1. a \in Seq(Quiet) /\ a \o b \in Seq(Quiet)
  BY DEF Guarded
<1>2. CASE a = <<>>
  BY <1>1, <1>2 DEF Guarded
<1>3. CASE a # <<>>
  <2>1. a \o b # <<>> /\ Head(a \o b) = Head(a)
    BY <1>1, <1>3
  <2> QED
    BY <1>1, <1>3, <2>1 DEF Guarded
<1> QED
  BY <1>2, <1>3

(* The operations of a parcel are guarded, but for those that look for a   *)
(* list; and none comes to a transfer.                                     *)
LooksForList(f, op) == f = "mailingList" /\ op \in {"subscribe", "unsubscribe", "chat", "send"}

LEMMA OperationScripts ==
  ASSUME NEW f, NEW op, <<f, op>> \in OperationRequests
  PROVE  /\ HandleOperation(<<f, op>>) \in Seq(Quiet)
         /\ LooksForList(f, op) \/ Guarded(HandleOperation(<<f, op>>))
<1> DEFINE r == <<f, op>>
<1>0. r[1] = f /\ r[2] = op
  OBVIOUS
<1>e. /\ <<>> \in Seq(Quiet) /\ <<"live">> \in Seq(Quiet) /\ <<"invalidate">> \in Seq(Quiet)
      /\ Guarded(<<>>) /\ Guarded(<<"inside">>) /\ Guarded(<<"inside", "store">>)
      /\ <<"onList">> \in Seq(Quiet) /\ Guarded(<<"inside", "desk">>)
      /\ Guarded(<<"inside", "list">>)
      /\ Guarded(<<"inside", "guide">>) /\ Guarded(<<"inside", "badge">>)
      /\ Guarded(<<"inside", "award">>) /\ Guarded(<<"inside", "revoke">>)
  BY DEF Quiet, Guarded, Guards
<1>c. ASSUME NEW a, NEW b, Guarded(a), b \in Seq(Quiet), a = <<>> => b = <<>>,
             HandleOperation(r) = a \o b
      PROVE  Guarded(HandleOperation(r))
  BY <1>c, GuardedFirst
<1> HIDE DEF r
<1>1. ASSUME f = "parcel", op \in {"inbox", "requestPayment"}
      PROVE  Guarded(HandleOperation(r))
  <2>1. HandleOperation(r) = ParcelScript(op) \o PaymentEvents(op)
    BY <1>0, <1>1 DEF HandleOperation, Events, TextOnly, TextOnlyBadges
  <2>2. /\ Guarded(ParcelScript(op)) /\ PaymentEvents(op) \in Seq(Quiet)
        /\ ParcelScript(op) = <<>> => PaymentEvents(op) = <<>>
    BY <1>e DEF ParcelScript, PaymentEvents
  <2> QED
    BY <1>c, <2>1, <2>2
<1>2. ASSUME f = "mailingList", op \in ParcelMailingListAction \cup OfMailingList
      PROVE  /\ HandleOperation(r) \in Seq(Quiet)
             /\ LooksForList(f, op) \/ Guarded(HandleOperation(r))
  <2>1. HandleOperation(r) = MailingListScript(op) \o MailingListEvents(op)
    BY <1>0, <1>2 DEF HandleOperation, Events, TextOnly, TextOnlyBadges
  <2>3. /\ MailingListEvents(op) \in Seq(Quiet)
        /\ op = "subscriptions" => MailingListEvents(op) = <<>>
    BY <1>e DEF MailingListEvents
  <2>4. CASE LooksForList(f, op)
    <3>1. MailingListScript(op) = <<"onList">>
      BY <2>4 DEF LooksForList, MailingListScript
    <3> QED
      BY <1>e, <2>1, <2>3, <2>4, <3>1
  <2>5. CASE ~LooksForList(f, op)
    <3>1. op \notin {"subscribe", "unsubscribe", "chat", "send"}
      BY <1>2, <2>5 DEF LooksForList
    <3>2. /\ Guarded(MailingListScript(op))
          /\ MailingListScript(op) = <<>> => op = "subscriptions"
      BY <1>2, <1>e, <3>1 DEF MailingListScript, ParcelMailingListAction, OfMailingList
    <3>3. Guarded(HandleOperation(r))
      BY <1>c, <2>1, <2>3, <3>2
    <3> QED
      BY <3>3 DEF Guarded
  <2> QED
    BY <2>4, <2>5
<1>3. ASSUME f = "desk" PROVE Guarded(HandleOperation(r))
  <2>1. HandleOperation(r) = DeskScript(op) \o DeskEvents(op)
    BY <1>0, <1>3 DEF HandleOperation, Events, TextOnly, TextOnlyBadges
  <2>2. Guarded(DeskScript(op)) /\ DeskScript(op) # <<>> /\ DeskEvents(op) \in Seq(Quiet)
    BY <1>e DEF DeskScript, DeskEvents
  <2> QED
    BY <1>c, <2>1, <2>2
<1>4. ASSUME f = "route" PROVE Guarded(HandleOperation(r))
  <2>1. HandleOperation(r) = RouteScript(op) \o RouteEvents(op)
    BY <1>0, <1>4 DEF HandleOperation, Events, TextOnly, TextOnlyBadges
  <2>2. Guarded(RouteScript(op)) /\ RouteScript(op) # <<>> /\ RouteEvents(op) \in Seq(Quiet)
    BY <1>e DEF RouteScript, RouteEvents
  <2> QED
    BY <1>c, <2>1, <2>2
<1>5. ASSUME f \in {"job", "staff", "shift", "work"} PROVE Guarded(HandleOperation(r))
  <2>1. Events(r) = <<>>
    BY <1>0, <1>5 DEF Events, TextOnly, TextOnlyBadges
  <2>2. HandleOperation(r) = (CASE f = "job" -> JobScript(op) [] f = "staff" -> StaffScript(op)
                               [] f = "shift" -> ShiftScript(op)
                               [] f = "work" -> WorkScript(op)) \o <<>>
    BY <1>0, <1>5, <2>1 DEF HandleOperation
  <2>3. Guarded(CASE f = "job" -> JobScript(op) [] f = "staff" -> StaffScript(op)
                  [] f = "shift" -> ShiftScript(op) [] f = "work" -> WorkScript(op))
    BY <1>5, <1>e DEF JobScript, StaffScript, ShiftScript, WorkScript
  <2> QED
    BY <1>c, <1>e, <2>2, <2>3
<1>6. ASSUME \/ f = "badge" /\ op \in ParcelBadgeAction
             \/ f = "badges"
      PROVE Guarded(HandleOperation(r))
  <2>1. Events(r) = <<>>
    BY <1>0, <1>6 DEF Events, TextOnly, TextOnlyBadges
  <2>2. HandleOperation(r) = (IF f = "badge" THEN BadgeScript(op) ELSE <<>>) \o <<>>
    BY <1>0, <1>6, <2>1 DEF HandleOperation
  <2>3. Guarded(IF f = "badge" THEN BadgeScript(op) ELSE <<>>)
    BY <1>6, <1>e DEF BadgeScript, ParcelBadgeAction
  <2> QED
    BY <1>c, <1>e, <2>2, <2>3
<1>7. ASSUME Guarded(HandleOperation(r)) PROVE HandleOperation(r) \in Seq(Quiet)
  BY <1>7 DEF Guarded
<1> QED
  BY <1>1, <1>2, <1>3, <1>4, <1>5, <1>6, <1>7, RequestSets DEF OperationRequests, r

(* What an operation's request is handled by. *)
LEMMA OperationsHandled ==
  ASSUME NEW f, NEW op,
         \/ f = "parcel" /\ op \in {"inbox", "requestPayment"}
         \/ f = "mailingList" /\ op \in ParcelMailingListAction \cup OfMailingList
         \/ ParcelPair(f, op) /\ f # "build"
         \/ f = "badges" /\ op \in BadgeAction
  PROVE  /\ Handle(<<f, op>>) \in Seq(Quiet)
         /\ LooksForList(f, op) \/ Guarded(Handle(<<f, op>>))
<1> DEFINE r == <<f, op>>
<1>1. r \in OperationRequests
  BY RequestSets DEF OperationRequests, ParcelPair
<1>2. /\ r \notin InboxRequests /\ r \notin PaymentRequests /\ f # "settings"
      /\ r \notin RegistryRequests /\ r \notin BuildRequests
  BY RequestSets DEF ParcelPair
<1>3. Routed(r) = "operation"
  BY <1>1, <1>2 DEF Routed
<1>4. Handle(r) = HandleOperation(r)
  BY <1>3 DEF Handle
<1> QED
  BY <1>1, <1>4, OperationScripts

(* The handlers that change a parcel's row say so at their end. *)
Claim    == <<"claim", "roomToken", "invalidate">>
Transfer == <<"transfer", "roomToken", "invalidate">>
Builds   == {<<"title", "description", "commands", "invalidate">>,
             <<"field", "invalidate">>, <<"publish", "invalidate">>}

LEMMA HandleRuns ==
  ASSUME NEW f, NEW op, Req(f, op)
  PROVE  \/ Handle(<<f, op>>) \in Seq(Quiet)
         \/ f = "build" /\ Handle(<<f, op>>) \in Builds
         \/ <<f, op>> = <<"parcel", "claim">> /\ Handle(<<f, op>>) = Claim
         \/ <<f, op>> = <<"parcel", "transfer">> /\ Handle(<<f, op>>) = Transfer
<1> DEFINE r == <<f, op>>
<1>0. r[1] = f /\ r[2] = op
  OBVIOUS
<1>e. /\ <<>> \in Seq(Quiet) /\ <<"store">> \in Seq(Quiet) /\ <<"store", "item">> \in Seq(Quiet)
      /\ <<"store", "live">> \in Seq(Quiet) /\ <<"roomToken">> \in Seq(Quiet)
  BY DEF Quiet
<1>1. CASE f = "inbox" /\ op \in InboxAction
  <2>1. Routed(r) = "inbox"
    BY <1>0, <1>1, RequestSets DEF Routed, OperationRequests
  <2>2. Handle(r) = HandleInbox(RouteInbox(r))
    BY <2>1 DEF Handle
  <2> QED
    BY <1>e, <2>2 DEF HandleInbox
<1>2. CASE f = "pay" /\ op \in PayAction
  <2>1. Routed(r) = "payment"
    BY <1>0, <1>2, RequestSets DEF Routed, OperationRequests
  <2>2. Handle(r) = HandlePayment(op)
    BY <1>0, <2>1 DEF Handle
  <2> QED
    BY <1>e, <2>2 DEF HandlePayment
<1>3. CASE f = "settings"
  <2>1. Routed(r) = "settings"
    BY <1>0, <1>3, RequestSets DEF Routed, OperationRequests
  <2>2. Handle(r) = HandleSettings(op)
    BY <1>0, <2>1 DEF Handle
  <2> QED
    BY <1>e, <2>2 DEF HandleSettings
<1>4. CASE f = "parcel" /\ op \in {"list", "info", "claim", "transfer", "token"}
  <2>1. Routed(r) = "registry"
    BY <1>0, <1>4, RequestSets DEF Routed, OperationRequests
  <2>2. Handle(r) = HandleRegistry(op)
    BY <1>0, <2>1 DEF Handle
  <2>3. CASE op \in {"claim", "transfer"}
    BY <1>4, <2>2, <2>3 DEF HandleRegistry, Reads, Claim, Transfer
  <2>4. CASE op \notin {"claim", "transfer"}
    BY <1>4, <1>e, <2>2, <2>4 DEF HandleRegistry, Reads
  <2> QED
    BY <2>3, <2>4
<1>5. CASE f = "build" /\ op \in BuildAction
  <2>1. Routed(r) = "build"
    BY <1>0, <1>5, RequestSets DEF Routed, OperationRequests
  <2>2. Handle(r) = HandleBuild(op)
    BY <1>0, <2>1 DEF Handle
  <2> QED
    BY <1>5, <1>e, <2>2 DEF HandleBuild, Reads, BuildAction, Builds
<1>6. CASE \/ f = "parcel" /\ op \in {"inbox", "requestPayment"}
           \/ f = "mailingList" /\ op \in ParcelMailingListAction \cup OfMailingList
           \/ ParcelPair(f, op) /\ f # "build"
           \/ f = "badges" /\ op \in BadgeAction
  BY <1>6, OperationsHandled
<1> QED
  BY <1>1, <1>2, <1>3, <1>4, <1>5, <1>6 DEF Req, PlainPair, ParcelPair

(* No handler comes to a transfer but that of transfers, which begins with *)
(* it.                                                                     *)
LEMMA HandleShape ==
  ASSUME NEW f, NEW op, Req(f, op)
  PROVE  \/ Handle(<<f, op>>) \in Seq(Kept)
         \/ <<f, op>> = <<"parcel", "transfer">> /\ Handle(<<f, op>>) = Transfer
<1>1. Seq(Quiet) \subseteq Seq(Kept) /\ Claim \in Seq(Kept) /\ Builds \subseteq Seq(Kept)
  BY DEF Kept, Quiet, Sheets, Claim, Builds
<1> QED
  BY <1>1, HandleRuns

(* The script of a command begins a transfer when it is one, and never     *)
(* comes to it later.                                                      *)
LEMMA ScriptShape ==
  ASSUME NEW c \in SemanticCommand
  PROVE  \/ Script(c, FALSE) \in Seq(Kept)
         \/ c = <<"parcel", "transfer">> /\ Script(c, FALSE) = Transfer
<1>1. CASE BusinessRequest(c) = <<>> \/ ViewCommand(c, FALSE) # "business"
  <2>1. Script(c, FALSE) = <<>>
    BY <1>1, Zenon DEF Script
  <2>2. <<>> \in Seq(Kept)
    OBVIOUS
  <2> QED
    BY <2>1, <2>2
<1>2. CASE BusinessRequest(c) # <<>> /\ ViewCommand(c, FALSE) = "business"
  <2>1. PICK f, op : /\ Req(f, op) /\ BusinessRequest(c) = <<f, op>>
                     /\ <<f, op>> = <<"parcel", "transfer">> => c = <<"parcel", "transfer">>
    BY <1>2, Requests
  <2>2. Script(c, FALSE) = Handle(<<f, op>>)
    BY <1>2, <2>1 DEF Script
  <2> QED
    BY <2>1, <2>2, HandleShape
<1> QED
  BY <1>1, <1>2

Row == [parcel : Parcels \cup {Absent}, slug : Boards \cup {Absent},
        to : Landlords \cup {Absent}, active : BOOLEAN]

SeenOK(x)  == x # <<>> /\ x[1] = "row" => x[2] \in DOMAIN awards
LineOK(l)  == /\ l.parcel \in Parcels \cup {Absent} /\ l.slug \in Boards \cup {Absent}
              /\ l.target \in Landlords \cup {Absent}

AwardInv ==
  /\ awards \in Seq(Row) /\ WornOnce(awards)
  /\ DOMAIN line = Shells /\ DOMAIN seen = Shells
  /\ \A s \in Shells : LineOK(line[s]) /\ SeenOK(seen[s])

AwardStep == /\ \A i \in DOMAIN awards : /\ i \in DOMAIN awards'
                                         /\ awards'[i] \in {awards[i], RevokedRow(awards[i])}
             /\ WornOnce(awards')

(* There are no awards at first. *)
LEMMA AwardInvInit == LandInit => AwardInv
BY DEF LandInit, AwardInv, LineOK, SeenOK, NoLine, WornOnce

(* Steps of the other parts of the town leave the awards alone. *)
LEMMA AwardUnchanged == AwardInv /\ UNCHANGED landVars => AwardInv' /\ UNCHANGED awards
BY DEF AwardInv, LineOK, SeenOK, landVars, tables, shells, WornOnce

(* A connection's line ends, or goes on. *)
LEMMA BusyLines ==
  ASSUME AwardInv, NEW s \in Shells, NEW steps, Busy(s, steps)
  PROVE  /\ DOMAIN line' = Shells /\ DOMAIN seen' = Shells
         /\ \A t \in Shells : LineOK(line'[t])
         /\ \A t \in Shells : seen'[t] \in {seen[t], <<>>}
<1>1. LineOK(NoLine)
  BY DEF LineOK, NoLine
<1>2. \A t \in Shells : line'[t] \in {line[t], NoLine}
  BY DEF Busy, AwardInv
<1> HIDE DEF NoLine
<1> QED
  BY <1>1, <1>2 DEF Busy, AwardInv

(* A line that goes on or ends keeps the awards. *)
LEMMA BusyKeeps ==
  ASSUME AwardInv, NEW s \in Shells, NEW steps, Busy(s, steps), UNCHANGED awards
  PROVE  AwardInv'
<1>1. \A t \in Shells : SeenOK(seen[t])' 
  BY BusyLines DEF AwardInv, SeenOK
<1> QED
  BY <1>1, BusyLines DEF AwardInv, LineOK, WornOnce

(* The same, of the two ways it does. *)
LEMMA StepEndKeeps ==
  ASSUME AwardInv, NEW s \in Shells, Step(s) \/ EndLine(s), UNCHANGED awards
  PROVE  AwardInv'
BY BusyKeeps DEF Step, EndLine

(* A row that is read is one of the awards. *)
LEMMA ReadKeeps ==
  ASSUME AwardInv, NEW s \in Shells, NEW what, Read(s, what), SeenOK(what), UNCHANGED awards
  PROVE  AwardInv'
BY DEF AwardInv, Read, SeenOK, LineOK, WornOnce

(* A typed line has awarded nothing yet. *)
LEMMA TypeKeeps ==
  ASSUME AwardInv, NEW s \in Shells, NEW l \in Line, Type(s, l)
  PROVE  AwardInv' /\ UNCHANGED awards
<1> DEFINE new == [f \in DOMAIN NoLine |-> IF f = "view" THEN place[l.by] ELSE l[f]]
<1>1. UNCHANGED <<awards, seen>> /\ line' = [line EXCEPT ![s] = new]
  BY DEF Type, tables
<1>2. {"parcel", "slug", "target"} \subseteq DOMAIN NoLine
  BY DEF NoLine
<1>3. new.parcel = l.parcel /\ new.slug = l.slug /\ new.target = l.target
  BY <1>2
<1> HIDE DEF new
<1>4. LineOK(new)
  BY <1>3 DEF LineOK, Line
<1> QED
  BY <1>1, <1>4 DEF AwardInv, SeenOK, LineOK, WornOnce

(* The badge of an award, its row, and what follows from them. *)
LEMMA AwardKeeps ==
  ASSUME AwardInv, NEW s \in Shells, AwardBadge(s)
  PROVE  AwardInv' /\ (awards' = awards \/ AwardStep)
<1>1. CASE OwnedBadge(s, "award")
  BY <1>1, StepEndKeeps, ReadKeeps DEF OwnedBadge, ReadIf, Untouched, tables, SeenOK
<1>2. CASE AtStatement(s, "award", <<"badge">>) /\ ReadIf(s, ActiveAwards(s) = {}, <<"none">>) /\ Untouched
  BY <1>2, StepEndKeeps, ReadKeeps DEF ReadIf, Untouched, tables, SeenOK
<1>3. CASE awards' = InsertAward(s) /\ Step(s)
  <2>1. CASE ActiveAwards(s) # {}
    BY <1>3, <2>1, StepEndKeeps DEF InsertAward
  <2>2. CASE ActiveAwards(s) = {}
    <3> DEFINE row == [parcel |-> line[s].parcel, slug |-> line[s].slug,
                       to |-> line[s].target, active |-> TRUE]
    <3>1. awards' = Append(awards, row)
      BY <1>3, <2>2 DEF InsertAward
    <3>2. row \in Row /\ awards \in Seq(Row)
      BY DEF AwardInv, LineOK, Row
    <3>3. row.parcel = line[s].parcel /\ row.slug = line[s].slug /\ row.to = line[s].target
           /\ row.active
      OBVIOUS
    <3>4. \A i \in DOMAIN awards : awards[i] # row
      BY <2>2, <3>3 DEF ActiveAwards
    <3> HIDE DEF row
    <3>5. /\ awards' \in Seq(Row) /\ DOMAIN awards = 1..Len(awards)
          /\ DOMAIN awards' = 1..(Len(awards) + 1) /\ Len(awards) \in Nat
          /\ \A i \in DOMAIN awards : awards'[i] = awards[i]
          /\ awards'[Len(awards) + 1] = row
      BY <3>1, <3>2
    <3>6. WornOnce(awards')
      BY <3>4, <3>5 DEF AwardInv, WornOnce
    <3>7. \A t \in Shells : SeenOK(seen[t])'
      BY <1>3, <3>5, BusyLines DEF AwardInv, SeenOK, Step
    <3>8. AwardStep
      BY <3>5, <3>6 DEF AwardStep
    <3> QED
      BY <1>3, <3>5, <3>6, <3>7, <3>8, BusyLines DEF AwardInv, Step, LineOK
  <2> QED
    BY <2>1, <2>2
<1> QED
  BY <1>1, <1>2, <1>3 DEF AwardBadge

(* A revocation updates the row it read, which only it or another          *)
(* revocation can have changed.                                            *)
LEMMA RevokeKeeps ==
  ASSUME AwardInv, NEW s \in Shells, RevokeBadge(s)
  PROVE  AwardInv' /\ (awards' = awards \/ AwardStep)
<1>1. CASE OwnedBadge(s, "revoke")
  BY <1>1, StepEndKeeps, ReadKeeps DEF OwnedBadge, ReadIf, Untouched, tables, SeenOK
<1>2. CASE /\ IF ActiveAwards(s) = {} THEN EndLine(s)
                ELSE \E i \in ActiveAwards(s) : Read(s, <<"row", i>>)
           /\ Untouched
  <2>1. CASE EndLine(s)
    BY <1>2, <2>1, StepEndKeeps DEF Untouched, tables
  <2>2. ASSUME NEW i \in ActiveAwards(s), Read(s, <<"row", i>>)
        PROVE  AwardInv' /\ awards' = awards
    <3>1. SeenOK(<<"row", i>>)
      BY DEF SeenOK, ActiveAwards
    <3> QED
      BY <1>2, <2>2, <3>1, ReadKeeps DEF Untouched, tables
  <2> QED
    BY <1>2, <2>1, <2>2 DEF Untouched, tables
<1>3. CASE /\ seen[s] # <<>> /\ seen[s][1] = "row"
           /\ awards' = [awards EXCEPT ![seen[s][2]] = RevokedRow(@)]
           /\ Step(s)
  <2> DEFINE k == seen[s][2]
  <2>1. k \in DOMAIN awards
    BY <1>3 DEF AwardInv, SeenOK
  <2>2. awards \in Seq(Row) /\ WornOnce(awards)
    BY DEF AwardInv
  <2> HIDE DEF k
  <2>3. awards' = [awards EXCEPT ![k] = RevokedRow(awards[k])]
    BY <1>3 DEF k
  <2>4. awards[k] \in Row
    BY <2>1, <2>2
  <2>5. RevokedRow(awards[k]) \in Row /\ ~RevokedRow(awards[k]).active
    BY <2>4 DEF RevokedRow, Row
  <2>6. /\ awards' \in Seq(Row) /\ DOMAIN awards' = DOMAIN awards
        /\ \A i \in DOMAIN awards :
             awards'[i] = IF i = k THEN RevokedRow(awards[k]) ELSE awards[i]
    BY <2>1, <2>2, <2>3, <2>5
  <2>7. WornOnce(awards')
    BY <2>2, <2>5, <2>6 DEF WornOnce
  <2>8. AwardStep
    BY <2>6, <2>7 DEF AwardStep
  <2>9. \A t \in Shells : SeenOK(seen[t])'
    BY <1>3, <2>6, BusyLines DEF AwardInv, SeenOK, Step
  <2> QED
    BY <1>3, <2>6, <2>7, <2>8, <2>9, BusyLines DEF AwardInv, Step, LineOK
<1> QED
  BY <1>1, <1>2, <1>3 DEF RevokeBadge

(* The other statements of a line leave the awards alone. *)
LEMMA OtherEffectsKeep ==
  ASSUME AwardInv, NEW s \in Shells,
         \/ EnsureInside(s) \/ Elsewhere(s) \/ HangUp(s) \/ Invalidate(s)
         \/ EnsureInsideList(s) \/ OnList(s)
         \/ ClaimParcel(s) \/ TransferParcel(s) \/ SetRoomMailAuthToken(s)
         \/ BuildNowhere(s) \/ UpdateBuildField(s) \/ PublishBuild(s)
         \/ \E kind \in BoardKinds : CreateBoard(s, kind)
  PROVE  AwardInv' /\ awards' = awards
<1>1. CASE EnsureInside(s) \/ Elsewhere(s) \/ HangUp(s) \/ Invalidate(s) \/ BuildNowhere(s)
  BY <1>1, StepEndKeeps DEF EnsureInside, Elsewhere, HangUp, Invalidate, BuildNowhere, tables
<1>2. ASSUME NEW p, NEW guard, NEW row, Update(s, p, guard, row)
      PROVE  AwardInv' /\ awards' = awards
  BY <1>2, StepEndKeeps DEF Update
<1>3. CASE ClaimParcel(s) \/ TransferParcel(s)
  BY <1>2, <1>3 DEF ClaimParcel, TransferParcel
<1>4. CASE SetRoomMailAuthToken(s)
  BY <1>4, StepEndKeeps DEF SetRoomMailAuthToken
<1>5. CASE UpdateBuildField(s) \/ PublishBuild(s)
  BY <1>2, <1>5, StepEndKeeps DEF UpdateBuildField, PublishBuild, UpdateBuild, tables
<1>6. ASSUME NEW kind \in BoardKinds, CreateBoard(s, kind)
      PROVE  AwardInv' /\ awards' = awards
  <2>1. ASSUME NEW what, NEW found, SeenOK(what), ReadIf(s, found, what), Untouched
        PROVE  AwardInv' /\ awards' = awards
    BY <2>1, StepEndKeeps, ReadKeeps DEF ReadIf, Untouched, tables
  <2>2. SeenOK(<<"owned">>) /\ SeenOK(<<"room">>) /\ SeenOK(<<"new">>)
    BY DEF SeenOK
  <2>3. CASE ReadIf(s, OwnedBuilt(s), <<"owned">>) /\ Untouched
    BY <2>1, <2>2, <2>3
  <2>4. CASE ReadIf(s, kind \notin AlwaysNew, <<"room">>) /\ Untouched
    BY <2>1, <2>2, <2>4
  <2>5. CASE Read(s, <<"new">>) /\ Untouched
    BY <2>2, <2>5, ReadKeeps DEF Untouched, tables
  <2>6. CASE ReadIf(s, HasRoom(s, kind), <<"room">>) /\ Untouched
    BY <2>1, <2>2, <2>6
  <2>7. CASE (Step(s) \/ EndLine(s)) /\ UNCHANGED awards
    BY <2>7, StepEndKeeps
  <2> QED
    BY <1>6, <2>3, <2>4, <2>5, <2>6, <2>7 DEF CreateBoard
<1>7. CASE EnsureInsideList(s) \/ OnList(s)
  <2>1. UNCHANGED awards
    BY <1>7 DEF EnsureInsideList, OnList, Untouched, tables
  <2>2. Step(s) \/ EndLine(s) \/ \E what : Read(s, what) /\ SeenOK(what)
    <3>1. \A e : SeenOK(<<"inside", e>>)
      BY DEF SeenOK
    <3>2. \A e, p : SeenOK(<<"list", e, p>>)
      BY DEF SeenOK
    <3> QED
      BY <1>7, <3>1, <3>2 DEF EnsureInsideList, OnList, ReadIf
  <2> QED
    BY <2>1, <2>2, StepEndKeeps, ReadKeeps
<1> QED
  BY <1>1, <1>3, <1>4, <1>5, <1>6, <1>7
---------------------------------------------------------------------------
(* The tokens of rooms. *)


StepsOK(steps, l) ==
  /\ steps \in Seq(Kept) \/ (steps = Transfer /\ l.command = <<"parcel", "transfer">>)
  /\ steps # <<>> => /\ l.by \in Landlords /\ l.target \in Landlords
                     /\ l.parcel \in Parcels /\ l.view \in Views

LinesInv ==
  /\ place \in [Landlords -> Views]
  /\ DOMAIN todo = Shells /\ DOMAIN line = Shells
  /\ \A s \in Shells : StepsOK(todo[s], line[s])

(* Steps with no transfer to begin, of a line that is whole or is none. *)
LEMMA KeptSteps ==
  ASSUME NEW steps, NEW l, steps \in Seq(Kept),
         steps # <<>> => /\ l.by \in Landlords /\ l.target \in Landlords
                         /\ l.parcel \in Parcels /\ l.view \in Views
  PROVE  StepsOK(steps, l)
BY Zenon DEF StepsOK

LandRows ==
  /\ DOMAIN land = Parcels /\ DOMAIN roomToken = Parcels
  /\ \A p \in Parcels : DOMAIN land[p] = {"owner", "status", "title", "text", "edits"}

(* A connection between the two calls of a transfer to the owner. *)
Bringing(s, p) == /\ AtStep(s, "roomToken") /\ Transferring(s)
                  /\ line[s].parcel = p /\ line[s].target = land[p].owner
TokenOf(p) == roomToken[p] \in {Absent, land[p].owner} \/ \E s \in Shells : Bringing(s, p)

TokenInv == LinesInv /\ LandRows /\ \A p \in Parcels \ cutOff : TokenOf(p)

(* The invariant says more than the property: who brings the token, and to *)
(* whom.                                                                   *)
LEMMA TokenInvImplies == TokenInv => TokensAreOfTheOwner
BY DEF TokenInv, TokensAreOfTheOwner, TokenOf, Bringing, InTransfer

(* At first the token of a room is its owner's. *)
LEMMA TokenInvInit == LandInit => TokenInv
<1> SUFFICES ASSUME LandInit PROVE TokenInv
  OBVIOUS
<1>1. LinesInv
  <2>1. <<>> \in Seq(Kept)
    OBVIOUS
  <2>2. /\ DOMAIN todo = Shells /\ DOMAIN line = Shells
        /\ \A s \in Shells : todo[s] = <<>>
    BY DEF LandInit
  <2>3. place \in [Landlords -> Views]
    BY DEF LandInit
  <2>4. \A s \in Shells : StepsOK(todo[s], line[s])
    BY <2>1, <2>2, KeptSteps
  <2> QED
    BY <2>2, <2>3, <2>4 DEF LinesInv
<1>2. LandRows
  BY DEF LandInit, LandRows, Vacant, Estate
<1>3. \A p \in Parcels : roomToken[p] = land[p].owner
  BY DEF LandInit
<1> QED
  BY <1>1, <1>2, <1>3 DEF TokenInv, TokenOf

(* Steps of the other parts of the town leave the tokens alone. *)
LEMMA TokenUnchanged == TokenInv /\ UNCHANGED landVars => TokenInv'
<1> SUFFICES ASSUME TokenInv, UNCHANGED landVars PROVE TokenInv'
  OBVIOUS
<1>1. UNCHANGED <<land, roomToken, place, line, todo, cutOff>>
  BY DEF landVars, tables, shells
<1> QED
  BY <1>1 DEF TokenInv, LinesInv, LandRows, TokenOf, Bringing, AtStep, Transferring

(* A connection that is at a step, and goes on or ends. *)
LEMMA TailsKept ==
  ASSUME LinesInv, NEW s \in Shells, todo[s] # <<>>
  PROVE  Tail(todo[s]) \in Seq(Kept)
<1>1. CASE todo[s] \in Seq(Kept)
  BY <1>1
<1>2. CASE todo[s] = Transfer
  <2>1. Tail(Transfer) = <<"roomToken", "invalidate">>
    BY Tail3 DEF Transfer
  <2>2. <<"roomToken", "invalidate">> \in Seq(Kept)
    BY DEF Kept, Quiet
  <2> QED
    BY <1>2, <2>1, <2>2
<1> QED
  BY <1>1, <1>2 DEF LinesInv, StepsOK

(* The lines of the other connections stay what they are. *)
LEMMA BusyLinesKeep ==
  ASSUME LinesInv, NEW s \in Shells, todo[s] # <<>>, Step(s) \/ EndLine(s),
         UNCHANGED place
  PROVE  /\ LinesInv'
         /\ \A t \in Shells \ {s} : todo'[t] = todo[t] /\ line'[t] = line[t]
         /\ todo'[s] \in {<<>>, Tail(todo[s])}
         /\ todo'[s] # <<>> => line'[s] = line[s]
<1>1. PICK steps \in {<<>>, Tail(todo[s])} : Busy(s, steps)
  BY DEF Step, EndLine
<1>2. steps \in Seq(Kept)
  <2>1. <<>> \in Seq(Kept)
    OBVIOUS
  <2> QED
    BY <2>1, TailsKept
<1>3. /\ DOMAIN todo' = Shells /\ DOMAIN line' = Shells
      /\ \A t \in Shells \ {s} : todo'[t] = todo[t] /\ line'[t] = line[t]
      /\ todo'[s] = steps
      /\ steps # <<>> => line'[s] = line[s]
  BY <1>1 DEF Busy, LinesInv
<1>4. StepsOK(todo'[s], line'[s])
  <2>1. todo[s] # <<>> => /\ line[s].by \in Landlords /\ line[s].target \in Landlords
                         /\ line[s].parcel \in Parcels /\ line[s].view \in Views
    BY DEF LinesInv, StepsOK
  <2> QED
    BY <1>2, <1>3, <2>1, KeptSteps
<1>6. ASSUME NEW t \in Shells \ {s}
      PROVE  StepsOK(todo'[t], line'[t])
  BY <1>3 DEF LinesInv
<1>7. LinesInv'
  BY <1>3, <1>4, <1>6 DEF LinesInv
<1> QED
  BY <1>1, <1>3, <1>7

(* Nothing of a parcel's owner or token changes, and the connection that   *)
(* moves does not leave a transfer between its calls, unless it is noted.  *)
LEMMA QuietTokensKeep ==
  ASSUME TokenInv, LinesInv', LandRows', NEW s \in Shells,
         UNCHANGED roomToken, \A p \in Parcels : land'[p].owner = land[p].owner,
         cutOff \subseteq cutOff',
         \A t \in Shells \ {s} : todo'[t] = todo[t] /\ line'[t] = line[t],
         AtStep(s, "roomToken") /\ Transferring(s) => line[s].parcel \in cutOff'
  PROVE  TokenInv'
<1>1. ASSUME NEW p \in Parcels, p \notin cutOff'
      PROVE  TokenOf(p)'
  <2>1. TokenOf(p)
    BY <1>1 DEF TokenInv
  <2>2. ASSUME NEW t \in Shells, Bringing(t, p) PROVE Bringing(t, p)'
    <3>1. t # s
      BY <1>1, <2>2 DEF Bringing
    <3> QED
      BY <2>2, <3>1 DEF Bringing, AtStep, Transferring
  <2> QED
    BY <2>1, <2>2 DEF TokenOf
<1> QED
  BY <1>1 DEF TokenInv

(* A step that writes neither owner nor token. *)
LEMMA OtherStepKeeps ==
  ASSUME TokenInv, NEW s \in Shells, todo[s] # <<>>, Step(s) \/ EndLine(s),
         UNCHANGED <<land, roomToken, place>>, cutOff \subseteq cutOff',
         AtStep(s, "roomToken") /\ Transferring(s) => line[s].parcel \in cutOff'
  PROVE  TokenInv'
<1>1. LinesInv' /\ \A t \in Shells \ {s} : todo'[t] = todo[t] /\ line'[t] = line[t]
  BY BusyLinesKeep DEF TokenInv
<1>2. LandRows'
  BY DEF TokenInv, LandRows
<1> QED
  BY <1>1, <1>2, QuietTokensKeep

(* A statement that only reads. *)
LEMMA StandStillKeeps ==
  ASSUME TokenInv, UNCHANGED <<land, roomToken, place, todo, line>>, cutOff \subseteq cutOff'
  PROVE  TokenInv'
BY DEF TokenInv, LinesInv, LandRows, TokenOf, Bringing, AtStep, Transferring

(* A line begins: a transfer's is at its first call. *)
LEMMA TypeTokens ==
  ASSUME TokenInv, NEW s \in Shells, NEW l \in Line, Type(s, l)
  PROVE  TokenInv'
<1> DEFINE new == [f \in DOMAIN NoLine |-> IF f = "view" THEN place[l.by] ELSE l[f]]
<1>1. /\ todo[s] = <<>>
      /\ todo' = [todo EXCEPT ![s] = Script(l.command, FALSE)]
      /\ line' = [line EXCEPT ![s] = new]
      /\ UNCHANGED <<land, roomToken, place, cutOff>>
  BY DEF Type, tables
<1>2. {"command", "by", "target", "parcel", "view"} \subseteq DOMAIN NoLine
  BY DEF NoLine
<1>3. /\ new.command = l.command /\ new.by = l.by /\ new.target = l.target
      /\ new.parcel = l.parcel /\ new.view = place[l.by]
  BY <1>2
<1> HIDE DEF new
<1>4. /\ l.command \in SemanticCommand /\ l.by \in Landlords /\ l.target \in Landlords
      /\ l.parcel \in Parcels /\ place[l.by] \in Views
  BY DEF Line, TokenInv, LinesInv
<1>5. /\ DOMAIN todo' = Shells /\ DOMAIN line' = Shells
      /\ todo'[s] = Script(l.command, FALSE) /\ line'[s] = new
      /\ \A t \in Shells \ {s} : todo'[t] = todo[t] /\ line'[t] = line[t]
  BY <1>1 DEF TokenInv, LinesInv
<1>6. StepsOK(todo'[s], line'[s])
  <2>1. line'[s].command = l.command
    BY <1>3, <1>5
  <2>2. \/ Script(l.command, FALSE) \in Seq(Kept)
        \/ l.command = <<"parcel", "transfer">> /\ Script(l.command, FALSE) = Transfer
    BY <1>4, ScriptShape DEF Transfer
  <2>3. /\ line'[s].by \in Landlords /\ line'[s].target \in Landlords
        /\ line'[s].parcel \in Parcels /\ line'[s].view \in Views
    BY <1>3, <1>4, <1>5
  <2>4. CASE Script(l.command, FALSE) \in Seq(Kept)
    BY <1>5, <2>3, <2>4, KeptSteps
  <2>5. CASE l.command = <<"parcel", "transfer">> /\ Script(l.command, FALSE) = Transfer
    BY <1>5, <2>1, <2>3, <2>5, Zenon DEF StepsOK
  <2> QED
    BY <2>2, <2>4, <2>5
<1>7. LinesInv'
  <2>1. ASSUME NEW t \in Shells \ {s} PROVE StepsOK(todo'[t], line'[t])
    BY <1>5 DEF TokenInv, LinesInv
  <2>3. (place \in [Landlords -> Views])'
    BY <1>1 DEF TokenInv, LinesInv
  <2> QED
    BY <1>5, <1>6, <2>1, <2>3 DEF LinesInv
<1>8. LandRows'
  BY <1>1 DEF TokenInv, LandRows
<1> QED
  BY <1>1, <1>5, <1>7, <1>8, QuietTokensKeep DEF AtStep

(* An update of a parcel's row: its owner stays, or it was at a call that  *)
(* changes it.                                                             *)
LEMMA UpdateTokens ==
  ASSUME TokenInv, NEW s \in Shells, NEW p \in Parcels, NEW guard, NEW row,
         Update(s, p, guard, row), todo[s] # <<>>, ~AtStep(s, "roomToken"),
         DOMAIN row = {"owner", "status", "title", "text", "edits"},
         row.owner = land[p].owner
  PROVE  TokenInv'
<1>1. /\ Step(s) \/ EndLine(s)
      /\ UNCHANGED <<roomToken, place, cutOff>>
      /\ land' \in {land, [land EXCEPT ![p] = row]}
  BY DEF Update
<1>2. LinesInv' /\ \A t \in Shells \ {s} : todo'[t] = todo[t] /\ line'[t] = line[t]
  BY <1>1, BusyLinesKeep DEF TokenInv
<1>3. LandRows' /\ \A q \in Parcels : land'[q].owner = land[q].owner
  BY <1>1 DEF TokenInv, LandRows
<1> QED
  BY <1>1, <1>2, <1>3, QuietTokensKeep

(* What a transfer writes, and what the sheet does. *)
LEMMA OwnerRow ==
  ASSUME TokenInv, NEW p \in Parcels, NEW x
  PROVE  /\ [land[p] EXCEPT !.owner = x].owner = x
         /\ DOMAIN [land[p] EXCEPT !.owner = x] = {"owner", "status", "title", "text", "edits"}
BY DEF TokenInv, LandRows

(* The build sheet changes no owner. *)
LEMMA BuildTokens ==
  ASSUME TokenInv, NEW s \in Shells, UpdateBuildField(s) \/ PublishBuild(s)
  PROVE  TokenInv'
<1> DEFINE p == line[s].view
           plot == land[p]
<1>1. todo[s] # <<>> /\ ~AtStep(s, "roomToken") /\ p # Street
  BY DEF UpdateBuildField, PublishBuild, AtStep, InPlot
<1>2. p \in Parcels
  BY <1>1 DEF TokenInv, LinesInv, StepsOK, Views
<1>3. ASSUME NEW guard, NEW row, UpdateBuild(s, guard, row),
             DOMAIN row = {"owner", "status", "title", "text", "edits"}, row.owner = plot.owner
      PROVE  TokenInv'
  BY <1>1, <1>2, <1>3, UpdateTokens DEF UpdateBuild
<1>4. CASE UpdateBuild(s, TRUE, [plot EXCEPT !.title = line[s].named, !.edits = @ + 1])
  <2> DEFINE row == [plot EXCEPT !.title = line[s].named, !.edits = @ + 1]
  <2>1. DOMAIN row = {"owner", "status", "title", "text", "edits"} /\ row.owner = plot.owner
    BY <1>2 DEF TokenInv, LandRows
  <2> QED
    BY <1>3, <1>4, <2>1
<1>5. CASE UpdateBuild(s, TRUE, [plot EXCEPT !.text = TRUE])
  <2> DEFINE row == [plot EXCEPT !.text = TRUE]
  <2>1. DOMAIN row = {"owner", "status", "title", "text", "edits"} /\ row.owner = plot.owner
    BY <1>2 DEF TokenInv, LandRows
  <2> QED
    BY <1>3, <1>5, <2>1
<1>6. CASE UpdateBuild(s, TRUE, plot)
  <2>1. DOMAIN plot = {"owner", "status", "title", "text", "edits"}
    BY <1>2 DEF TokenInv, LandRows
  <2> QED
    BY <1>3, <1>6, <2>1
<1>7. CASE Step(s) /\ UNCHANGED <<tables, place, agreed, cutOff>>
  BY <1>1, <1>7, OtherStepKeeps DEF tables
<1>8. CASE PublishBuild(s)
  <2>1. UpdateBuild(s, plot.title # Absent /\ plot.text, [plot EXCEPT !.status = "built"])
    BY <1>8 DEF PublishBuild
  <2> DEFINE row == [plot EXCEPT !.status = "built"]
  <2>2. DOMAIN row = {"owner", "status", "title", "text", "edits"} /\ row.owner = plot.owner
    BY <1>2 DEF TokenInv, LandRows
  <2> QED
    BY <1>3, <2>1, <2>2
<1> QED
  BY <1>4, <1>5, <1>6, <1>7, <1>8 DEF UpdateBuildField

(* A claimed parcel had no owner, so its room no token. *)
LEMMA ClaimTokens ==
  ASSUME TokenInv, NEW s \in Shells, ClaimParcel(s)
  PROVE  TokenInv'
<1> DEFINE p == line[s].parcel
           row == [land[p] EXCEPT !.owner = line[s].by, !.status = "claimed"]
<1>1. /\ todo[s] # <<>> /\ ~AtStep(s, "roomToken")
      /\ Update(s, p, land[p].owner = Absent, row)
  BY DEF ClaimParcel, AtStep
<1>2. p \in Parcels /\ line[s].by \in Landlords
  BY <1>1 DEF TokenInv, LinesInv, StepsOK
<1>3. /\ Step(s) \/ EndLine(s)
      /\ UNCHANGED <<roomToken, place, cutOff>>
  BY <1>1 DEF Update
<1>4. CASE land[p].owner # Absent
  BY <1>1, <1>3, <1>4, OtherStepKeeps DEF Update
<1>5. CASE land[p].owner = Absent
  <2>1. land' = [land EXCEPT ![p] = row]
    BY <1>1, <1>5 DEF Update
  <2>2. DOMAIN row = {"owner", "status", "title", "text", "edits"} /\ row.owner = line[s].by
    BY <1>2 DEF TokenInv, LandRows
  <2> HIDE DEF row
  <2>3. LandRows' /\ \A q \in Parcels \ {p} : land'[q] = land[q]
    BY <1>2, <1>3, <2>1, <2>2 DEF TokenInv, LandRows
  <2>4. LinesInv' /\ \A t \in Shells \ {s} : todo'[t] = todo[t] /\ line'[t] = line[t]
    BY <1>1, <1>3, BusyLinesKeep DEF TokenInv
  <2>5. ASSUME NEW q \in Parcels, q \notin cutOff
        PROVE  TokenOf(q)'
    <3>1. TokenOf(q)
      BY <2>5 DEF TokenInv
    <3>2. CASE q = p
      <4>1. \A t \in Shells : ~Bringing(t, p)
        BY <1>5, LandAssumption DEF Bringing, AtStep, TokenInv, LinesInv, StepsOK
      <4>2. roomToken[p] = Absent
        BY <1>5, <3>1, <3>2, <4>1 DEF TokenOf
      <4> QED
        BY <1>3, <3>2, <4>2 DEF TokenOf
    <3>3. CASE q # p
      <4>1. ASSUME NEW t \in Shells, Bringing(t, q) PROVE Bringing(t, q)'
        BY <1>1, <2>3, <2>4, <3>3, <4>1 DEF Bringing, AtStep, Transferring
      <4> QED
        BY <1>3, <2>3, <3>1, <3>3, <4>1 DEF TokenOf
    <3> QED
      BY <3>2, <3>3
  <2> QED
    BY <1>3, <2>3, <2>4, <2>5 DEF TokenInv
<1> QED
  BY <1>4, <1>5

(* A transfer brings its token next. *)
LEMMA TransferTokens ==
  ASSUME TokenInv, NEW s \in Shells, TransferParcel(s)
  PROVE  TokenInv'
<1> DEFINE p == line[s].parcel
           row == [land[p] EXCEPT !.owner = line[s].target]
<1>1. /\ AtStep(s, "transfer") /\ todo[s] # <<>> /\ ~AtStep(s, "roomToken")
      /\ Update(s, p, land[p].owner = line[s].by, row)
  BY DEF TransferParcel, AtStep
<1>2. p \in Parcels
  BY <1>1 DEF TokenInv, LinesInv, StepsOK
<1>3. /\ Step(s) \/ EndLine(s)
      /\ UNCHANGED <<roomToken, place, cutOff>>
  BY <1>1 DEF Update
<1>4. CASE land[p].owner # line[s].by
  BY <1>1, <1>3, <1>4, OtherStepKeeps DEF Update
<1>5. CASE land[p].owner = line[s].by
  <2>1. land' = [land EXCEPT ![p] = row] /\ Step(s)
    BY <1>1, <1>5 DEF Update
  <2>2. DOMAIN row = {"owner", "status", "title", "text", "edits"} /\ row.owner = line[s].target
    BY <1>2, OwnerRow
  <2> HIDE DEF row
  <2>3. /\ LandRows' /\ \A q \in Parcels \ {p} : land'[q] = land[q]
        /\ land'[p].owner = line[s].target
    BY <1>2, <1>3, <2>1, <2>2 DEF TokenInv, LandRows
  <2>4. LinesInv' /\ \A t \in Shells \ {s} : todo'[t] = todo[t] /\ line'[t] = line[t]
    BY <1>1, <1>3, BusyLinesKeep DEF TokenInv
  <2>5. todo[s] = Transfer /\ Transferring(s)
    <3>1. Head(todo[s]) = "transfer"
      BY <1>1 DEF AtStep
    <3>2. todo[s] \notin Seq(Kept)
      BY <1>1, <3>1 DEF Kept, Quiet, Sheets
    <3> QED
      BY <3>2 DEF TokenInv, LinesInv, StepsOK, Transferring
  <2>6. todo'[s] = <<"roomToken", "invalidate">> /\ line'[s] = line[s]
    <3>1. Tail(todo[s]) = <<"roomToken", "invalidate">>
      BY <2>5, Tail3 DEF Transfer
    <3>2. Busy(s, <<"roomToken", "invalidate">>)
      BY <2>1, <3>1 DEF Step
    <3> QED
      BY <3>2 DEF Busy, TokenInv, LinesInv
  <2>7. \A q \in Parcels : q = p => Bringing(s, q)'
    BY <2>3, <2>5, <2>6 DEF Bringing, AtStep, Transferring
  <2>8. ASSUME NEW q \in Parcels, q \notin cutOff
        PROVE  TokenOf(q)'
    <3>1. CASE q = p
      <4>1. Bringing(s, q)'
        BY <2>7, <3>1
      <4> QED
        BY <4>1 DEF TokenOf
    <3>2. CASE q # p
      <4>1. TokenOf(q)
        BY <2>8 DEF TokenInv
      <4>2. ASSUME NEW t \in Shells, Bringing(t, q) PROVE Bringing(t, q)'
        BY <1>1, <2>3, <2>4, <3>2, <4>2 DEF Bringing, AtStep, Transferring
      <4> QED
        BY <1>3, <2>3, <3>2, <4>1, <4>2 DEF TokenOf
    <3> QED
      BY <3>1, <3>2
  <2> QED
    BY <1>3, <2>3, <2>4, <2>8 DEF TokenInv
<1> QED
  BY <1>4, <1>5

(* A token is set for the owner, or it is not: then the transfer was not   *)
(* the one that brings the owner theirs.                                   *)
LEMMA SetTokenTokens ==
  ASSUME TokenInv, NEW s \in Shells, SetRoomMailAuthToken(s)
  PROVE  TokenInv'
<1> DEFINE p == line[s].parcel
<1>1. todo[s] # <<>> /\ AtStep(s, "roomToken") /\ (Step(s) \/ EndLine(s))
       /\ UNCHANGED <<land, place>>
  BY DEF SetRoomMailAuthToken, AtStep
<1>2. p \in Parcels
  BY <1>1 DEF TokenInv, LinesInv, StepsOK
<1>3. LinesInv' /\ \A t \in Shells \ {s} : todo'[t] = todo[t] /\ line'[t] = line[t]
  BY <1>1, BusyLinesKeep DEF TokenInv
<1>4. CASE MayHoldToken(p, TokenFor(s))
  <2>1. /\ roomToken' = [roomToken EXCEPT ![p] = TokenFor(s)]
        /\ cutOff' = cutOff \ {p}
    BY <1>4 DEF SetRoomMailAuthToken
  <2>2. LandRows'
    BY <1>1, <2>1 DEF TokenInv, LandRows
  <2>3. roomToken'[p] = land[p].owner /\ \A q \in Parcels \ {p} : roomToken'[q] = roomToken[q]
    BY <1>2, <1>4, <2>1 DEF TokenInv, LandRows, MayHoldToken
  <2>4. ASSUME NEW q \in Parcels, q \notin cutOff'
        PROVE  TokenOf(q)'
    <3>1. CASE q = p
      BY <1>1, <2>3, <3>1 DEF TokenOf
    <3>2. CASE q # p
      <4>1. TokenOf(q)
        BY <2>1, <2>4, <3>2 DEF TokenInv
      <4>2. ASSUME NEW t \in Shells, Bringing(t, q) PROVE Bringing(t, q)'
        <5>1. t # s
          BY <3>2, <4>2 DEF Bringing
        <5> QED
          BY <1>1, <1>3, <4>2, <5>1 DEF Bringing, AtStep, Transferring
      <4> QED
        BY <1>1, <2>3, <3>2, <4>1, <4>2 DEF TokenOf
    <3> QED
      BY <3>1, <3>2
  <2> QED
    BY <1>3, <2>2, <2>4 DEF TokenInv
<1>5. CASE ~MayHoldToken(p, TokenFor(s))
  <2>1. UNCHANGED <<roomToken, cutOff>>
    BY <1>5 DEF SetRoomMailAuthToken
  <2>2. LandRows'
    BY <1>1, <2>1 DEF TokenInv, LandRows
  <2>3. \A q \in Parcels : ~Bringing(s, q)
    BY <1>5 DEF Bringing, MayHoldToken, TokenFor
  <2>4. ASSUME NEW q \in Parcels, q \notin cutOff
        PROVE  TokenOf(q)'
    <3>1. TokenOf(q)
      BY <2>4 DEF TokenInv
    <3>2. ASSUME NEW t \in Shells, Bringing(t, q) PROVE Bringing(t, q)'
      <4>1. t # s
        BY <2>3, <3>2
      <4> QED
        BY <1>1, <1>3, <3>2, <4>1 DEF Bringing, AtStep, Transferring
    <3> QED
      BY <1>1, <2>1, <3>1, <3>2 DEF TokenOf
  <2> QED
    BY <1>3, <2>1, <2>2, <2>4 DEF TokenInv
<1> QED
  BY <1>4, <1>5

(* A statement that only reads, or the end of a step that touches neither  *)
(* owners nor tokens.                                                      *)
QuietStatement(s) ==
  /\ todo[s] # <<>> /\ ~AtStep(s, "roomToken")
  /\ Step(s) \/ EndLine(s) \/ (\E what : Read(s, what))
  /\ UNCHANGED <<land, roomToken, place, cutOff>>

(* Such a statement keeps the tokens. *)
LEMMA QuietStatementKeeps ==
  ASSUME TokenInv, NEW s \in Shells, QuietStatement(s)
  PROVE  TokenInv'
<1>0. /\ todo[s] # <<>> /\ ~AtStep(s, "roomToken")
      /\ UNCHANGED <<land, roomToken, place>> /\ cutOff \subseteq cutOff'
  BY DEF QuietStatement
<1>1. CASE Step(s) \/ EndLine(s)
  BY <1>0, <1>1, OtherStepKeeps
<1>2. ASSUME NEW what, Read(s, what) PROVE TokenInv'
  BY <1>2, StandStillKeeps DEF QuietStatement, Read
<1> QED
  BY <1>1, <1>2 DEF QuietStatement

(* A read that may end the line is one. *)
LEMMA ReadIfQuiet ==
  ASSUME NEW s \in Shells, NEW found, NEW what, ReadIf(s, found, what), Untouched,
         todo[s] # <<>>, ~AtStep(s, "roomToken")
  PROVE  QuietStatement(s)
BY DEF ReadIf, Untouched, tables, QuietStatement

(* The statements of desks, guides and badges are. *)
LEMMA BoardsAreQuiet ==
  ASSUME NEW s \in Shells, NEW kind \in BoardKinds, CreateBoard(s, kind)
  PROVE  QuietStatement(s)
<1>0. todo[s] # <<>> /\ ~AtStep(s, "roomToken")
  BY DEF CreateBoard, AtStatement, AtStep, BoardKinds
<1>1. ASSUME NEW what, NEW found, ReadIf(s, found, what), Untouched PROVE QuietStatement(s)
  BY <1>0, <1>1, ReadIfQuiet
<1>2. CASE Read(s, <<"new">>) /\ Untouched
  BY <1>0, <1>2 DEF QuietStatement, Untouched, tables
<1>3. CASE (Step(s) \/ EndLine(s)) /\ UNCHANGED <<land, roomToken, place, cutOff>>
  BY <1>0, <1>3 DEF QuietStatement
<1> QED
  BY <1>1, <1>2, <1>3 DEF CreateBoard

(* And so are those of awards. *)
LEMMA AwardsAreQuiet ==
  ASSUME NEW s \in Shells, AwardBadge(s) \/ RevokeBadge(s)
  PROVE  QuietStatement(s)
<1>0. todo[s] # <<>> /\ ~AtStep(s, "roomToken")
  BY DEF AwardBadge, RevokeBadge, OwnedBadge, AtStatement, AtStep
<1>1. ASSUME NEW what, NEW found, ReadIf(s, found, what), Untouched PROVE QuietStatement(s)
  BY <1>0, <1>1, ReadIfQuiet
<1>2. ASSUME NEW i, Read(s, <<"row", i>>), Untouched PROVE QuietStatement(s)
  BY <1>0, <1>2 DEF QuietStatement, Untouched, tables
<1>3. CASE (Step(s) \/ EndLine(s)) /\ UNCHANGED <<land, roomToken, place, cutOff>>
  BY <1>0, <1>3 DEF QuietStatement
<1>4. CASE EndLine(s) /\ Untouched
  BY <1>3, <1>4 DEF Untouched, tables
<1>5. CASE AwardBadge(s)
  BY <1>1, <1>3, <1>5 DEF AwardBadge, OwnedBadge
<1>6. CASE RevokeBadge(s)
  BY <1>1, <1>2, <1>3, <1>4, <1>6 DEF RevokeBadge, OwnedBadge
<1> QED
  BY <1>5, <1>6
---------------------------------------------------------------------------
(* Both. *)
LandInv == AwardInv /\ TokenInv

(* Both hold at first. *)
LEMMA LandInvInit == LandInit => LandInv
BY AwardInvInit, TokenInvInit DEF LandInv

(* Steps of the other parts of the town leave both alone. *)
LEMMA LandUnchanged == LandInv /\ UNCHANGED landVars => LandInv' /\ UNCHANGED awards
BY AwardUnchanged, TokenUnchanged DEF LandInv

(* Every statement of a line keeps both, and the awards stand. *)
LEMMA EffectsKeep ==
  ASSUME LandInv, NEW s \in Shells, Effects(s) \/ HangUp(s) \/ Invalidate(s)
  PROVE  LandInv' /\ (awards' = awards \/ AwardStep)
<1>1. AwardInv' /\ (awards' = awards \/ AwardStep)
  BY AwardKeeps, RevokeKeeps, OtherEffectsKeep DEF LandInv, Effects
<1>8. ASSUME EnsureInsideList(s) \/ OnList(s) PROVE TokenInv'
  <2>1. todo[s] # <<>> /\ ~AtStep(s, "roomToken") /\ Untouched
    BY <1>8 DEF EnsureInsideList, OnList, AtStatement, AtStep
  <2>2. Step(s) \/ EndLine(s) \/ \E what : Read(s, what)
    BY <1>8 DEF EnsureInsideList, OnList, ReadIf
  <2>3. QuietStatement(s)
    BY <2>1, <2>2 DEF QuietStatement, Untouched, tables
  <2> QED
    BY <2>3, QuietStatementKeeps DEF LandInv
<1>2. ASSUME EnsureInside(s) \/ Elsewhere(s) \/ BuildNowhere(s) \/ Invalidate(s)
      PROVE  TokenInv'
  <2>1. QuietStatement(s)
    BY <1>2 DEF EnsureInside, Elsewhere, BuildNowhere, Invalidate, QuietStatement, AtStep, Sheet, tables
  <2> QED
    BY <2>1, QuietStatementKeeps DEF LandInv
<1>3. ASSUME HangUp(s)
      PROVE  TokenInv'
  BY <1>3, OtherStepKeeps DEF LandInv, HangUp, tables
<1>4. ASSUME ClaimParcel(s) \/ TransferParcel(s) \/ SetRoomMailAuthToken(s)
      PROVE  TokenInv'
  BY <1>4, ClaimTokens, TransferTokens, SetTokenTokens DEF LandInv
<1>5. ASSUME UpdateBuildField(s) \/ PublishBuild(s)
      PROVE  TokenInv'
  BY <1>5, BuildTokens DEF LandInv
<1>6. ASSUME (\E kind \in BoardKinds : CreateBoard(s, kind)) \/ AwardBadge(s) \/ RevokeBadge(s)
      PROVE  TokenInv'
  BY <1>6, BoardsAreQuiet, AwardsAreQuiet, QuietStatementKeeps DEF LandInv
<1>7. TokenInv'
  BY <1>2, <1>3, <1>4, <1>5, <1>6, <1>8 DEF Effects
<1> QED
  BY <1>1, <1>7 DEF LandInv

(* A typed line keeps both. *)
LEMMA TypingKeeps ==
  ASSUME LandInv, NEW s \in Shells, NEW l \in Line, Type(s, l)
  PROVE  LandInv' /\ UNCHANGED awards
BY TypeKeeps, TypeTokens DEF LandInv

(* Players walk between lines. *)
LEMMA WalkingAboutKeeps ==
  ASSUME LandInv, NEW l \in Landlords, Agree(l) \/ (\E v \in Views : Walk(l, v))
  PROVE  LandInv' /\ UNCHANGED awards
<1>1. UNCHANGED <<tables, shells>> /\ place' \in [Landlords -> Views]
  BY DEF Agree, Walk, LandInv, TokenInv, LinesInv
<1>2. AwardInv'
  BY <1>1 DEF tables, shells, LandInv, AwardInv, LineOK, SeenOK, WornOnce
<1>3. TokenInv'
  BY <1>1 DEF tables, shells, LandInv, TokenInv, LinesInv, LandRows, TokenOf, Bringing,
              AtStep, Transferring
<1> QED
  BY <1>1, <1>2, <1>3 DEF LandInv, tables
---------------------------------------------------------------------------
(* The script of a command that only who is in the parcel may use begins   *)
(* by asking for that, unless it looks for a list.                         *)
Inside(c) == c[1] = "parcel" /\ Tail(c) \notin FromAfar \cup OnLists /\ c[2] # "build"

LEMMA InsideScripts ==
  ASSUME NEW c \in SemanticCommand, Inside(c)
  PROVE  Guarded(Script(c, FALSE))
<1>0. Guarded(<<>>)
  BY DEF Guarded
<1>1. ASSUME NEW f, NEW op, BusinessRequest(c) = <<f, op>>, Guarded(Handle(<<f, op>>))
      PROVE  Guarded(Script(c, FALSE))
  BY <1>0, <1>1 DEF Script
<1>2. ASSUME NEW n \in ParcelPlain, c = <<"parcel", n>>
      PROVE  Guarded(Script(c, FALSE))
  <2>1. n \notin {"claim", "transfer", "token"} \cup {"subscribe", "unsubscribe", "chat"}
    <3>1. Tail(c) = <<n>>
      BY <1>2, Tail2
    <3> QED
      BY <3>1 DEF Inside, FromAfar, OnLists, One
  <2>2. CASE n \in OfMailingList
    <3>1. BusinessRequest(c) = <<"mailingList", n>>
      BY <1>2, <2>2, PlainRequests
    <3>2. Guarded(Handle(<<"mailingList", n>>))
      BY <2>1, <2>2, OperationsHandled DEF LooksForList, OfMailingList
    <3> QED
      BY <1>1, <3>1, <3>2
  <2>3. CASE n \in {"inbox", "requestPayment"}
    <3>1. BusinessRequest(c) = <<"parcel", n>>
      BY <1>2, <2>3, PlainRequests DEF OfMailingList
    <3>2. Guarded(Handle(<<"parcel", n>>))
      BY <2>3, OperationsHandled DEF LooksForList
    <3> QED
      BY <1>1, <3>1, <3>2
  <2>4. CASE n \in {"list", "info"}
    <3>1. BusinessRequest(c) = <<"parcel", n>>
      BY <1>2, <2>4, PlainRequests DEF OfMailingList
    <3> DEFINE r == <<"parcel", n>>
    <3>2. Routed(r) = "registry"
      BY <2>4, RequestSets DEF Routed, OperationRequests
    <3>3. Handle(r) = HandleRegistry(n)
      BY <3>2 DEF Handle
    <3>4. HandleRegistry(n) = <<>>
      BY <2>4 DEF HandleRegistry, Reads
    <3> QED
      BY <1>0, <1>1, <3>1, <3>3, <3>4
  <2> QED
    BY <2>1, <2>2, <2>3, <2>4 DEF ParcelPlain, OfMailingList
<1>3. ASSUME NEW f, NEW op, ParcelPair(f, op), c = <<"parcel", f, op>>
      PROVE  Guarded(Script(c, FALSE))
  <2>1. BusinessRequest(c) = <<f, op>>
    BY <1>3, PairRequests
  <2>2. f # "build" /\ ~LooksForList(f, op)
    <3>1. Tail(c) = <<f, op>>
      BY <1>3, Tail3
    <3>2. <<f, op>> # <<"mailingList", "send">>
      BY <3>1 DEF Inside, OnLists
    <3> QED
      BY <1>3, <3>2 DEF Inside, LooksForList, ParcelPair, ParcelMailingListAction
  <2>3. Guarded(Handle(<<f, op>>))
    BY <1>3, <2>2, OperationsHandled
  <2> QED
    BY <1>1, <2>1, <2>3
<1>4. ASSUME NEW n, c = <<n>>, n # "parcel" PROVE FALSE
  BY <1>4 DEF Inside
<1>5. ASSUME NEW f, NEW op, PlainPair(f, op), c = <<f, op>> PROVE FALSE
  BY <1>5 DEF Inside, PlainPair
<1> QED
  BY <1>2, <1>3, <1>4, <1>5, CommandShapes

(* A line that the gate lets pass and that has something to write is of an *)
(* admitted player, or of the settings.                                    *)
LEMMA GateScripts ==
  ASSUME NEW c \in SemanticCommand, NEW admitted \in BOOLEAN,
         PendingAdmission(c, admitted, FALSE) # "block", Script(c, FALSE) # <<>>
  PROVE  admitted \/ c[1] = "settings"
<1> SUFFICES ASSUME ~admitted, c[1] # "settings" PROVE FALSE
  OBVIOUS
<1>1. c \notin One({"look", "help", "quit"})
  <2>1. ASSUME NEW n \in {"look", "help", "quit"}, c = <<n>> PROVE BusinessRequest(c) = <<>>
    BY <2>1 DEF BusinessRequest
  <2>2. BusinessRequest(c) # <<>>
    BY DEF Script
  <2> QED
    BY <2>1, <2>2 DEF One
<1>2. Head(c) # "settings"
  BY CommandShapes
<1> QED
  BY <1>1, <1>2 DEF PendingAdmission
---------------------------------------------------------------------------
(* What a statement does to the lines. *)
Moves(s) ==
  /\ todo[s] # <<>> /\ UNCHANGED <<place, agreed>>
  /\ \/ Step(s) /\ (Head(todo[s]) \in Guards => line[s].parcel = line[s].view)
     \/ EndLine(s)
     \/ \E what : Read(s, what)

LEMMA BoardsMove ==
  ASSUME NEW s \in Shells, NEW kind \in BoardKinds, CreateBoard(s, kind)
  PROVE  Moves(s)
<1>1. todo[s] # <<>> /\ Head(todo[s]) \notin Guards /\ UNCHANGED <<place, agreed>>
  BY DEF CreateBoard, AtStatement, AtStep, BoardKinds, Guards, Untouched
<1> QED
  BY <1>1 DEF CreateBoard, Moves, ReadIf

LEMMA AwardsMove ==
  ASSUME NEW s \in Shells, AwardBadge(s) \/ RevokeBadge(s)
  PROVE  Moves(s)
<1>1. todo[s] # <<>> /\ Head(todo[s]) \notin Guards /\ UNCHANGED <<place, agreed>>
  BY DEF AwardBadge, RevokeBadge, OwnedBadge, AtStatement, AtStep, Guards, Untouched
<1> QED
  BY <1>1 DEF AwardBadge, RevokeBadge, OwnedBadge, Moves, ReadIf

LEMMA PlotsMove ==
  ASSUME NEW s \in Shells,
         \/ ClaimParcel(s) \/ TransferParcel(s) \/ SetRoomMailAuthToken(s)
         \/ BuildNowhere(s) \/ UpdateBuildField(s) \/ PublishBuild(s)
  PROVE  Moves(s)
<1>1. todo[s] # <<>> /\ Head(todo[s]) \notin Guards /\ UNCHANGED <<place, agreed>>
  BY DEF ClaimParcel, TransferParcel, SetRoomMailAuthToken, BuildNowhere, UpdateBuildField,
         PublishBuild, UpdateBuild, Update, AtStep, Sheet, Guards
<1>2. Step(s) \/ EndLine(s)
  BY DEF ClaimParcel, TransferParcel, SetRoomMailAuthToken, BuildNowhere, UpdateBuildField,
         PublishBuild, UpdateBuild, Update
<1> QED
  BY <1>1, <1>2 DEF Moves

LEMMA StatementsMove ==
  ASSUME NEW s \in Shells, Effects(s) \/ HangUp(s) \/ Invalidate(s)
  PROVE  Moves(s)
<1>1. CASE EnsureInside(s)
  BY <1>1 DEF EnsureInside, AtStep, Moves
<1>2. CASE Elsewhere(s) \/ Invalidate(s)
  BY <1>2 DEF Elsewhere, Invalidate, AtStep, Moves, Guards
<1>3. CASE HangUp(s)
  BY <1>3 DEF HangUp, Moves
<1>4. CASE EnsureInsideList(s) \/ OnList(s)
  <2>1. todo[s] # <<>> /\ Head(todo[s]) \notin Guards /\ UNCHANGED <<place, agreed>>
    BY <1>4 DEF EnsureInsideList, OnList, AtStatement, AtStep, Guards, Untouched
  <2> QED
    BY <1>4, <2>1 DEF EnsureInsideList, OnList, Moves, ReadIf
<1> QED
  BY <1>1, <1>2, <1>3, <1>4, BoardsMove, AwardsMove, PlotsMove DEF Effects
---------------------------------------------------------------------------
(* The lines. *)
TypedLine == [by : Landlords, command : SemanticCommand, parcel : Parcels, target : Landlords,
              slug : Boards, named : Names, view : Views]

LineInv ==
  /\ line \in [Shells -> TypedLine \cup {NoLine}] /\ DOMAIN todo = Shells
  /\ place \in [Landlords -> Views] /\ agreed \subseteq Landlords
  /\ DOMAIN seen = Shells
  /\ \A s \in Shells : /\ todo[s] = <<>> <=> line[s] = NoLine
                       /\ todo[s] = <<>> => seen[s] = <<>>

LEMMA NoLineIsNone == NoLine \notin TypedLine /\ NoLine.command \in SemanticCommand
<1>1. NoLine.by \notin Landlords
  BY LandAssumption DEF NoLine
<1>2. <<"help">> \in SemanticCommand
  BY DEF SemanticCommand, One
<1> QED
  BY <1>1, <1>2 DEF TypedLine, NoLine

(* Who is at a step has a line. *)
LEMMA LineAt ==
  ASSUME LineInv, NEW s \in Shells, todo[s] # <<>>
  PROVE  line[s] \in TypedLine
BY DEF LineInv

(* A statement leaves the lines of others, and its own until it ends. *)
LEMMA LineMoves ==
  ASSUME LineInv, NEW s \in Shells, Moves(s)
  PROVE  /\ LineInv'
         /\ \A t \in Shells \ {s} : todo'[t] = todo[t] /\ line'[t] = line[t]
         /\ todo'[s] # <<>> => line'[s] = line[s]
<1>1. line[s] \in TypedLine /\ NoLine \notin TypedLine
  BY LineAt, NoLineIsNone DEF Moves
<1>2. CASE \E what : Read(s, what)
  BY <1>2 DEF Read, LineInv, Moves
<1>3. ASSUME NEW steps, Busy(s, steps)
      PROVE  /\ LineInv'
             /\ \A t \in Shells \ {s} : todo'[t] = todo[t] /\ line'[t] = line[t]
             /\ todo'[s] # <<>> => line'[s] = line[s]
  <2>1. CASE steps = <<>>
    BY <1>1, <1>3, <2>1 DEF Busy, LineInv, Moves
  <2>2. CASE steps # <<>>
    BY <1>1, <1>3, <2>2 DEF Busy, LineInv, Moves
  <2> QED
    BY <2>1, <2>2
<1> QED
  BY <1>2, <1>3 DEF Moves, Step, EndLine

(* A line that is typed. *)
LEMMA LineTyped ==
  ASSUME LineInv, NEW s \in Shells, NEW l \in Line, Type(s, l)
  PROVE  /\ LineInv' /\ line'[s].command = l.command /\ line'[s].by = l.by
         /\ todo'[s] = Script(l.command, FALSE)
         /\ \A t \in Shells \ {s} : todo'[t] = todo[t] /\ line'[t] = line[t]
<1> DEFINE new == [f \in DOMAIN NoLine |-> IF f = "view" THEN place[l.by] ELSE l[f]]
<1>1. /\ todo' = [todo EXCEPT ![s] = Script(l.command, FALSE)]
      /\ line' = [line EXCEPT ![s] = new] /\ UNCHANGED <<place, agreed, seen>>
      /\ Script(l.command, FALSE) # <<>>
  BY DEF Type
<1>2. new \in TypedLine /\ new.command = l.command /\ new.by = l.by
  <2>1. DOMAIN NoLine = {"by", "command", "parcel", "target", "slug", "named", "view"}
    BY DEF NoLine
  <2>2. place[l.by] \in Views
    BY DEF LineInv, Line
  <2> QED
    BY <2>1, <2>2 DEF Line, TypedLine
<1> HIDE DEF new
<1> QED
  BY <1>1, <1>2, NoLineIsNone DEF LineInv

(* Acting only inside. *)
Reaches(s) == LET c == line[s].command
              IN  /\ line[s].by \in agreed \/ c[1] = "settings"
                  /\ Inside(c) /\ Head(todo[s]) \notin Guards => line[s].view = line[s].parcel

InsideInv == \A s \in Shells : todo[s] # <<>> => Reaches(s)

LEMMA InsideMoves ==
  ASSUME LineInv, InsideInv, NEW s \in Shells, Moves(s)
  PROVE  InsideInv'
<1>1. ASSUME NEW t \in Shells, todo'[t] # <<>> PROVE Reaches(t)'
  <2>1. UNCHANGED agreed
    BY DEF Moves
  <2>2. CASE t # s
    BY <1>1, <2>1, <2>2, LineMoves DEF InsideInv, Reaches
  <2>3. CASE t = s
    <3>1. line'[s] = line[s] /\ todo[s] # <<>> /\ Reaches(s)
      BY <1>1, <2>3, LineMoves DEF InsideInv, Moves
    <3>2. CASE EndLine(s)
      BY <1>1, <2>3, <3>2 DEF EndLine, Busy, LineInv
    <3>3. CASE \E what : Read(s, what)
      BY <2>1, <2>3, <3>1, <3>3 DEF Reaches, Read
    <3>4. CASE Head(todo[s]) \in Guards => line[s].parcel = line[s].view
      BY <2>1, <2>3, <3>1, <3>4 DEF Reaches
    <3> QED
      BY <3>2, <3>3, <3>4 DEF Moves
  <2> QED
    BY <2>2, <2>3
<1> QED
  BY <1>1 DEF InsideInv

LEMMA InsideTyped ==
  ASSUME LineInv, InsideInv, NEW s \in Shells, NEW l \in Line, Type(s, l)
  PROVE  InsideInv'
<1>0. UNCHANGED agreed
  BY DEF Type
<1>1. ASSUME NEW t \in Shells, todo'[t] # <<>> PROVE Reaches(t)'
  <2>2. CASE t # s
    BY <1>0, <1>1, <2>2, LineTyped DEF InsideInv, Reaches
  <2>3. CASE t = s
    <3>1. /\ line'[s].command = l.command /\ line'[s].by = l.by
          /\ todo'[s] = Script(l.command, FALSE)
      BY LineTyped
    <3>2. l.command \in SemanticCommand /\ (l.by \in agreed) \in BOOLEAN
      BY DEF Line
    <3>3. Script(l.command, FALSE) # <<>>
          /\ PendingAdmission(l.command, l.by \in agreed, FALSE) # "block"
      BY DEF Type
    <3>4. l.by \in agreed \/ l.command[1] = "settings"
      BY <3>2, <3>3, GateScripts
    <3>5. Inside(l.command) => Head(Script(l.command, FALSE)) \in Guards
      BY <3>2, <3>3, InsideScripts DEF Guarded
    <3> QED
      BY <1>0, <2>3, <3>1, <3>4, <3>5 DEF Reaches
  <2> QED
    BY <2>2, <2>3
<1> QED
  BY <1>1 DEF InsideInv
---------------------------------------------------------------------------
(* The limits of the boards.  A connection that has found room for a new   *)
(* board will insert it, whatever the others insert before.                *)
Adding(kind, p) == {s \in Shells : /\ AtStatement(s, kind, <<"room">>)
                                   /\ line[s].parcel = p /\ BoardOf(s, kind) \notin boards}

Within(kind, p) ==
    Cardinality(BoardsOf(kind, p)) + Cardinality(Adding(kind, p))
        <= BoardMax + Cardinality(Shells) - 1

CapInv == /\ IsFiniteSet(boards)
          /\ \A p \in Parcels, kind \in BoardKinds : Within(kind, p)

LEMMA Counts ==
  ASSUME IsFiniteSet(boards), NEW kind, NEW p
  PROVE  /\ IsFiniteSet(BoardsOf(kind, p)) /\ Cardinality(BoardsOf(kind, p)) \in Nat
         /\ IsFiniteSet(Adding(kind, p)) /\ Cardinality(Adding(kind, p)) \in Nat
         /\ Cardinality(Shells) \in Nat /\ Cardinality(Adding(kind, p)) <= Cardinality(Shells)
<1>1. BoardsOf(kind, p) \subseteq boards /\ Adding(kind, p) \subseteq Shells
  BY DEF BoardsOf, Adding
<1> QED
  BY <1>1, LandAssumption, FS_Subset, FS_CardinalityType

LEMMA CapsImply == CapInv => BoardsNearTheirCaps
<1> SUFFICES ASSUME CapInv, NEW p \in Parcels, NEW kind \in BoardKinds
             PROVE  Cardinality(BoardsOf(kind, p)) <= BoardMax + Cardinality(Shells) - 1
  BY DEF BoardsNearTheirCaps
<1>1. Within(kind, p)
  BY DEF CapInv
<1> QED
  BY <1>1, Counts, LandAssumption DEF CapInv, Within

(* Boards as they were, and nobody new about to add one. *)
LEMMA CapsStay ==
  ASSUME CapInv, UNCHANGED boards, NEW kind, NEW p, Within(kind, p),
         Adding(kind, p)' \subseteq Adding(kind, p)
  PROVE  Within(kind, p)'
<1>1. Cardinality(Adding(kind, p)') <= Cardinality(Adding(kind, p))
      /\ Cardinality(Adding(kind, p)') \in Nat
  BY Counts, FS_Subset, FS_CardinalityType DEF CapInv
<1>2. BoardsOf(kind, p)' = BoardsOf(kind, p)
  BY DEF BoardsOf
<1> QED
  BY <1>1, <1>2, Counts, LandAssumption DEF CapInv, Within

(* A connection that has not just found room is not about to add more.     *)
LEMMA QuietCaps ==
  ASSUME CapInv, UNCHANGED boards, NEW s \in Shells,
         \A t \in Shells \ {s} : todo'[t] = todo[t] /\ line'[t] = line[t] /\ seen'[t] = seen[t],
         \/ seen'[s] # <<"room">>
         \/ \A kind \in BoardKinds : AtStep(s, kind)' => BoardOf(s, kind)' \in boards
         \/ todo'[s] = todo[s] /\ line'[s] = line[s] /\ seen'[s] = seen[s]
  PROVE  CapInv'
<1>1. ASSUME NEW p \in Parcels, NEW kind \in BoardKinds
      PROVE  Adding(kind, p)' \subseteq Adding(kind, p)
  BY DEF Adding, AtStatement, AtStep, BoardOf
<1> QED
  BY <1>1, CapsStay DEF CapInv

(* A board is added by who has found room for it, and one that has found  *)
(* room counts as added until its line ends.                               *)
LEMMA BoardRoom ==
  ASSUME LandInv, LineInv, CapInv, NEW s \in Shells, NEW kind \in BoardKinds,
         CreateBoard(s, kind)
  PROVE  CapInv'
<1> DEFINE p == line[s].parcel
           b == BoardOf(s, kind)
<1>0. /\ todo[s] # <<>> /\ AtStep(s, kind) /\ p \in Parcels
      /\ DOMAIN seen = Shells /\ DOMAIN todo = Shells
  BY LineAt DEF CreateBoard, AtStatement, AtStep, TypedLine, LandInv, AwardInv, LineInv
<1>1. \A t \in Shells \ {s} : todo'[t] = todo[t] /\ line'[t] = line[t] /\ seen'[t] = seen[t]
  <2>1. \A t \in Shells \ {s} : todo'[t] = todo[t] /\ line'[t] = line[t]
    BY BoardsMove, LineMoves
  <2>2. \A t \in Shells \ {s} : seen'[t] = seen[t]
    BY <1>0 DEF CreateBoard, ReadIf, Read, Step, EndLine, Busy
  <2> QED
    BY <2>1, <2>2
<1>2. CASE (Step(s) \/ EndLine(s)) /\ UNCHANGED boards
  <2>1. seen'[s] = <<>>
    BY <1>0, <1>2 DEF Step, EndLine, Busy
  <2> QED
    BY <1>1, <1>2, <2>1, QuietCaps
<1>3. ASSUME NEW what, Read(s, what), UNCHANGED boards, what # <<"room">> \/ b \in boards
      PROVE  CapInv'
  <2>1. seen'[s] = what /\ UNCHANGED <<todo, line>>
    BY <1>0, <1>3 DEF Read
  <2>2. b \in boards => \A k \in BoardKinds : AtStep(s, k)' => BoardOf(s, k)' \in boards
    BY <1>0, <2>1 DEF AtStep, BoardOf
  <2> QED
    BY <1>1, <1>3, <2>1, <2>2, QuietCaps
<1>4. ASSUME HasRoom(s, kind), Read(s, <<"room">>), UNCHANGED boards
      PROVE  CapInv'
  <2>1. UNCHANGED <<todo, line>>
    BY <1>4 DEF Read
  <2>2. ASSUME NEW q \in Parcels, NEW k \in BoardKinds
        PROVE  Within(k, q)'
    <3>1. CASE q = p /\ k = kind
      <4>1. Cardinality(BoardsOf(k, q)) < BoardMax
        BY <1>4, <3>1 DEF HasRoom
      <4>2. BoardsOf(k, q)' = BoardsOf(k, q)
        BY <1>4 DEF BoardsOf
      <4>3. Adding(k, q)' \subseteq Shells
        BY DEF Adding
      <4>4. /\ Cardinality(Adding(k, q)') \in Nat
            /\ Cardinality(Adding(k, q)') <= Cardinality(Shells)
        BY <4>3, LandAssumption, FS_Subset, FS_CardinalityType
      <4> QED
        BY <4>1, <4>2, <4>4, Counts, LandAssumption DEF CapInv, Within
    <3>2. CASE ~(q = p /\ k = kind)
      <4>1. Adding(k, q)' \subseteq Adding(k, q)
        BY <1>0, <1>1, <1>4, <2>1, <3>2 DEF Adding, AtStatement, AtStep, BoardOf
      <4> QED
        BY <1>4, <4>1, CapsStay DEF CapInv
    <3> QED
      BY <3>1, <3>2
  <2> QED
    BY <1>4, <2>2 DEF CapInv
<1>5. ASSUME AtStatement(s, kind, <<"room">>), boards' = boards \cup {b}, b \notin boards, Step(s)
      PROVE  CapInv'
  <2>1. seen'[s] = <<>>
    BY <1>0, <1>5 DEF Step, Busy
  <2>2. ASSUME NEW q \in Parcels, NEW k \in BoardKinds
        PROVE  Within(k, q)'
    <3>1. Adding(k, q)' \subseteq Adding(k, q) \ {s}
      BY <1>1, <1>5, <2>1 DEF Adding, AtStatement, AtStep, BoardOf
    <3>2. CASE q = p /\ k = kind
      <4>1. s \in Adding(k, q)
        BY <1>5, <3>2 DEF Adding
      <4>2. BoardsOf(k, q)' = BoardsOf(k, q) \cup {b} /\ b \notin BoardsOf(k, q)
        BY <1>5, <3>2 DEF BoardsOf, BoardOf
      <4>3. Cardinality(BoardsOf(k, q)') = Cardinality(BoardsOf(k, q)) + 1
        BY <4>2, Counts, FS_AddElement DEF CapInv
      <4>4. /\ IsFiniteSet(Adding(k, q) \ {s})
            /\ Cardinality(Adding(k, q) \ {s}) = Cardinality(Adding(k, q)) - 1
        BY <4>1, Counts, FS_RemoveElement DEF CapInv
      <4>5. /\ Cardinality(Adding(k, q)') <= Cardinality(Adding(k, q)) - 1
            /\ Cardinality(Adding(k, q)') \in Nat
        BY <3>1, <4>4, FS_Subset, FS_CardinalityType
      <4> QED
        BY <4>3, <4>5, Counts, LandAssumption DEF CapInv, Within
    <3>3. CASE ~(q = p /\ k = kind)
      <4>1. BoardsOf(k, q)' = BoardsOf(k, q)
        BY <1>5, <3>3 DEF BoardsOf, BoardOf
      <4>2. /\ Cardinality(Adding(k, q)') <= Cardinality(Adding(k, q))
            /\ Cardinality(Adding(k, q)') \in Nat
        BY <3>1, Counts, FS_Subset, FS_CardinalityType DEF CapInv
      <4> QED
        BY <4>1, <4>2, Counts, LandAssumption DEF CapInv, Within
    <3> QED
      BY <3>2, <3>3
  <2>3. IsFiniteSet(boards')
    BY <1>5, FS_AddElement DEF CapInv
  <2> QED
    BY <2>2, <2>3 DEF CapInv
<1>6. CASE AtStatement(s, kind, <<>>)
           /\ ReadIf(s, OwnedBuilt(s), <<"owned">>) /\ Untouched
  BY <1>2, <1>3, <1>6 DEF ReadIf, Untouched, tables
<1>7. CASE /\ AtStatement(s, kind, <<"owned">>) /\ Untouched
           /\ IF b \in boards THEN ReadIf(s, kind \notin AlwaysNew, <<"room">>)
                              ELSE Read(s, <<"new">>)
  BY <1>2, <1>3, <1>7 DEF ReadIf, Untouched, tables
<1>8. CASE AtStatement(s, kind, <<"new">>)
           /\ ReadIf(s, HasRoom(s, kind), <<"room">>) /\ Untouched
  BY <1>2, <1>4, <1>8 DEF ReadIf, Untouched, tables
<1>9. CASE /\ AtStatement(s, kind, <<"room">>)
           /\ boards' = boards \cup {b}
           /\ IF kind \in AlwaysNew /\ b \in boards THEN EndLine(s) ELSE Step(s)
  <2>1. CASE b \in boards
    <3>1. boards' = boards
      BY <1>9, <2>1
    <3> QED
      BY <1>2, <1>9, <3>1
  <2>2. CASE b \notin boards
    BY <1>5, <1>9, <2>2
  <2> QED
    BY <2>1, <2>2
<1> QED
  BY <1>6, <1>7, <1>8, <1>9 DEF CreateBoard

(* The other statements find no room for boards. *)
LEMMA OtherCaps ==
  ASSUME LandInv, LineInv, CapInv, NEW s \in Shells,
         Effects(s) \/ HangUp(s) \/ Invalidate(s)
  PROVE  CapInv'
<1>1. CASE \E kind \in BoardKinds : CreateBoard(s, kind)
  BY <1>1, BoardRoom
<1>2. CASE /\ UNCHANGED boards
           /\ \/ Step(s) \/ EndLine(s)
              \/ \E what : Read(s, what) /\ what # <<"room">>
  <2>1. DOMAIN seen = Shells
    BY DEF LandInv, AwardInv
  <2>2. \A t \in Shells \ {s} : todo'[t] = todo[t] /\ line'[t] = line[t]
    BY StatementsMove, LineMoves
  <2>3. \A t \in Shells \ {s} : seen'[t] = seen[t]
    BY <1>2, <2>1 DEF Read, Step, EndLine, Busy
  <2>4. seen'[s] # <<"room">>
    <3>1. CASE Step(s) \/ EndLine(s)
      <4>1. seen'[s] = <<>>
        BY <2>1, <3>1 DEF Step, EndLine, Busy
      <4> QED
        BY <4>1
    <3>2. ASSUME NEW what, Read(s, what), what # <<"room">> PROVE seen'[s] # <<"room">>
      BY <2>1, <3>2 DEF Read
    <3> QED
      BY <1>2, <3>1, <3>2
  <2> QED
    BY <1>2, <2>2, <2>3, <2>4, QuietCaps
<1>3. CASE EnsureInside(s) \/ Elsewhere(s) \/ HangUp(s) \/ Invalidate(s) \/ BuildNowhere(s)
  BY <1>2, <1>3 DEF EnsureInside, Elsewhere, HangUp, Invalidate, BuildNowhere, tables
<1>4. CASE ClaimParcel(s) \/ TransferParcel(s) \/ SetRoomMailAuthToken(s)
  BY <1>2, <1>4 DEF ClaimParcel, TransferParcel, SetRoomMailAuthToken, Update
<1>5. CASE UpdateBuildField(s) \/ PublishBuild(s)
  BY <1>2, <1>5 DEF UpdateBuildField, PublishBuild, UpdateBuild, Update, tables
<1>6. CASE AwardBadge(s)
  <2>1. UNCHANGED boards
    BY <1>6 DEF AwardBadge, OwnedBadge, Untouched, tables
  <2>2. Step(s) \/ EndLine(s) \/ \E what : Read(s, what) /\ what # <<"room">>
    BY <1>6 DEF AwardBadge, OwnedBadge, ReadIf
  <2> QED
    BY <1>2, <2>1, <2>2
<1>7. CASE RevokeBadge(s)
  <2>1. UNCHANGED boards
    BY <1>7 DEF RevokeBadge, OwnedBadge, Untouched, tables
  <2>2. ASSUME NEW i, Read(s, <<"row", i>>)
        PROVE  \E what : Read(s, what) /\ what # <<"room">>
    <3>1. <<"row", i>> # <<"room">>
      OBVIOUS
    <3> QED
      BY <2>2, <3>1
  <2>3. Read(s, <<"badge">>) => \E what : Read(s, what) /\ what # <<"room">>
    <3>1. <<"badge">> # <<"room">>
      OBVIOUS
    <3> QED
      BY <3>1
  <2>4. Step(s) \/ EndLine(s) \/ \E what : Read(s, what) /\ what # <<"room">>
    BY <1>7, <2>2, <2>3 DEF RevokeBadge, OwnedBadge, ReadIf
  <2> QED
    BY <1>2, <2>1, <2>4
<1>8. CASE EnsureInsideList(s) \/ OnList(s)
  <2>1. UNCHANGED boards
    BY <1>8 DEF EnsureInsideList, OnList, Untouched, tables
  <2>4. ASSUME NEW e PROVE <<"inside", e>> # <<"room">>
    OBVIOUS
  <2>5. ASSUME NEW e, NEW p PROVE <<"list", e, p>> # <<"room">>
    OBVIOUS
  <2>6. \/ Step(s) \/ EndLine(s) \/ \E e : Read(s, <<"inside", e>>)
        \/ \E e, p : Read(s, <<"list", e, p>>)
    BY <1>8 DEF EnsureInsideList, OnList, ReadIf
  <2>3. Step(s) \/ EndLine(s) \/ \E what : Read(s, what) /\ what # <<"room">>
    <3>1. ASSUME NEW e, Read(s, <<"inside", e>>)
          PROVE  \E what : Read(s, what) /\ what # <<"room">>
      BY <2>4, <3>1
    <3>2. ASSUME NEW e, NEW p, Read(s, <<"list", e, p>>)
          PROVE  \E what : Read(s, what) /\ what # <<"room">>
      BY <2>5, <3>2
    <3> QED
      BY <2>6, <3>1, <3>2
  <2> QED
    BY <1>2, <2>1, <2>3
<1> QED
  BY <1>1, <1>3, <1>4, <1>5, <1>6, <1>7, <1>8 DEF Effects

(* A typed line has found no room yet. *)
LEMMA TypedCaps ==
  ASSUME LineInv, CapInv, NEW s \in Shells, NEW l \in Line, Type(s, l)
  PROVE  CapInv'
<1>1. UNCHANGED <<boards, seen>> /\ seen[s] = <<>>
  BY DEF Type, tables, LineInv
<1>2. seen'[s] # <<"room">>
  BY <1>1
<1>3. \A t \in Shells \ {s} : todo'[t] = todo[t] /\ line'[t] = line[t] /\ seen'[t] = seen[t]
  BY <1>1, LineTyped
<1> QED
  BY <1>1, <1>2, <1>3, QuietCaps
---------------------------------------------------------------------------
(* The tables have their types. *)
PlotsInv == /\ land \in [Parcels -> Plot]
            /\ \A p \in Parcels : land[p].owner = Absent <=> land[p].status = "vacant"
TokensTyped == roomToken \in [Parcels -> Landlords \cup {Absent}]
BoardsTyped == boards \subseteq Board
AwardsTyped == awards \in Seq(Award) /\ Len(awards) <= MaxAwards
RowsInv == PlotsInv /\ TokensTyped /\ BoardsTyped /\ AwardsTyped

(* A row comes after another: a built parcel stays built, and a title is   *)
(* the one it was unless its edits are counted on.                         *)
Succeeds(new, old) == /\ old.status = "built" => new.status = "built"
                      /\ old.edits <= new.edits
                      /\ new.edits = old.edits => new.title = old.title
RowsAfter == \A p \in Parcels : Succeeds(land'[p], land[p])

LEMMA SameRows == ASSUME PlotsInv, UNCHANGED land PROVE RowsAfter
<1>1. \A p \in Parcels : land[p].edits \in Nat
  BY LandAssumption DEF PlotsInv, Plot
<1> QED
  BY <1>1 DEF RowsAfter, Succeeds

LEMMA PlotUpdated ==
  ASSUME PlotsInv, NEW s, NEW p \in Parcels, NEW guard, NEW row,
         Update(s, p, guard, row),
         guard => /\ row \in Plot /\ (row.owner = Absent <=> row.status = "vacant")
                  /\ Succeeds(row, land[p])
  PROVE  PlotsInv' /\ UNCHANGED <<roomToken, boards, awards>> /\ RowsAfter
<1>1. UNCHANGED <<roomToken, boards, awards>>
  BY DEF Update
<1>2. CASE guard
  <2>1. land' = [land EXCEPT ![p] = row]
    BY <1>2 DEF Update
  <2>2. PlotsInv'
    BY <1>1, <1>2, <2>1 DEF PlotsInv
  <2>3. \A q \in Parcels : land[q].edits \in Nat
    BY LandAssumption DEF PlotsInv, Plot
  <2>4. ASSUME NEW q \in Parcels PROVE Succeeds(land'[q], land[q])
    <3>1. CASE q = p
      BY <1>2, <2>1, <3>1 DEF PlotsInv
    <3>2. CASE q # p
      <4>1. land'[q] = land[q]
        BY <2>1, <3>2 DEF PlotsInv
      <4> QED
        BY <2>3, <4>1 DEF Succeeds
    <3> QED
      BY <3>1, <3>2
  <2> QED
    BY <1>1, <2>2, <2>4 DEF RowsAfter
<1>3. CASE ~guard
  <2>1. UNCHANGED land
    BY <1>3 DEF Update
  <2> QED
    BY <1>1, <2>1, SameRows DEF PlotsInv
<1> QED
  BY <1>2, <1>3

LEMMA PlotsOfOwners ==
  ASSUME PlotsInv, LineInv, NEW s \in Shells,
         \/ ClaimParcel(s) \/ TransferParcel(s) \/ UpdateBuildField(s) \/ PublishBuild(s)
  PROVE  PlotsInv' /\ UNCHANGED <<roomToken, boards, awards>> /\ RowsAfter
<1>0. /\ line[s] \in TypedLine /\ line[s].by # Absent /\ line[s].target # Absent
      /\ Street \notin Parcels
  <2>1. todo[s] # <<>>
    BY DEF ClaimParcel, TransferParcel, UpdateBuildField, PublishBuild, AtStep
  <2> QED
    BY <2>1, LineAt, LandAssumption DEF TypedLine
<1>e. \A plot \in Plot : plot.edits \in Nat
  BY LandAssumption DEF Plot
<1>1. CASE ClaimParcel(s)
  <2> DEFINE p == line[s].parcel
             row == [land[p] EXCEPT !.owner = line[s].by, !.status = "claimed"]
  <2>1. /\ p \in Parcels /\ row \in Plot /\ row.owner # Absent /\ row.status # "vacant"
        /\ row.title = land[p].title /\ row.edits = land[p].edits /\ land[p] \in Plot
    BY <1>0 DEF PlotsInv, Plot, TypedLine
  <2>2. Update(s, p, land[p].owner = Absent, row)
    BY <1>1 DEF ClaimParcel
  <2>3. land[p].owner = Absent => land[p].status # "built"
    BY <2>1 DEF PlotsInv
  <2> HIDE DEF row
  <2>4. land[p].owner = Absent => Succeeds(row, land[p])
    BY <1>e, <2>1, <2>3 DEF Succeeds
  <2> QED
    BY <2>1, <2>2, <2>4, PlotUpdated
<1>2. CASE TransferParcel(s)
  <2> DEFINE p == line[s].parcel
             row == [land[p] EXCEPT !.owner = line[s].target]
  <2>1. /\ p \in Parcels /\ row \in Plot /\ row.owner # Absent /\ row.status = land[p].status
        /\ row.title = land[p].title /\ row.edits = land[p].edits /\ land[p] \in Plot
    BY <1>0 DEF PlotsInv, Plot, TypedLine
  <2>2. Update(s, p, land[p].owner = line[s].by, row)
    BY <1>2 DEF TransferParcel
  <2>3. land[p].owner = line[s].by => row.status # "vacant"
    BY <1>0, <2>1 DEF PlotsInv
  <2> HIDE DEF row
  <2>4. Succeeds(row, land[p])
    BY <1>e, <2>1 DEF Succeeds
  <2> QED
    BY <2>1, <2>2, <2>3, <2>4, PlotUpdated
<1>3. ASSUME InPlot(s), NEW guard, NEW row, UpdateBuild(s, guard, row),
             guard => /\ row \in Plot /\ row.owner = land[line[s].view].owner
                      /\ row.status \in {land[line[s].view].status, "built"}
                      /\ Succeeds(row, land[line[s].view])
      PROVE  PlotsInv' /\ UNCHANGED <<roomToken, boards, awards>> /\ RowsAfter
  <2> DEFINE p == line[s].view
  <2>1. p \in Parcels
    BY <1>0, <1>3 DEF TypedLine, Views, InPlot
  <2>2. land[p].owner = line[s].by => land[p].status # "vacant"
    BY <1>0, <2>1 DEF PlotsInv
  <2>3. Update(s, p, land[p].owner = line[s].by /\ guard, row)
    BY <1>3 DEF UpdateBuild
  <2>4. land[p].owner = line[s].by /\ guard
          => row \in Plot /\ row.owner # Absent /\ row.status # "vacant" /\ Succeeds(row, land[p])
    BY <1>0, <1>3, <2>2
  <2> HIDE DEF p
  <2> QED
    BY <2>1, <2>3, <2>4, PlotUpdated
<1>4. CASE UpdateBuildField(s)
  <2>1. PICK plot : plot = land[line[s].view]
    OBVIOUS
  <2>2. InPlot(s) /\ plot \in Plot /\ plot.edits \in Nat
    BY <1>0, <1>4, <1>e, <2>1 DEF UpdateBuildField, TypedLine, Views, InPlot, PlotsInv
  <2>3. ASSUME plot.edits < MaxEdits,
               UpdateBuild(s, TRUE, [plot EXCEPT !.title = line[s].named, !.edits = @ + 1])
        PROVE  PlotsInv' /\ UNCHANGED <<roomToken, boards, awards>> /\ RowsAfter
    <3>1. PICK row : row = [plot EXCEPT !.title = line[s].named, !.edits = @ + 1]
      OBVIOUS
    <3>4. PICK n, e : n = line[s].named /\ e = plot.edits + 1
      OBVIOUS
    <3>5. n \in Names /\ e \in 0..MaxEdits
      BY <1>0, <2>2, <2>3, <3>4, LandAssumption DEF TypedLine, Plot
    <3>6. row = [plot EXCEPT !.title = n, !.edits = e]
      BY <3>1, <3>4
    <3>2. row \in Plot /\ row.owner = plot.owner /\ row.status = plot.status
          /\ row.edits = plot.edits + 1
      BY <2>2, <3>4, <3>5, <3>6 DEF Plot
    <3>3. Succeeds(row, plot)
      BY <2>2, <3>2 DEF Succeeds
    <3> QED
      BY <1>3, <2>1, <2>2, <2>3, <3>1, <3>2, <3>3
  <2>4. ASSUME UpdateBuild(s, TRUE, [plot EXCEPT !.text = TRUE])
        PROVE  PlotsInv' /\ UNCHANGED <<roomToken, boards, awards>> /\ RowsAfter
    <3>1. PICK row : row = [plot EXCEPT !.text = TRUE]
      OBVIOUS
    <3>2. row \in Plot /\ row.owner = plot.owner /\ row.status = plot.status
          /\ row.edits = plot.edits /\ row.title = plot.title
      BY <2>2, <3>1 DEF Plot
    <3>3. Succeeds(row, plot)
      BY <2>2, <3>2 DEF Succeeds
    <3> QED
      BY <1>3, <2>1, <2>2, <2>4, <3>1, <3>2, <3>3
  <2>5. ASSUME UpdateBuild(s, TRUE, plot)
        PROVE  PlotsInv' /\ UNCHANGED <<roomToken, boards, awards>> /\ RowsAfter
    <3>1. Succeeds(plot, plot)
      BY <2>2 DEF Succeeds
    <3> QED
      BY <1>3, <2>1, <2>2, <2>5, <3>1
  <2>6. ASSUME UNCHANGED tables
        PROVE  PlotsInv' /\ UNCHANGED <<roomToken, boards, awards>> /\ RowsAfter
    BY <2>6, SameRows DEF tables, PlotsInv
  <2>7. \/ /\ plot.edits < MaxEdits
           /\ UpdateBuild(s, TRUE, [plot EXCEPT !.title = line[s].named, !.edits = @ + 1])
        \/ UpdateBuild(s, TRUE, [plot EXCEPT !.text = TRUE])
        \/ UpdateBuild(s, TRUE, plot)
        \/ UNCHANGED tables
    BY <1>4, <2>1 DEF UpdateBuildField
  <2> QED
    BY <2>3, <2>4, <2>5, <2>6, <2>7
<1>5. CASE PublishBuild(s)
  <2>1. PICK plot, row : plot = land[line[s].view] /\ row = [plot EXCEPT !.status = "built"]
    OBVIOUS
  <2>2. InPlot(s) /\ plot \in Plot /\ plot.edits \in Nat
    BY <1>0, <1>5, <1>e, <2>1 DEF PublishBuild, TypedLine, Views, InPlot, PlotsInv
  <2>3. /\ row \in Plot /\ row.owner = plot.owner /\ row.status = "built"
        /\ row.edits = plot.edits /\ row.title = plot.title
    BY <2>1, <2>2 DEF Plot
  <2>4. UpdateBuild(s, plot.title # Absent /\ plot.text, row)
    BY <1>5, <2>1 DEF PublishBuild
  <2>5. Succeeds(row, plot)
    BY <2>2, <2>3 DEF Succeeds
  <2> QED
    BY <1>3, <2>1, <2>2, <2>3, <2>4, <2>5
<1> QED
  BY <1>1, <1>2, <1>4, <1>5

(* The awards that are given and revoked. *)
LEMMA AwardsGiven ==
  ASSUME AwardsTyped, LineInv, NEW s \in Shells, AwardBadge(s)
  PROVE  AwardsTyped'
<1>1. CASE UNCHANGED awards
  BY <1>1 DEF AwardsTyped
<1>2. CASE Len(awards) < MaxAwards /\ awards' = InsertAward(s) /\ todo[s] # <<>>
  <2> DEFINE row == [parcel |-> line[s].parcel, slug |-> line[s].slug,
                     to |-> line[s].target, active |-> TRUE]
  <2>1. row \in Award
    BY <1>2, LineAt DEF TypedLine, Award
  <2>2. awards' = awards \/ awards' = Append(awards, row)
    BY <1>2 DEF InsertAward
  <2> QED
    BY <1>1, <1>2, <2>1, <2>2, LandAssumption DEF AwardsTyped
<1> QED
  BY <1>1, <1>2 DEF AwardBadge, OwnedBadge, Untouched, tables, AtStatement, AtStep

LEMMA AwardsRevoked ==
  ASSUME AwardsTyped, LandInv, NEW s \in Shells, RevokeBadge(s)
  PROVE  AwardsTyped'
<1>1. CASE UNCHANGED awards
  BY <1>1 DEF AwardsTyped
<1>2. CASE /\ seen[s] # <<>> /\ seen[s][1] = "row"
           /\ awards' = [awards EXCEPT ![seen[s][2]] = RevokedRow(@)]
  <2>1. PICK i : i = seen[s][2]
    OBVIOUS
  <2>2. i \in DOMAIN awards
    BY <1>2, <2>1 DEF LandInv, AwardInv, SeenOK
  <2>3. awards[i] \in Award
    BY <2>2 DEF AwardsTyped
  <2>4. RevokedRow(awards[i]) \in Award
    BY <2>3 DEF RevokedRow, Award
  <2>5. awards' = [awards EXCEPT ![i] = RevokedRow(awards[i])]
    BY <1>2, <2>1
  <2> QED
    BY <2>2, <2>4, <2>5 DEF AwardsTyped
<1> QED
  BY <1>1, <1>2 DEF RevokeBadge, OwnedBadge, Untouched, tables

LEMMA RowsKeep ==
  ASSUME LandInv, LineInv, RowsInv, NEW s \in Shells,
         Effects(s) \/ HangUp(s) \/ Invalidate(s)
  PROVE  RowsInv'
<1>1. CASE UNCHANGED tables
  BY <1>1 DEF RowsInv, PlotsInv, TokensTyped, BoardsTyped, AwardsTyped, tables
<1>2. CASE ClaimParcel(s) \/ TransferParcel(s) \/ UpdateBuildField(s) \/ PublishBuild(s)
  BY <1>2, PlotsOfOwners DEF RowsInv, TokensTyped, BoardsTyped, AwardsTyped
<1>3. CASE SetRoomMailAuthToken(s)
  <2>1. line[s] \in TypedLine /\ UNCHANGED <<land, boards, awards>>
    BY <1>3, LineAt DEF SetRoomMailAuthToken, AtStep
  <2>2. TokenFor(s) \in Landlords
    BY <2>1 DEF TokenFor, TypedLine
  <2>3. TokensTyped'
    BY <1>3, <2>2 DEF SetRoomMailAuthToken, RowsInv, TokensTyped
  <2> QED
    BY <2>1, <2>3 DEF RowsInv, PlotsInv, BoardsTyped, AwardsTyped
<1>4. CASE \E kind \in BoardKinds : CreateBoard(s, kind)
  <2>1. PICK kind \in BoardKinds : CreateBoard(s, kind)
    BY <1>4
  <2>2. UNCHANGED <<land, roomToken, awards>>
    BY <2>1 DEF CreateBoard, Untouched, tables
  <2>3. boards' \in {boards, boards \cup {BoardOf(s, kind)}}
    BY <2>1 DEF CreateBoard, Untouched, tables
  <2>4. line[s] \in TypedLine
    BY <2>1, LineAt DEF CreateBoard, AtStatement, AtStep
  <2>5. BoardOf(s, kind) \in Board
    BY <2>4 DEF BoardOf, Board, TypedLine
  <2> QED
    BY <2>2, <2>3, <2>5 DEF RowsInv, PlotsInv, TokensTyped, BoardsTyped, AwardsTyped
<1>5. CASE AwardBadge(s) \/ RevokeBadge(s)
  <2>1. UNCHANGED <<land, roomToken, boards>>
    BY <1>5 DEF AwardBadge, RevokeBadge, OwnedBadge, Untouched, tables
  <2>2. AwardsTyped'
    BY <1>5, AwardsGiven, AwardsRevoked DEF RowsInv
  <2> QED
    BY <2>1, <2>2 DEF RowsInv, PlotsInv, TokensTyped, BoardsTyped
<1> QED
  BY <1>1, <1>2, <1>3, <1>4, <1>5 DEF Effects, EnsureInside, EnsureInsideList, OnList,
     Elsewhere, BuildNowhere, HangUp, Invalidate, Untouched, tables
---------------------------------------------------------------------------
(* The lists.  Who has passed the guard stands in a room that has such a   *)
(* list, and that was called so as often as it had been retitled then.     *)
StoodHere(s) ==
  LET v == line[s].view
  IN  /\ v \in Parcels /\ land[v].status = "built"
      /\ [kind |-> "list", parcel |-> v, slug |-> line[s].slug] \in boards
      /\ seen[s][2] \in Nat /\ seen[s][2] <= land[v].edits
      /\ seen[s][2] = land[v].edits => Bears(v, line[s].named)

Called(s) == seen[s] # <<>> =>
               /\ StoodHere(s)
               /\ seen[s][1] = "list" => seen[s][3] = line[s].view \/ Retitled(s)

OnListInv == \A s \in Shells : AtStep(s, "onList") => Called(s)

LEMMA InsideImplied == InsideInv /\ OnListInv => ActsOnlyInside
BY DEF InsideInv, OnListInv, ActsOnlyInside, Reaches, Inside, Guards, Called, AtStep

(* A room has lists as before and is retitled on the record, whoever       *)
(* writes.                                                                 *)
LEMMA LandGrows ==
  ASSUME LineInv, RowsInv, NEW s \in Shells, Effects(s) \/ HangUp(s) \/ Invalidate(s)
  PROVE  RowsAfter /\ boards \subseteq boards'
<1>0. PlotsInv
  BY DEF RowsInv
<1>1. CASE ClaimParcel(s) \/ TransferParcel(s) \/ UpdateBuildField(s) \/ PublishBuild(s)
  BY <1>0, <1>1, PlotsOfOwners
<1>2. CASE UNCHANGED land /\ boards \subseteq boards'
  BY <1>0, <1>2, SameRows
<1>3. CASE \E kind \in BoardKinds : CreateBoard(s, kind)
  BY <1>2, <1>3 DEF CreateBoard, Untouched, tables
<1>4. CASE AwardBadge(s) \/ RevokeBadge(s)
  BY <1>2, <1>4 DEF AwardBadge, RevokeBadge, OwnedBadge, Untouched, tables
<1>5. CASE SetRoomMailAuthToken(s)
  BY <1>2, <1>5 DEF SetRoomMailAuthToken
<1> QED
  BY <1>1, <1>2, <1>3, <1>4, <1>5 DEF Effects, EnsureInside, EnsureInsideList, OnList,
     Elsewhere, BuildNowhere, HangUp, Invalidate, Untouched, tables

(* What the others do leaves a line what it knew of its room.              *)
LEMMA CalledStays ==
  ASSUME RowsInv, RowsInv', RowsAfter, boards \subseteq boards', NEW t \in Shells, Called(t),
         line'[t] = line[t], seen'[t] = seen[t]
  PROVE  Called(t)'
<1> SUFFICES ASSUME seen[t] # <<>> PROVE Called(t)'
  BY DEF Called
<1>1. PICK v, e : v = line[t].view /\ e = seen[t][2]
  OBVIOUS
<1>2. /\ v \in Parcels /\ land[v].status = "built" /\ e \in Nat /\ e <= land[v].edits
      /\ [kind |-> "list", parcel |-> v, slug |-> line[t].slug] \in boards
      /\ e = land[v].edits => Bears(v, line[t].named)
  BY <1>1 DEF Called, StoodHere
<1>3. /\ Succeeds(land'[v], land[v]) /\ land[v].edits \in Nat /\ land'[v].edits \in Nat
  BY <1>2, LandAssumption DEF RowsAfter, RowsInv, PlotsInv, Plot
<1>4. PICK m, n : m = land[v].edits /\ n = land'[v].edits
  OBVIOUS
<1>5. m \in Nat /\ n \in Nat /\ m <= n /\ e <= m
  BY <1>2, <1>3, <1>4 DEF Succeeds
<1>6. e <= n /\ (e = n => e = m /\ m = n) /\ (m > e => n > e)
  BY <1>2, <1>5
<1>7. e = n => Bears(v, line[t].named)'
  <2>1. SUFFICES ASSUME e = n PROVE line'[t].named \in {v, land'[v].title}
    BY DEF Bears
  <2>2. land'[v].title = land[v].title /\ line[t].named \in {v, land[v].title}
    BY <1>2, <1>3, <1>4, <1>6, <2>1 DEF Succeeds, Bears
  <2> QED
    BY <2>2
<1>8. land'[v].status = "built"
  BY <1>2, <1>3 DEF Succeeds
<1>9. StoodHere(t)'
  BY <1>1, <1>2, <1>4, <1>6, <1>7, <1>8 DEF StoodHere
<1>10. Retitled(t) => Retitled(t)'
  BY <1>1, <1>4, <1>6 DEF Retitled
<1> QED
  BY <1>9, <1>10 DEF Called

(* The statements of such a line itself. *)
LEMMA ListFound ==
  ASSUME LineInv, RowsInv, OnListInv, NEW s \in Shells, EnsureInsideList(s) \/ OnList(s)
  PROVE  AtStep(s, "onList")' => Called(s)'
<1>0. /\ AtStep(s, "onList") /\ todo[s] # <<>> /\ DOMAIN seen = Shells /\ DOMAIN todo = Shells
      /\ UNCHANGED <<land, boards>> /\ line[s] \in TypedLine
  BY LineAt DEF EnsureInsideList, OnList, AtStatement, AtStep, Untouched, tables, LineInv
<1>1. CASE Step(s) \/ EndLine(s)
  <2>1. seen'[s] = <<>>
    BY <1>0, <1>1 DEF Step, EndLine, Busy
  <2> QED
    BY <2>1 DEF Called
<1>2. PICK v : v = line[s].view
  OBVIOUS
<1>3. ASSUME NEW e, Resolved(s) = {v}, e = land[v].edits, Read(s, <<"inside", e>>)
      PROVE  Called(s)'
  <2>1. /\ v \in Parcels /\ Bears(v, line[s].named) /\ land[v].status = "built"
        /\ [kind |-> "list", parcel |-> v, slug |-> line[s].slug] \in boards
    BY <1>3 DEF Resolved
  <2>2. land[v].edits \in Nat
    BY <2>1, LandAssumption DEF RowsInv, PlotsInv, Plot
  <2>3. line'[s] = line[s] /\ seen'[s] = <<"inside", e>>
    BY <1>0, <1>3 DEF Read
  <2>4. seen'[s][1] = "inside" /\ seen'[s][2] = e
    BY <2>3
  <2>5. Bears(v, line[s].named)'
    BY <1>0, <2>1, <2>3 DEF Bears
  <2>6. StoodHere(s)'
    BY <1>0, <1>2, <1>3, <2>1, <2>2, <2>3, <2>4, <2>5 DEF StoodHere
  <2> QED
    BY <2>4, <2>6 DEF Called
<1>4. ASSUME NEW p \in Parcels, Resolved(s) = {p}, seen[s] # <<>>,
             Read(s, <<"list", seen[s][2], p>>)
      PROVE  Called(s)'
  <2>1. PICK e : e = seen[s][2]
    OBVIOUS
  <2>2. /\ v \in Parcels /\ land[v].status = "built" /\ e \in Nat /\ e <= land[v].edits
        /\ [kind |-> "list", parcel |-> v, slug |-> line[s].slug] \in boards
        /\ e = land[v].edits => Bears(v, line[s].named)
    BY <1>0, <1>2, <1>4, <2>1 DEF OnListInv, Called, StoodHere
  <2>3. line'[s] = line[s] /\ seen'[s] = <<"list", e, p>>
    BY <1>0, <1>4, <2>1 DEF Read
  <2>4. seen'[s][1] = "list" /\ seen'[s][2] = e /\ seen'[s][3] = p
    BY <2>3
  <2>5. land[v].edits \in Nat
    BY <2>2, LandAssumption DEF RowsInv, PlotsInv, Plot
  <2>6. p # v => line[s].named # v /\ land[v].edits > e
    <3> SUFFICES ASSUME p # v PROVE line[s].named # v /\ land[v].edits > e
      OBVIOUS
    <3>1. ~Bears(v, line[s].named)
      BY <1>4, <2>2 DEF Resolved
    <3>2. line[s].named # v
      BY <3>1 DEF Bears
    <3>3. e # land[v].edits
      BY <2>2, <3>1
    <3>4. PICK m : m = land[v].edits
      OBVIOUS
    <3>5. m > e
      BY <2>2, <2>5, <3>3, <3>4
    <3> QED
      BY <3>2, <3>4, <3>5
  <2>7. p = v \/ Retitled(s)'
    BY <1>0, <1>2, <2>3, <2>4, <2>6 DEF Retitled
  <2>8. Bears(v, line[s].named)' <=> Bears(v, line[s].named)
    BY <1>0, <2>3 DEF Bears
  <2>9. StoodHere(s)'
    BY <1>0, <1>2, <2>2, <2>3, <2>4, <2>8 DEF StoodHere
  <2> QED
    BY <1>2, <2>3, <2>4, <2>7, <2>9 DEF Called
<1>5. CASE EnsureInsideList(s)
  BY <1>1, <1>2, <1>3, <1>5 DEF EnsureInsideList, ReadIf
<1>6. CASE OnList(s)
  <2>2. ASSUME seen[s] # <<>>, NEW q \in Parcels, Resolved(s) = {q},
               \E p \in Resolved(s) : Read(s, <<"list", seen[s][2], p>>)
        PROVE  Called(s)'
    BY <1>4, <2>2
  <2> QED
    BY <1>1, <1>6, <2>2 DEF OnList
<1> QED
  BY <1>5, <1>6

LEMMA ListsKept ==
  ASSUME LineInv, RowsInv, RowsInv', OnListInv, NEW s \in Shells,
         Effects(s) \/ HangUp(s) \/ Invalidate(s)
  PROVE  OnListInv'
<1>0. /\ Moves(s) /\ RowsAfter /\ boards \subseteq boards' /\ DOMAIN seen = Shells
      /\ DOMAIN todo = Shells
  BY StatementsMove, LandGrows DEF LineInv
<1>1. ASSUME NEW t \in Shells \ {s} PROVE AtStep(t, "onList")' => Called(t)'
  <2>1. todo'[t] = todo[t] /\ line'[t] = line[t]
    BY <1>0, LineMoves
  <2>2. seen'[t] = seen[t]
    BY <1>0 DEF Moves, Step, EndLine, Busy, Read
  <2>3. AtStep(t, "onList")' = AtStep(t, "onList")
    BY <2>1 DEF AtStep
  <2> QED
    BY <1>0, <2>1, <2>2, <2>3, CalledStays DEF OnListInv
<1>2. AtStep(s, "onList")' => Called(s)'
  <2>1. CASE EnsureInsideList(s) \/ OnList(s)
    BY <2>1, ListFound
  <2>2. CASE Step(s) \/ EndLine(s)
    <3>1. seen'[s] = <<>>
      BY <1>0, <2>2 DEF Step, EndLine, Busy
    <3> QED
      BY <3>1 DEF Called
  <2>3. CASE ~AtStep(s, "onList") /\ \E what : Read(s, what)
    BY <2>3 DEF Read, AtStep
  <2>4. \/ EnsureInsideList(s) \/ OnList(s)
        \/ HangUp(s) \/ ~AtStep(s, "onList")
    BY DEF Effects, EnsureInside, Elsewhere, ClaimParcel, TransferParcel,
       SetRoomMailAuthToken, BuildNowhere, UpdateBuildField, PublishBuild, Sheet, CreateBoard,
       BoardKinds, AwardBadge, RevokeBadge, OwnedBadge, Invalidate, AtStatement, AtStep
  <2>5. HangUp(s) => EndLine(s)
    BY DEF HangUp
  <2> QED
    BY <1>0, <2>1, <2>2, <2>3, <2>4, <2>5 DEF Moves
<1> QED
  BY <1>1, <1>2 DEF OnListInv
---------------------------------------------------------------------------
(* All that holds of the lines and the tables. *)
OwnersInv == LineInv /\ RowsInv /\ InsideInv /\ OnListInv /\ CapInv

LEMMA OwnersImply == LandInv /\ OwnersInv => LandTypeOK /\ BoardsNearTheirCaps /\ ActsOnlyInside
BY CapsImply, NoLineIsNone, InsideImplied
   DEF OwnersInv, LineInv, RowsInv, PlotsInv, TokensTyped, BoardsTyped, AwardsTyped,
       LandTypeOK, TypedLine

LEMMA OwnersInit == LandInit => OwnersInv
<1> SUFFICES ASSUME LandInit PROVE OwnersInv
  OBVIOUS
<1>1. LineInv
  BY DEF LandInit, LineInv
<1>2. InsideInv /\ OnListInv
  BY DEF LandInit, InsideInv, OnListInv, AtStep
<1>3. CapInv
  <2>1. boards = {} /\ \A s \in Shells : todo[s] = <<>>
    BY DEF LandInit
  <2>2. \A p, kind : BoardsOf(kind, p) = {} /\ Adding(kind, p) = {}
    BY <2>1 DEF BoardsOf, Adding, AtStatement, AtStep
  <2>3. Cardinality(Shells) \in Nat
    BY LandAssumption, FS_CardinalityType
  <2>4. ASSUME NEW p, NEW kind PROVE Within(kind, p)
    <3>1. Cardinality(BoardsOf(kind, p)) = 0 /\ Cardinality(Adding(kind, p)) = 0
      BY <2>2, FS_EmptySet
    <3> QED
      BY <2>3, <3>1, LandAssumption DEF Within
  <2>5. IsFiniteSet(boards)
    BY <2>1, FS_EmptySet
  <2> QED
    BY <2>4, <2>5 DEF CapInv
<1>4. RowsInv
  <2>1. /\ Vacant \in Plot /\ Vacant.owner = Absent /\ Vacant.status = "vacant"
        /\ \A l \in Landlords, n \in Names :
             /\ Estate(l, n).owner = l /\ Estate(l, n).status = "built"
             /\ Estate(l, n) \in Plot /\ l # Absent
    BY LandAssumption DEF Vacant, Estate, Plot
  <2>2. land \in [Parcels -> {Vacant} \cup {Estate(l, n) : l \in Landlords, n \in Names}]
        /\ roomToken = [p \in Parcels |-> land[p].owner] /\ boards = {} /\ awards = <<>>
    BY DEF LandInit
  <2>3. \A p \in Parcels : land[p] = Vacant \/ \E l \in Landlords, n \in Names : land[p] = Estate(l, n)
    BY <2>2
  <2>4. PlotsInv
    BY <2>1, <2>2, <2>3 DEF PlotsInv
  <2>5. TokensTyped
    BY <2>2, <2>4 DEF TokensTyped, PlotsInv, Plot
  <2> QED
    BY <2>2, <2>4, <2>5, LandAssumption DEF RowsInv, BoardsTyped, AwardsTyped
<1> QED
  BY <1>1, <1>2, <1>3, <1>4 DEF OwnersInv

LEMMA OwnersUnchanged == OwnersInv /\ UNCHANGED landVars => OwnersInv'
<1> SUFFICES ASSUME OwnersInv, UNCHANGED landVars PROVE OwnersInv'
  OBVIOUS
<1>1. UNCHANGED <<land, roomToken, boards, awards, place, agreed, line, todo, seen>>
  BY DEF landVars, tables, shells
<1>2. LineInv' /\ RowsInv' /\ InsideInv'
  BY <1>1 DEF OwnersInv, LineInv, RowsInv, PlotsInv, TokensTyped, BoardsTyped, AwardsTyped,
              InsideInv, Reaches
<1>4. OnListInv'
  BY <1>1 DEF OwnersInv, OnListInv, AtStep, Called, StoodHere, Retitled, Bears
<1>3. CapInv'
  BY <1>1 DEF OwnersInv, CapInv, Within, BoardsOf, Adding, AtStatement, AtStep, BoardOf
<1> QED
  BY <1>2, <1>3, <1>4 DEF OwnersInv

LEMMA OwnersEffects ==
  ASSUME LandInv, OwnersInv, NEW s \in Shells, Effects(s) \/ HangUp(s) \/ Invalidate(s)
  PROVE  OwnersInv'
BY StatementsMove, LineMoves, InsideMoves, ListsKept, OtherCaps, RowsKeep DEF OwnersInv

LEMMA OwnersType ==
  ASSUME OwnersInv, NEW s \in Shells, NEW l \in Line, Type(s, l)
  PROVE  OwnersInv'
<1>1. RowsInv'
  BY DEF Type, tables, OwnersInv, RowsInv, PlotsInv, TokensTyped, BoardsTyped, AwardsTyped
<1>2. ASSUME NEW t \in Shells PROVE AtStep(t, "onList")' => Called(t)'
  <2>1. UNCHANGED <<land, boards, seen>> /\ (todo[s] = <<>> => seen[s] = <<>>) /\ todo[s] = <<>>
    BY DEF Type, tables, OwnersInv, LineInv
  <2>2. CASE t = s
    BY <2>1, <2>2 DEF Called
  <2>3. CASE t # s
    <3>1. todo'[t] = todo[t] /\ line'[t] = line[t]
      BY <2>3, LineTyped DEF OwnersInv
    <3> QED
      BY <2>1, <3>1 DEF OwnersInv, OnListInv, AtStep, Called, StoodHere, Retitled, Bears
  <2> QED
    BY <2>2, <2>3
<1> QED
  BY <1>1, <1>2, LineTyped, InsideTyped, TypedCaps DEF OwnersInv, OnListInv

LEMMA OwnersWalk ==
  ASSUME OwnersInv, NEW l \in Landlords, Agree(l) \/ (\E v \in Views : Walk(l, v))
  PROVE  OwnersInv'
<1>1. UNCHANGED <<land, roomToken, boards, awards, line, todo, seen>>
      /\ place' \in [Landlords -> Views] /\ agreed' \subseteq Landlords /\ agreed \subseteq agreed'
  BY DEF Agree, Walk, OwnersInv, LineInv, tables, shells
<1>2. LineInv' /\ RowsInv' /\ InsideInv'
  BY <1>1 DEF OwnersInv, LineInv, RowsInv, PlotsInv, TokensTyped, BoardsTyped, AwardsTyped,
              InsideInv, Reaches
<1>4. OnListInv'
  BY <1>1 DEF OwnersInv, OnListInv, AtStep, Called, StoodHere, Retitled, Bears
<1>3. CapInv'
  BY <1>1 DEF OwnersInv, CapInv, Within, BoardsOf, Adding, AtStatement, AtStep, BoardOf
<1> QED
  BY <1>2, <1>3, <1>4 DEF OwnersInv
---------------------------------------------------------------------------
(* Events.  A step that changes the row of a parcel comes before the event *)
(* of its line, which is of that parcel.                                   *)
Changing == Sheets \cup {"claim", "transfer"}

Says(q, build) ==
  /\ q \in Seq(Kept \cup {"transfer"})
  /\ \A i \in DOMAIN q : q[i] \in Changing =>
        /\ \E j \in DOMAIN q : i < j /\ q[j] = "invalidate"
        /\ q[i] \in Sheets <=> build

Owed(q, c) == /\ Says(q, c[2] = "build")
              /\ Len(Script(c, FALSE)) \in Nat /\ Len(q) <= Len(Script(c, FALSE))

OwedInv == \A s \in Shells : todo[s] # <<>> => Owed(todo[s], line[s].command)

LEMMA ScriptRuns ==
  ASSUME NEW c \in SemanticCommand
  PROVE  \/ Script(c, FALSE) \in Seq(Quiet)
         \/ c[2] = "build" /\ Script(c, FALSE) \in Builds
         \/ c = <<"parcel", "claim">> /\ Script(c, FALSE) = Claim
         \/ c = <<"parcel", "transfer">> /\ Script(c, FALSE) = Transfer
<1>0. <<>> \in Seq(Quiet)
  OBVIOUS
<1>1. ASSUME NEW f, NEW op, Req(f, op), BusinessRequest(c) = <<f, op>>,
             f = "build" => c[2] = "build",
             <<f, op>> = <<"parcel", "claim">> => c = <<"parcel", "claim">>,
             <<f, op>> = <<"parcel", "transfer">> => c = <<"parcel", "transfer">>
      PROVE  \/ Script(c, FALSE) \in Seq(Quiet)
             \/ c[2] = "build" /\ Script(c, FALSE) \in Builds
             \/ c = <<"parcel", "claim">> /\ Script(c, FALSE) = Claim
             \/ c = <<"parcel", "transfer">> /\ Script(c, FALSE) = Transfer
  <2>1. Script(c, FALSE) = <<>> \/ Script(c, FALSE) = Handle(<<f, op>>)
    BY <1>1 DEF Script
  <2> QED
    BY <1>0, <1>1, <2>1, HandleRuns
<1>2. ASSUME NEW n, c = <<n>>, n \notin {"settings", "pay", "inbox", "parcel", "badges"}
      PROVE  Script(c, FALSE) \in Seq(Quiet)
  <2>1. BusinessRequest(c) = <<>>
    BY <1>2 DEF BusinessRequest
  <2> QED
    BY <1>0, <2>1 DEF Script
<1>3. ASSUME NEW f, NEW op, PlainPair(f, op), c = <<f, op>>
      PROVE  \E x : Req(f, x) /\ BusinessRequest(c) = <<f, x>> /\ f \notin {"parcel", "build"}
  <2>1. CASE f = "settings"
    BY <1>3, <2>1 DEF BusinessRequest, SettingsRequest, Req
  <2>2. CASE f # "settings"
    BY <1>3, <2>2 DEF BusinessRequest, PaymentRequest, InboxRequest, BadgeRequest, Req, PlainPair
  <2> QED
    BY <2>1, <2>2
<1>4. ASSUME NEW n \in ParcelPlain, c = <<"parcel", n>>
      PROVE  \E f \in {"parcel", "mailingList"} : Req(f, n) /\ BusinessRequest(c) = <<f, n>>
  BY <1>4, PlainRequests DEF Req, ParcelPlain, OfMailingList
<1>5. ASSUME NEW f, NEW op, ParcelPair(f, op), c = <<"parcel", f, op>>
      PROVE  /\ Req(f, op) /\ BusinessRequest(c) = <<f, op>> /\ f # "parcel"
             /\ c[2] = f
  BY <1>5, PairRequests DEF Req
<1> QED
  BY <1>1, <1>2, <1>3, <1>4, <1>5, CommandShapes

LEMMA QuietSays == ASSUME NEW q \in Seq(Quiet), NEW b PROVE Says(q, b)
<1>1. \A x \in Quiet : x \in Kept \cup {"transfer"} /\ x \notin Changing
  BY DEF Kept, Quiet, Sheets, Changing
<1>2. \A i \in DOMAIN q : q[i] \in Quiet
  OBVIOUS
<1>3. q \in Seq(Kept \cup {"transfer"})
  BY <1>1
<1> QED
  BY <1>1, <1>2, <1>3 DEF Says

LEMMA BuildSays == ASSUME NEW q \in Builds PROVE Says(q, TRUE)
<1>0. \A x \in Sheets : x \in Kept \cup {"transfer"}
  BY DEF Kept
<1>1. /\ {"title", "description", "commands", "field", "publish"} = Sheets
      /\ "invalidate" \in Kept \cup {"transfer"} /\ "invalidate" \notin Changing
  BY DEF Kept, Quiet, Sheets, Changing
<1>2. ASSUME NEW x \in Sheets, q = <<x, "invalidate">> PROVE Says(q, TRUE)
  <2>1. q \in Seq(Kept \cup {"transfer"}) /\ DOMAIN q = 1..2 /\ q[1] = x /\ q[2] = "invalidate"
    BY <1>0, <1>1, <1>2
  <2> QED
    BY <1>1, <1>2, <2>1 DEF Says
<1>3. ASSUME q = <<"title", "description", "commands", "invalidate">> PROVE Says(q, TRUE)
  <2>1. /\ q \in Seq(Kept \cup {"transfer"}) /\ DOMAIN q = 1..4 /\ q[4] = "invalidate"
        /\ q[1] \in Sheets /\ q[2] \in Sheets /\ q[3] \in Sheets
    BY <1>0, <1>1, <1>3
  <2> QED
    BY <1>1, <2>1 DEF Says
<1> QED
  BY <1>1, <1>2, <1>3 DEF Builds

LEMMA RegistrySays ==
  ASSUME NEW x \in {"claim", "transfer"}
  PROVE  Says(<<x, "roomToken", "invalidate">>, FALSE)
<1> DEFINE q == <<x, "roomToken", "invalidate">>
<1>1. /\ x \in Kept \cup {"transfer"} /\ x \notin Sheets
      /\ {"roomToken", "invalidate"} \subseteq Kept /\ "invalidate" \notin Changing
      /\ "roomToken" \notin Changing
  BY DEF Kept, Quiet, Sheets, Changing
<1>2. /\ q \in Seq(Kept \cup {"transfer"}) /\ DOMAIN q = 1..3
      /\ q[1] = x /\ q[2] = "roomToken" /\ q[3] = "invalidate"
  BY <1>1
<1> HIDE DEF q
<1> QED
  BY <1>1, <1>2 DEF Says, q

LEMMA ScriptOwed ==
  ASSUME NEW c \in SemanticCommand
  PROVE  Owed(Script(c, FALSE), c)
<1>1. Says(Script(c, FALSE), c[2] = "build")
  <2>1. CASE Script(c, FALSE) \in Seq(Quiet)
    BY <2>1, QuietSays
  <2>2. CASE c[2] = "build" /\ Script(c, FALSE) \in Builds
    BY <2>2, BuildSays
  <2>3. CASE c = <<"parcel", "claim">> /\ Script(c, FALSE) = Claim
    <3>1. (c[2] = "build") = FALSE
      BY <2>3
    <3>2. Says(Claim, FALSE)
      BY RegistrySays DEF Claim
    <3> QED
      BY <2>3, <3>1, <3>2
  <2>4. CASE c = <<"parcel", "transfer">> /\ Script(c, FALSE) = Transfer
    <3>1. (c[2] = "build") = FALSE
      BY <2>4
    <3>2. Says(Transfer, FALSE)
      BY RegistrySays DEF Transfer
    <3> QED
      BY <2>4, <3>1, <3>2
  <2> QED
    BY <2>1, <2>2, <2>3, <2>4, ScriptRuns
<1>2. PICK q : q = Script(c, FALSE)
  OBVIOUS
<1>3. q \in Seq(Kept \cup {"transfer"})
  BY <1>1, <1>2 DEF Says
<1>4. Len(q) \in Nat /\ Len(q) <= Len(q)
  BY <1>3
<1> QED
  BY <1>1, <1>2, <1>4 DEF Owed

(* What is left after a step says the same of itself.                      *)
Announced(q) == \E i \in DOMAIN q : q[i] = "invalidate"

LEMMA TailSays ==
  ASSUME NEW b, NEW q, Says(q, b), q # <<>>
  PROVE  /\ Says(Tail(q), b) /\ Len(q) \in Nat /\ Len(Tail(q)) = Len(q) - 1
         /\ Head(q) # "invalidate" /\ Announced(q) => Announced(Tail(q))
         /\ Head(q) \in Changing => Announced(Tail(q)) /\ (Head(q) \in Sheets <=> b)
<1>1. /\ q \in Seq(Kept \cup {"transfer"}) /\ Len(q) \in Nat \ {0} /\ DOMAIN q = 1..Len(q)
      /\ Head(q) = q[1]
  <2>1. q \in Seq(Kept \cup {"transfer"})
    BY DEF Says
  <2> QED
    BY <2>1
<1>2. /\ Tail(q) \in Seq(Kept \cup {"transfer"}) /\ Len(Tail(q)) = Len(q) - 1
      /\ DOMAIN Tail(q) = 1..(Len(q) - 1)
      /\ \A i \in 1..(Len(q) - 1) : Tail(q)[i] = q[i + 1]
  BY <1>1
<1>4. ASSUME NEW j \in DOMAIN q, j # 1, q[j] = "invalidate"
      PROVE  j - 1 \in DOMAIN Tail(q) /\ Tail(q)[j - 1] = "invalidate"
  BY <1>1, <1>2, <1>4
<1>5. ASSUME NEW i \in DOMAIN Tail(q), Tail(q)[i] \in Changing
      PROVE  /\ \E j \in DOMAIN Tail(q) : i < j /\ Tail(q)[j] = "invalidate"
             /\ Tail(q)[i] \in Sheets <=> b
  <2>1. i + 1 \in DOMAIN q /\ q[i + 1] = Tail(q)[i]
    BY <1>1, <1>2
  <2>2. PICK j \in DOMAIN q : i + 1 < j /\ q[j] = "invalidate"
    BY <1>5, <2>1 DEF Says
  <2>3. j - 1 \in DOMAIN Tail(q) /\ Tail(q)[j - 1] = "invalidate" /\ i < j - 1
    BY <1>1, <1>2, <1>4, <2>2
  <2>4. q[i + 1] \in Sheets <=> b
    BY <1>5, <2>1 DEF Says
  <2> QED
    BY <2>1, <2>3, <2>4
<1>6. Head(q) \in Changing => /\ \E j \in DOMAIN q : 1 < j /\ q[j] = "invalidate"
                              /\ Head(q) \in Sheets <=> b
  <2>1. 1 \in DOMAIN q
    BY <1>1
  <2> QED
    BY <1>1, <2>1 DEF Says
<1>7. Head(q) # "invalidate" /\ Announced(q) => Announced(Tail(q))
  <2> SUFFICES ASSUME q[1] # "invalidate", NEW j \in DOMAIN q, q[j] = "invalidate"
               PROVE  Announced(Tail(q))
    BY <1>1 DEF Announced
  <2>1. j # 1
    OBVIOUS
  <2> QED
    BY <1>4, <2>1 DEF Announced
<1>8. Head(q) \in Changing => Announced(Tail(q))
  <2> SUFFICES ASSUME NEW j \in DOMAIN q, 1 < j, q[j] = "invalidate"
               PROVE  Announced(Tail(q))
    BY <1>6
  <2>1. j # 1
    BY <1>1
  <2> QED
    BY <1>4, <2>1 DEF Announced
<1>9. Says(Tail(q), b)
  BY <1>2, <1>5 DEF Says
<1> QED
  BY <1>1, <1>2, <1>6, <1>7, <1>8, <1>9

---------------------------------------------------------------------------
(* What is left of a line after a step of it is owed too. *)
LEMMA OwedTail ==
  ASSUME NEW c, NEW q, Owed(q, c), q # <<>>
  PROVE  Owed(Tail(q), c) /\ Tail(q) # Script(c, FALSE)
<1>1. /\ Says(Tail(q), c[2] = "build") /\ Len(q) \in Nat /\ Len(Tail(q)) = Len(q) - 1
      /\ Len(Script(c, FALSE)) \in Nat /\ Len(q) <= Len(Script(c, FALSE))
  BY TailSays DEF Owed
<1>2. Len(Tail(q)) # Len(Script(c, FALSE)) /\ Len(Tail(q)) <= Len(Script(c, FALSE))
  <2>1. PICK k, m, n : k = Len(q) /\ m = Len(Tail(q)) /\ n = Len(Script(c, FALSE))
    OBVIOUS
  <2>2. m = k - 1 /\ k \in Nat /\ n \in Nat /\ k <= n
    BY <1>1, <2>1, Zenon
  <2>3. m # n /\ m <= n
    BY <2>2
  <2> QED
    BY <2>1, <2>3
<1>3. Tail(q) # Script(c, FALSE)
  BY <1>2, Zenon
<1> QED
  BY <1>1, <1>2, <1>3 DEF Owed

LEMMA OwedMoves ==
  ASSUME LineInv, OwedInv, NEW s \in Shells, Moves(s)
  PROVE  OwedInv'
<1>1. Owed(todo[s], line[s].command) /\ todo[s] # <<>>
  BY DEF OwedInv, Moves
<1>2. todo'[s] \in {<<>>, todo[s], Tail(todo[s])}
  BY DEF Moves, Read, Step, EndLine, Busy, LineInv
<1>3. \A t \in Shells \ {s} : todo'[t] = todo[t] /\ line'[t] = line[t]
  BY LineMoves
<1>4. todo'[s] # <<>> => line'[s] = line[s]
  BY LineMoves
<1>5. todo'[s] # <<>> => Owed(todo'[s], line'[s].command)
  BY <1>1, <1>2, <1>4, OwedTail
<1> QED
  BY <1>3, <1>5 DEF OwedInv

LEMMA OwedTyped ==
  ASSUME LineInv, OwedInv, NEW s \in Shells, NEW l \in Line, Type(s, l)
  PROVE  OwedInv'
<1>1. l.command \in SemanticCommand
  BY DEF Line
<1>2. Owed(Script(l.command, FALSE), l.command)
  BY <1>1, ScriptOwed
<1>3. /\ line'[s].command = l.command /\ todo'[s] = Script(l.command, FALSE)
      /\ \A t \in Shells \ {s} : todo'[t] = todo[t] /\ line'[t] = line[t]
  BY LineTyped
<1>4. Owed(todo'[s], line'[s].command)
  BY <1>2, <1>3
<1> QED
  BY <1>3, <1>4 DEF OwedInv

(* A change that has an excuse for being shown late: its event is to come, *)
(* or never will.                                                          *)
Owes(s)    == OwesEvent(s) /\ Started(s)
Excused(p) == p \in unsaid \/ \E s \in Shells : Owes(s) /\ Subject(s) = p

(* A step of a line that is not its event keeps the excuses, and gives one *)
(* to the parcel whose row it changes.                                     *)
LEMMA SubjectOf ==
  ASSUME LineInv, NEW s \in Shells, Moves(s), todo'[s] # <<>>
  PROVE  Subject(s)' = Subject(s) /\ line'[s] = line[s]
BY LineMoves DEF Subject

LEMMA StepsOwe ==
  ASSUME LineInv, OwedInv, NEW s \in Shells, Step(s), Moves(s), todo'[s] # <<>>
  PROVE  /\ Started(s)'
         /\ Head(todo[s]) # "invalidate" /\ OwesEvent(s) => OwesEvent(s)'
         /\ Head(todo[s]) \in Changing => OwesEvent(s)'
<1>1. Owed(todo[s], line[s].command) /\ todo[s] # <<>>
  BY DEF OwedInv, Moves
<1>2. todo'[s] = Tail(todo[s]) /\ line'[s].command = line[s].command
  BY LineMoves DEF Step, Busy, LineInv
<1>3. Tail(todo[s]) # Script(line[s].command, FALSE)
  BY <1>1, OwedTail
<1>4. Says(todo[s], line[s].command[2] = "build")
  BY <1>1 DEF Owed
<1>5. /\ Head(todo[s]) # "invalidate" /\ Announced(todo[s]) => Announced(Tail(todo[s]))
      /\ Head(todo[s]) \in Changing => Announced(Tail(todo[s]))
  BY <1>1, <1>4, TailSays
<1>6. Started(s)'
  BY <1>2, <1>3 DEF Started
<1> QED
  BY <1>2, <1>5, <1>6 DEF Announced, OwesEvent

LEMMA ExcusesKept ==
  ASSUME LineInv, OwedInv, NEW s \in Shells, LineStep(s), Moves(s),
         NEW p, Excused(p)
  PROVE  Excused(p)'
<1>1. unsaid \subseteq unsaid'
  BY DEF LineStep
<1>2. ASSUME NEW t \in Shells, t # s, Owes(t), Subject(t) = p
      PROVE  Excused(p)'
  <2>1. todo'[t] = todo[t] /\ line'[t] = line[t]
    BY <1>2, LineMoves
  <2>2. Owes(t)' /\ Subject(t)' = p
    BY <1>2, <2>1 DEF Owes, OwesEvent, Started, Subject
  <2> QED
    BY <2>2 DEF Excused
<1>3. ASSUME Owes(s), Subject(s) = p
      PROVE  Excused(p)'
  <2>1. CASE todo'[s] = <<>>
    <3>1. p \in unsaid'
      BY <1>3, <2>1 DEF LineStep, Owes
    <3> QED
      BY <3>1 DEF Excused
  <2>2. CASE todo'[s] # <<>>
    <3>1. Subject(s)' = p /\ line'[s] = line[s]
      BY <1>3, <2>2, SubjectOf
    <3>2. Owes(s)'
      <4>1. CASE Step(s)
        <5>1. Head(todo[s]) # "invalidate"
          BY <2>2 DEF LineStep, Effects, HangUp, EndLine, Busy, LineInv, EnsureInside,
             EnsureInsideList, OnList, Elsewhere,
             ClaimParcel, TransferParcel, SetRoomMailAuthToken, BuildNowhere, UpdateBuildField,
             PublishBuild, Sheet, CreateBoard, BoardKinds, AwardBadge, RevokeBadge, OwnedBadge,
             AtStatement, AtStep
        <5> QED
          BY <1>3, <2>2, <4>1, <5>1, StepsOwe DEF Owes
      <4>2. CASE EndLine(s)
        BY <2>2, <4>2 DEF EndLine, Busy, LineInv
      <4>3. CASE \E what : Read(s, what)
        BY <1>3, <4>3 DEF Owes, Read, OwesEvent, Started
      <4> QED
        BY <4>1, <4>2, <4>3 DEF Moves
    <3> QED
      BY <3>1, <3>2 DEF Excused
  <2> QED
    BY <2>1, <2>2
<1> QED
  BY <1>1, <1>2, <1>3 DEF Excused

(* The rows that change are those of the line's subject, and only steps    *)
(* that owe an event change them.                                          *)
LEMMA SheetSubject ==
  ASSUME LineInv, OwedInv, NEW s \in Shells, todo[s] # <<>>, Head(todo[s]) \in Changing
  PROVE  Subject(s) = IF Head(todo[s]) \in Sheets THEN line[s].view ELSE line[s].parcel
<1>1. Says(todo[s], line[s].command[2] = "build")
  BY DEF OwedInv, Owed
<1>2. Head(todo[s]) \in Sheets <=> line[s].command[2] = "build"
  BY <1>1, TailSays
<1> QED
  BY <1>2 DEF Subject

LEMMA UpdatesOwe ==
  ASSUME LineInv, OwedInv, NEW s \in Shells, Moves(s), NEW guard, NEW row,
         Head(todo[s]) \in Changing, Update(s, Subject(s), guard, row),
         NEW p \in Parcels, land[p] # land'[p], DOMAIN land = Parcels
  PROVE  Excused(p)'
<1>1. guard /\ land' = [land EXCEPT ![Subject(s)] = row] /\ Step(s)
  BY DEF Update
<1>2. p = Subject(s)
  BY <1>1
<1>3. todo[s] # <<>> /\ Says(todo[s], line[s].command[2] = "build")
  BY DEF OwedInv, Owed, Moves
<1>4. Announced(Tail(todo[s])) /\ todo'[s] = Tail(todo[s])
  BY <1>1, <1>3, TailSays DEF Step, Busy, LineInv
<1>5. todo'[s] # <<>>
  BY <1>4 DEF Announced
<1>6. Owes(s)' /\ Subject(s)' = Subject(s)
  BY <1>1, <1>5, StepsOwe, SubjectOf DEF Owes
<1> QED
  BY <1>2, <1>6 DEF Excused

LEMMA ChangesOwe ==
  ASSUME LineInv, RowsInv, OwedInv, NEW s \in Shells, LineStep(s), Moves(s),
         NEW p \in Parcels, land[p] # land'[p]
  PROVE  Excused(p)'
<1>0. DOMAIN land = Parcels /\ todo[s] # <<>>
  BY DEF RowsInv, PlotsInv, Moves
<1>1. CASE ClaimParcel(s) \/ TransferParcel(s)
  <2>1. Head(todo[s]) \in Changing /\ Head(todo[s]) \notin Sheets
    BY <1>1 DEF ClaimParcel, TransferParcel, AtStep, Changing, Sheets
  <2>2. Subject(s) = line[s].parcel
    BY <1>0, <2>1, SheetSubject
  <2>3. \E guard, row : Update(s, Subject(s), guard, row)
    BY <1>1, <2>2 DEF ClaimParcel, TransferParcel
  <2> QED
    BY <1>0, <2>1, <2>3, UpdatesOwe
<1>2. CASE UpdateBuildField(s) \/ PublishBuild(s)
  <2>1. Head(todo[s]) \in Changing /\ Head(todo[s]) \in Sheets
    BY <1>2 DEF UpdateBuildField, PublishBuild, AtStep, Changing, Sheets
  <2>2. Subject(s) = line[s].view
    BY <1>0, <2>1, SheetSubject
  <2>3. \E guard, row : Update(s, Subject(s), guard, row)
    <3>1. UNCHANGED land \/ \E guard, row : UpdateBuild(s, guard, row)
      BY <1>2 DEF UpdateBuildField, PublishBuild, tables
    <3>2. land' # land
      OBVIOUS
    <3> QED
      BY <2>2, <3>1, <3>2 DEF UpdateBuild
  <2> QED
    BY <1>0, <2>1, <2>3, UpdatesOwe
<1>3. CASE UNCHANGED land
  BY <1>3
<1>4. CASE (\E kind \in BoardKinds : CreateBoard(s, kind)) \/ AwardBadge(s) \/ RevokeBadge(s)
  BY <1>3, <1>4 DEF CreateBoard, AwardBadge, RevokeBadge, OwnedBadge, Untouched, tables
<1>5. CASE \/ EnsureInside(s) \/ Elsewhere(s) \/ SetRoomMailAuthToken(s) \/ BuildNowhere(s)
           \/ HangUp(s) \/ EnsureInsideList(s) \/ OnList(s)
  BY <1>3, <1>5 DEF EnsureInside, Elsewhere, SetRoomMailAuthToken, BuildNowhere, HangUp,
     EnsureInsideList, OnList, Untouched, tables
<1> QED
  BY <1>1, <1>2, <1>4, <1>5 DEF LineStep, Effects

---------------------------------------------------------------------------
(* What the caches hold, and what the lookups bring back.                  *)
Fits(rows, view) == rows \in [Shown(view) -> Plot]
UpToDate(rows, view) == \A p \in Shown(view) : rows[p] = land[p] \/ Excused(p)
Keeps(x, view) == /\ Fits(x.rows, view) /\ x.raced \in BOOLEAN
                  /\ ~x.raced => UpToDate(x.rows, view)

EntriesInv == /\ DOMAIN cache = Entries
              /\ \A k \in Entries : cache[k] = Nothing \/ Keeps(cache[k], k[2])

LookOK(x) ==
  /\ x = [view |-> x.view, at |-> x.at, found |-> x.found, rows |-> x.rows, raced |-> x.raced]
  /\ x.view \in Views /\ x.at \in Nat /\ {x.found, x.raced} \subseteq BOOLEAN
  /\ IF x.found THEN x.at \in 1..Len(Chain(x.view)) /\ Keeps(x, x.view)
                ELSE x.at <= Len(Chain(x.view)) + 1

LooksInv == DOMAIN look = Lookers /\ \A r \in Lookers : LookOK(look[r])

CacheInv == OwedInv /\ EntriesInv /\ LooksInv

LEMMA Chains ==
  ASSUME NEW view \in Views
  PROVE  /\ Len(Chain(view)) \in {2, 3} /\ DOMAIN Chain(view) = 1..Len(Chain(view))
         /\ \A i \in 1..Len(Chain(view)) : <<Chain(view)[i], view>> \in Entries
         /\ Shown(view) \subseteq Parcels
<1>1. CASE view = Street
  BY <1>1 DEF Chain, Entries, Shown, Views
<1>2. CASE view # Street
  BY <1>2 DEF Chain, Entries, Shown, Views
<1> QED
  BY <1>1, <1>2

LEMMA CacheImplies == CacheInv => RoomCacheTypeOK /\ StaleOnlyIfRaced
<1> SUFFICES ASSUME CacheInv PROVE RoomCacheTypeOK /\ StaleOnlyIfRaced
  OBVIOUS
<1>1. StaleOnlyIfRaced
  BY DEF CacheInv, EntriesInv, Keeps, UpToDate, Excused, Owes, StaleOnlyIfRaced
<1>2. ASSUME NEW r \in Lookers PROVE look[r].at \in 0..4 /\ look[r].view \in Views
  <2>1. PICK x : x = look[r]
    OBVIOUS
  <2>2. LookOK(x)
    BY <2>1 DEF CacheInv, LooksInv
  <2>3. x.view \in Views /\ x.at \in Nat /\ x.at <= Len(Chain(x.view)) + 1
    BY <2>2, Chains DEF LookOK
  <2>4. PICK n, at : n = Len(Chain(x.view)) /\ n \in {2, 3} /\ at = x.at
    BY <2>3, Chains
  <2>5. at \in Nat /\ at <= n + 1 /\ (n = 2 \/ n = 3)
    BY <2>3, <2>4
  <2>6. at \in 0..4
    BY <2>5
  <2> QED
    BY <2>1, <2>3, <2>4, <2>6
<1> QED
  BY <1>1, <1>2 DEF CacheInv, EntriesInv, Keeps, Fits, RoomCacheTypeOK

LEMMA CacheInvInit == LandInit /\ RoomCacheInit => CacheInv
<1> SUFFICES ASSUME LandInit, RoomCacheInit PROVE CacheInv
  OBVIOUS
<1>1. OwedInv /\ EntriesInv
  BY DEF LandInit, RoomCacheInit, OwedInv, EntriesInv
<1>2. LookOK(NoLook)
  BY DEF LookOK, NoLook, Views, Chain
<1> QED
  BY <1>1, <1>2 DEF RoomCacheInit, LooksInv, CacheInv

(* When the rows change with an excuse and no excuse is taken away, all    *)
(* that is held may be held on.                                            *)
LEMMA HeldOn ==
  ASSUME CacheInv, UNCHANGED <<cache, look>>, OwedInv',
         \A p \in Parcels : Excused(p) => Excused(p)',
         \A p \in Parcels : land'[p] = land[p] \/ Excused(p)'
  PROVE  CacheInv'
<1>1. ASSUME NEW view \in Views, NEW rows, UpToDate(rows, view) PROVE UpToDate(rows, view)'
  BY <1>1, Chains DEF UpToDate
<1>2. ASSUME NEW x, NEW view \in Views, Keeps(x, view) PROVE Keeps(x, view)'
  BY <1>1, <1>2 DEF Keeps, Fits
<1>3. \A k \in Entries : k[2] \in Views
  BY DEF Entries, Views
<1>4. EntriesInv'
  BY <1>2, <1>3 DEF EntriesInv, CacheInv
<1>5. ASSUME NEW x, LookOK(x) PROVE LookOK(x)'
  BY <1>2, <1>5 DEF LookOK
<1>6. LooksInv'
  BY <1>5 DEF LooksInv, CacheInv
<1> QED
  BY <1>4, <1>6 DEF CacheInv

LEMMA CacheLine ==
  ASSUME LineInv, RowsInv, CacheInv, NEW s \in Shells, LineStep(s)
  PROVE  CacheInv'
<1>1. Moves(s) /\ UNCHANGED <<cache, look>>
  BY StatementsMove DEF LineStep
<1>2. OwedInv /\ OwedInv'
  BY <1>1, OwedMoves DEF CacheInv
<1> QED
  BY <1>1, <1>2, ExcusesKept, ChangesOwe, HeldOn

LEMMA CacheTyped ==
  ASSUME LineInv, CacheInv, NEW s \in Shells, NEW l \in Line, Type(s, l), UNCHANGED cacheVars
  PROVE  CacheInv'
<1>1. UNCHANGED <<land, cache, look, unsaid>>
  BY DEF Type, tables, cacheVars
<1>2. OwedInv'
  BY OwedTyped DEF CacheInv
<1>3. ASSUME NEW p, Excused(p) PROVE Excused(p)'
  <2>1. ASSUME NEW t \in Shells, Owes(t), Subject(t) = p PROVE Excused(p)'
    <3>1. t # s
      BY <2>1 DEF Owes, OwesEvent, Type
    <3>2. todo'[t] = todo[t] /\ line'[t] = line[t]
      BY <3>1, LineTyped
    <3>3. Owes(t)' /\ Subject(t)' = p
      BY <2>1, <3>2 DEF Owes, OwesEvent, Started, Subject
    <3> QED
      BY <3>3 DEF Excused
  <2> QED
    BY <1>1, <1>3, <2>1 DEF Excused
<1> QED
  BY <1>1, <1>2, <1>3, HeldOn

LEMMA CacheUnchanged ==
  ASSUME CacheInv, UNCHANGED <<land, line, todo>>, UNCHANGED cacheVars
  PROVE  CacheInv'
<1>1. UNCHANGED <<cache, look, unsaid>>
  BY DEF cacheVars
<1>2. OwedInv'
  BY DEF CacheInv, OwedInv
<1>3. ASSUME NEW p, Excused(p) PROVE Excused(p)'
  BY <1>1, <1>3 DEF Excused, Owes, OwesEvent, Started, Subject
<1> QED
  BY <1>1, <1>2, <1>3, HeldOn

(* Events. *)
LEMMA CacheDrop ==
  ASSUME CacheInv, NEW keys, Drop(keys), OwedInv', UNCHANGED land,
         \A k \in Entries \ keys : \A p \in Shown(k[2]) : Excused(p) => Excused(p)',
         \A v \in Views : <<"context", v>> \notin keys =>
            \A p \in Shown(v) : Excused(p) => Excused(p)'
  PROVE  CacheInv'
<1>1. EntriesInv'
  <2>1. DOMAIN cache' = Entries
    BY DEF Drop
  <2>2. ASSUME NEW k \in Entries, k \notin keys
        PROVE  cache'[k] = Nothing \/ Keeps(cache[k], k[2])'
    <3>1. PICK x : x = cache[k] /\ x = cache'[k]
      BY <2>2 DEF Drop
    <3>2. x = Nothing \/ Keeps(x, k[2])
      BY <3>1 DEF CacheInv, EntriesInv
    <3>3. UpToDate(x.rows, k[2]) => UpToDate(x.rows, k[2])'
      BY <2>2 DEF UpToDate
    <3>4. x = Nothing \/ Keeps(x, k[2])'
      BY <3>2, <3>3 DEF Keeps, Fits
    <3> QED
      BY <3>1, <3>4
  <2>3. \A k \in Entries : k \in keys => cache'[k] = Nothing
    BY DEF Drop
  <2> QED
    BY <2>1, <2>2, <2>3 DEF EntriesInv
<1>2. LooksInv'
  <2>1. ASSUME NEW r \in Lookers PROVE LookOK(look[r])'
    <3>1. PICK x : x = look[r]
      OBVIOUS
    <3>2. LookOK(x)
      BY <3>1 DEF CacheInv, LooksInv
    <3>3. CASE x.found /\ <<"context", x.view>> \in keys
      <4>1. look'[r] = [x EXCEPT !.raced = TRUE]
        BY <3>1, <3>3 DEF Drop
      <4>2. PICK y : y = [x EXCEPT !.raced = TRUE]
        OBVIOUS
      <4>3. /\ y = [view |-> x.view, at |-> x.at, found |-> x.found, rows |-> x.rows, raced |-> TRUE]
            /\ y.raced /\ y.view = x.view /\ y.at = x.at /\ y.found /\ y.rows = x.rows
        BY <3>2, <3>3, <4>2 DEF LookOK
      <4>4. LookOK(y)'
        BY <3>2, <3>3, <4>3 DEF LookOK, Keeps, Fits
      <4> QED
        BY <4>1, <4>2, <4>4
    <3>4. CASE ~x.found
      <4>1. look'[r] = x
        BY <3>1, <3>4 DEF Drop
      <4>2. LookOK(x)'
        BY <3>2, <3>4 DEF LookOK
      <4> QED
        BY <4>1, <4>2
    <3>5. CASE x.found /\ <<"context", x.view>> \notin keys
      <4>1. look'[r] = x
        BY <3>1, <3>5 DEF Drop
      <4>2. x.view \in Views /\ Keeps(x, x.view)
        BY <3>2, <3>5 DEF LookOK
      <4>3. UpToDate(x.rows, x.view) => UpToDate(x.rows, x.view)'
        BY <3>5, <4>2 DEF UpToDate
      <4>4. Keeps(x, x.view)'
        BY <4>2, <4>3 DEF Keeps, Fits
      <4>5. LookOK(x)'
        BY <3>2, <3>5, <4>4 DEF LookOK
      <4> QED
        BY <4>1, <4>5
    <3> QED
      BY <3>3, <3>4, <3>5, <3>2 DEF LookOK
  <2>2. DOMAIN look' = Lookers
    BY DEF Drop
  <2> QED
    BY <2>1, <2>2 DEF LooksInv
<1> QED
  BY <1>1, <1>2 DEF CacheInv

LEMMA CacheInvalidate ==
  ASSUME LineInv, CacheInv, NEW s \in Shells, InvalidateForParcel(s)
  PROVE  CacheInv'
<1> DEFINE q == Subject(s)
<1>0. Moves(s) /\ UNCHANGED land
  BY StatementsMove DEF InvalidateForParcel, Invalidate, tables
<1>1. OwedInv'
  BY <1>0, OwedMoves DEF CacheInv
<1>2. ASSUME NEW p, p # q, Excused(p) PROVE Excused(p)'
  <2>1. ASSUME NEW t \in Shells, Owes(t), Subject(t) = p PROVE Excused(p)'
    <3>1. t # s
      BY <1>2, <2>1
    <3>2. todo'[t] = todo[t] /\ line'[t] = line[t]
      BY <1>0, <3>1, LineMoves
    <3>3. Owes(t)' /\ Subject(t)' = p
      BY <2>1, <3>2 DEF Owes, OwesEvent, Started, Subject
    <3> QED
      BY <3>3 DEF Excused
  <2> QED
    BY <1>2, <2>1 DEF Excused, InvalidateForParcel
<1>3. Drop(ForParcel(q))
  BY DEF InvalidateForParcel
<1>4. ASSUME NEW k \in Entries, k \notin ForParcel(q), NEW p \in Shown(k[2]) PROVE p # q
  <2> SUFFICES ASSUME p = q PROVE k \in ForParcel(q)
    BY <1>4
  <2>1. ASSUME NEW v \in Views, k = <<"context", v>> PROVE k \in ForParcel(q)
    BY <1>4, <2>1 DEF ForParcel, Shown, Views
  <2>2. ASSUME NEW v \in Parcels, k = <<"binding", v>> PROVE k \in ForParcel(q)
    <3>1. Shown(v) = {v}
      BY LandAssumption DEF Shown
    <3> QED
      BY <1>4, <2>2, <3>1 DEF ForParcel
  <2>3. CASE k \in {<<"bindings", Street>>, <<"parcels", Street>>}
    BY <2>3 DEF ForParcel
  <2> QED
    BY <1>4, <2>1, <2>2, <2>3 DEF Entries
<1>5. ASSUME NEW v \in Views, <<"context", v>> \notin ForParcel(q), NEW p \in Shown(v)
      PROVE  p # q
  BY <1>5 DEF ForParcel, Shown, Views
<1> HIDE DEF q
<1> QED
  BY <1>0, <1>1, <1>2, <1>3, <1>4, <1>5, CacheDrop

LEMMA CacheCleared ==
  ASSUME CacheInv, ClearRoomCache
  PROVE  CacheInv'
<1>1. UNCHANGED <<land, line, todo, unsaid>> /\ Drop(Entries)
  BY DEF ClearRoomCache, landVars, tables, shells
<1>2. OwedInv'
  BY <1>1 DEF CacheInv, OwedInv
<1>3. \A v \in Views : <<"context", v>> \in Entries
  BY DEF Entries
<1> QED
  BY <1>1, <1>2, <1>3, CacheDrop

(* Lookups. *)
LEMMA SameExcuses ==
  ASSUME UNCHANGED landVars, UNCHANGED unsaid
  PROVE  /\ OwedInv => OwedInv' /\ UNCHANGED land
         /\ \A p : Excused(p)' = Excused(p)
         /\ \A rows, view : UpToDate(rows, view)' = UpToDate(rows, view)
<1>1. UNCHANGED <<land, line, todo>>
  BY DEF landVars, tables, shells
<1>2. OwedInv => OwedInv'
  BY <1>1 DEF OwedInv
<1>3. \A p : Excused(p)' = Excused(p)
  BY <1>1 DEF Excused, Owes, OwesEvent, Started, Subject
<1> QED
  BY <1>1, <1>2, <1>3 DEF UpToDate

LEMMA Backs ==
  ASSUME LooksInv, NEW r \in Lookers, NEW rows, NEW raced \in BOOLEAN,
         UNCHANGED landVars, UNCHANGED unsaid,
         Fits(rows, look[r].view), ~raced => UpToDate(rows, look[r].view),
         look[r].at \in 1..(Len(Chain(look[r].view)) + 1),
         Back(r, rows, raced)
  PROVE  LooksInv'
<1>1. PICK x : x = look[r]
  OBVIOUS
<1>2. LookOK(x)
  BY <1>1 DEF LooksInv
<1>3. CASE x.at = 1
  <2>1. look' = [look EXCEPT ![r] = NoLook]
    BY <1>1, <1>3 DEF Back
  <2>2. LookOK(NoLook)'
    BY DEF LookOK, NoLook, Views, Chain
  <2>3. \A q \in Lookers : LookOK(look[q])'
    <3>1. \A q \in Lookers \ {r} : look'[q] = look[q] /\ LookOK(look[q])
      BY <2>1 DEF LooksInv
    <3>2. \A y : LookOK(y)' = LookOK(y)
      BY SameExcuses DEF LookOK, Keeps, Fits
    <3> QED
      BY <2>1, <2>2, <3>1, <3>2 DEF LooksInv
  <2> QED
    BY <2>1, <2>3 DEF LooksInv
<1>4. CASE x.at # 1
  <2>1. PICK y : y = [x EXCEPT !.at = x.at - 1, !.found = TRUE, !.rows = rows,
                               !.raced = x.raced \/ raced]
    OBVIOUS
  <2>2. look' = [look EXCEPT ![r] = y]
    <3>1. look' = [look EXCEPT ![r] =
             IF x.at = 1 THEN NoLook
               ELSE [x EXCEPT !.at = x.at - 1, !.found = TRUE, !.rows = rows,
                              !.raced = x.raced \/ raced]]
      BY <1>1 DEF Back
    <3> QED
      BY <1>4, <2>1, <3>1
  <2>a. /\ y = [view |-> y.view, at |-> y.at, found |-> y.found, rows |-> y.rows, raced |-> y.raced]
        /\ y.view = x.view /\ y.at = x.at - 1 /\ y.found /\ y.rows = rows
        /\ y.raced = (x.raced \/ raced)
    BY <1>2, <2>1 DEF LookOK
  <2>3. LookOK(y)'
    <3>1. PICK n : n = Len(Chain(x.view)) /\ n \in {2, 3}
      BY <1>2, Chains DEF LookOK
    <3>2. x.at \in 1..(n + 1) /\ x.at - 1 \in 1..n /\ x.at - 1 \in Nat
      BY <1>1, <1>4, <3>1
    <3>3. (~raced => UpToDate(rows, x.view)') /\ Fits(rows, x.view)
      BY <1>1, SameExcuses
    <3>4. {x.raced, raced, y.raced} \subseteq BOOLEAN /\ x.view \in Views
      BY <1>2, <2>a DEF LookOK
    <3>5. Keeps(y, x.view)'
      BY <2>a, <3>3, <3>4 DEF Keeps, Fits
    <3> QED
      BY <2>a, <3>1, <3>2, <3>4, <3>5 DEF LookOK
  <2>4. \A q \in Lookers \ {r} : look'[q] = look[q] /\ LookOK(look[q])
    BY <2>2 DEF LooksInv
  <2>5. \A z : LookOK(z)' = LookOK(z)
    BY SameExcuses DEF LookOK, Keeps, Fits
  <2>6. look'[r] = y /\ DOMAIN look' = Lookers
    BY <2>2 DEF LooksInv
  <2>7. \A q \in Lookers : LookOK(look[q])'
    BY <2>3, <2>4, <2>5, <2>6
  <2> QED
    BY <2>6, <2>7 DEF LooksInv
<1> QED
  BY <1>1, <1>2, <1>3, <1>4 DEF LookOK

LEMMA LookupKeeps ==
  ASSUME RowsInv, CacheInv, NEW r \in Lookers, NEW views \in SUBSET Views, LookStep(r, views)
  PROVE  CacheInv'
<1>1. PICK x : x = look[r]
  OBVIOUS
<1>2. LookOK(x) /\ EntriesInv /\ LooksInv
  BY <1>1 DEF CacheInv, LooksInv
<1>3. PICK n : n = Len(Chain(x.view)) /\ n \in {2, 3} /\ DOMAIN Chain(x.view) = 1..n
  BY <1>2, Chains DEF LookOK
<1>4. UNCHANGED landVars /\ UNCHANGED unsaid
  BY DEF LookStep, Look, Get, ReadRows, Put
<1>5. OwedInv'
  BY <1>4, SameExcuses DEF CacheInv
<1>6. \A e, k \in Entries : Keeps(e, k[2])' = Keeps(e, k[2])
  BY <1>4, SameExcuses DEF Keeps, Fits
<1>7. \A z : LookOK(z)' = LookOK(z)
  BY <1>4, SameExcuses DEF LookOK, Keeps, Fits
<1>8. UNCHANGED cache => EntriesInv'
  BY <1>2, <1>4, SameExcuses DEF EntriesInv, Keeps, Fits
<1>9. ASSUME NEW y, LookOK(y), look' = [look EXCEPT ![r] = y] PROVE LooksInv'
  <2>1. \A q \in Lookers : LookOK(look'[q])
    BY <1>2, <1>9 DEF LooksInv
  <2>2. \A q \in Lookers : LookOK(look[q])'
    BY <1>7, <2>1
  <2> QED
    BY <1>2, <1>9, <2>2 DEF LooksInv
<1>10. ASSUME NEW view \in views, Look(r, view) PROVE CacheInv'
  <2>1. LookOK(NoLook) /\ NoLook.at = 0 /\ ~NoLook.found
    BY DEF LookOK, NoLook, Views, Chain
  <2>2. x = NoLook
    BY <1>1, <1>10 DEF Look
  <2>3. PICK y : y = [[x EXCEPT !.view = view] EXCEPT !.at = 1]
    OBVIOUS
  <2>4. look' = [look EXCEPT ![r] = y] /\ UNCHANGED cache
    BY <1>1, <1>2, <1>10, <2>3 DEF Look, LooksInv
  <2>5. /\ y = [view |-> y.view, at |-> y.at, found |-> y.found, rows |-> y.rows, raced |-> y.raced]
        /\ y.view = view /\ y.at = 1 /\ ~y.found /\ y.raced = x.raced
    BY <1>2, <2>1, <2>2, <2>3 DEF LookOK
  <2>a. view \in Views
    BY <1>10
  <2>6. PICK m : m = Len(Chain(view)) /\ m \in {2, 3}
    BY <2>a, Chains
  <2>c. m = 2 \/ m = 3
    BY <2>6
  <2>b. 1 <= m + 1 /\ 1 \in Nat
    BY <2>c
  <2>d. x.raced \in BOOLEAN
    BY <1>2 DEF LookOK
  <2>e. y.at <= Len(Chain(y.view)) + 1
    BY <2>5, <2>6, <2>b
  <2>f. y.view \in Views /\ y.at \in Nat
    BY <2>5, <2>a, <2>b
  <2>g. y.found \in BOOLEAN /\ y.raced \in BOOLEAN
    <3>1. x.found \in BOOLEAN /\ y.found = FALSE
      BY <2>2, <2>3 DEF NoLook
    <3> QED
      BY <2>5, <2>d, <3>1
  <2>7. LookOK(y)
    BY <2>5, <2>e, <2>f, <2>g DEF LookOK
  <2> QED
    BY <1>5, <1>8, <1>9, <2>4, <2>7 DEF CacheInv
<1>11. CASE Get(r)
  <2>0. ~x.found /\ x.at \in 1..n /\ UNCHANGED cache /\ x.view \in Views
    BY <1>1, <1>2, <1>3, <1>11 DEF Get, LookOK
  <2>1. PICK k \in Entries : k = EntryOf(r) /\ k[2] = x.view
    BY <1>1, <1>3, <2>0, Chains DEF EntryOf
  <2>2. CASE cache[k] = Nothing
    <3>1. PICK y : y = [x EXCEPT !.at = x.at + 1]
      OBVIOUS
    <3>2. look' = [look EXCEPT ![r] = y]
      BY <1>1, <1>11, <2>1, <2>2, <3>1 DEF Get
    <3>3. /\ y = [view |-> x.view, at |-> x.at + 1, found |-> x.found, rows |-> x.rows,
                  raced |-> x.raced]
          /\ x.at + 1 \in Nat /\ x.at + 1 <= n + 1
      BY <1>2, <1>3, <2>0, <3>1 DEF LookOK
    <3>4. LookOK(y)
      BY <1>2, <1>3, <2>0, <3>3 DEF LookOK
    <3> QED
      BY <1>5, <1>8, <1>9, <2>0, <3>2, <3>4 DEF CacheInv
  <2>3. CASE cache[k] # Nothing
    <3>1. Keeps(cache[k], x.view)
      BY <1>2, <2>1, <2>3 DEF EntriesInv
    <3>2. Back(r, cache[k].rows, cache[k].raced)
      BY <1>11, <2>1, <2>3 DEF Get
    <3>3. x.at \in 1..(Len(Chain(x.view)) + 1)
      BY <1>3, <2>0
    <3>4. LooksInv'
      BY <1>1, <1>2, <1>4, <3>1, <3>2, <3>3, Backs DEF Keeps
    <3> QED
      BY <1>5, <1>8, <2>0, <3>4 DEF CacheInv
  <2> QED
    BY <2>2, <2>3
<1>12. CASE ReadRows(r)
  <2>1. x.at = n + 1 /\ Back(r, Rows(x.view), FALSE) /\ UNCHANGED cache /\ x.view \in Views
    BY <1>1, <1>2, <1>3, <1>12 DEF ReadRows, LookOK
  <2>2. UpToDate(Rows(x.view), x.view)
    BY DEF UpToDate, Rows
  <2>3. x.at \in 1..(Len(Chain(x.view)) + 1)
    BY <1>3, <2>1
  <2>4. Fits(Rows(x.view), x.view)
    <3>1. Shown(x.view) \subseteq Parcels
      BY <2>1, Chains
    <3> QED
      BY <3>1 DEF Fits, Rows, RowsInv, PlotsInv
  <2>5. LooksInv'
    BY <1>1, <1>2, <1>4, <2>1, <2>2, <2>3, <2>4, Backs
  <2> QED
    BY <1>5, <1>8, <2>1, <2>5 DEF CacheInv
<1>13. CASE Put(r)
  <2>1. x.found /\ x.at \in 1..n /\ x.view \in Views /\ Keeps(x, x.view)
    BY <1>1, <1>2, <1>3, <1>13 DEF Put, LookOK
  <2>2. PICK k \in Entries : k = EntryOf(r) /\ k[2] = x.view
    BY <1>1, <1>3, <2>1, Chains DEF EntryOf
  <2>3. PICK e : e = [rows |-> x.rows, raced |-> x.raced]
    OBVIOUS
  <2>4. cache' = [cache EXCEPT ![k] = e]
    BY <1>1, <1>13, <2>2, <2>3 DEF Put
  <2>5. Keeps(e, k[2])
    BY <2>1, <2>2, <2>3 DEF Keeps
  <2>6. \A j \in Entries : cache'[j] = Nothing \/ Keeps(cache'[j], j[2])
    BY <1>2, <2>4, <2>5 DEF EntriesInv
  <2>7. \A j \in Entries : cache'[j] = Nothing \/ Keeps(cache[j], j[2])'
    BY <1>4, <2>6, SameExcuses DEF Keeps, Fits
  <2>8. EntriesInv'
    BY <1>2, <2>4, <2>7 DEF EntriesInv
  <2>9. x.at \in 1..(Len(Chain(x.view)) + 1) /\ Back(r, x.rows, x.raced)
    BY <1>1, <1>3, <1>13, <2>1 DEF Put
  <2>10. LooksInv'
    BY <1>1, <1>2, <1>4, <2>1, <2>9, Backs DEF Keeps
  <2> QED
    BY <1>5, <2>8, <2>10 DEF CacheInv
<1> QED
  BY <1>10, <1>11, <1>12, <1>13 DEF LookStep

LEMMA CacheKeeps ==
  ASSUME RowsInv, CacheInv, NEW views \in SUBSET Views, CacheStep(views)
  PROVE  CacheInv'
<1>1. ASSUME NEW k \in Entries, Expire(k) PROVE CacheInv'
  <2>1. UNCHANGED landVars /\ UNCHANGED <<unsaid, look>>
        /\ cache' = [cache EXCEPT ![k] = Nothing]
    BY <1>1 DEF Expire
  <2>2. EntriesInv'
    BY <2>1, SameExcuses DEF CacheInv, EntriesInv, Keeps, Fits
  <2>3. LooksInv'
    BY <2>1, SameExcuses DEF CacheInv, LooksInv, LookOK, Keeps, Fits
  <2> QED
    BY <2>1, <2>2, <2>3, SameExcuses DEF CacheInv
<1> QED
  BY <1>1, LookupKeeps, CacheCleared DEF CacheStep
=============================================================================
