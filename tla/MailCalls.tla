----------------------------- MODULE MailCalls ------------------------------
(***************************************************************************)
(* The calls that put mail in inboxes: a letter (/mail, the SMTP sidecar's *)
(* DATA, a room's reply), a line forwarded to a service room, and a post   *)
(* to a parcel's mailing list, beside the list's creation, its             *)
(* subscriptions and its close.                                            *)
(*                                                                         *)
(* Every statement is a step and commits by itself, but for a post and its *)
(* delivery rows.  todo[s] holds the statements session s has yet to       *)
(* issue, call[s] its arguments and read[s] what it has read.              *)
(***************************************************************************)
EXTENDS InboxItems, SequencesExt

CONSTANTS
    Sessions,       \* callers that run one operation at a time
    Owner,          \* the owner of the built parcel
    MaxPosts        \* bound on the rows of parcel_mailing_list_posts

LetterOps == {"mail", "reply", "ask"}
ListOps   == {"create", "subscribe", "unsubscribe", "close", "post", "redeliver"}

(* A letter goes to somebody; a room's line, to the room's principal. *)
MailCall == {c \in [op : LetterOps \cup ListOps, by : Players, to : Seq(Players),
                    letter : Letters \cup {None}] :
                /\ c.op \in LetterOps <=> c.letter # None
                /\ c.op \in LetterOps => c.to # <<>>
                /\ c.op = "ask" => c.to = <<RoomPlayer>>}

ASSUME MailCallsAssumption ==
    /\ None \notin Letters \cup Players
    /\ IsFiniteSet(Players)
    /\ Owner \in Players /\ RoomPlayer \in Players
    /\ {MaxItems, MaxPosts} \subseteq Nat

VARIABLES
    written,        \* letters with a row in world_messages
    remembered,     \* letters whose memory events are appended
    list,           \* parcel_mailing_lists.status, or "none"
    membership,     \* parcel_mailing_list_subscriptions, by player
    deliveries,     \* per post: player -> its inbox item, 0 before the link
    answered,       \* letters whose call has returned Ok, and to whom
    sent,           \* posts whose send or redelivery has returned Ok
    todo, call, read

lists  == <<list, membership, deliveries, sent>>
mails  == <<written, remembered, answered>>
callers == <<todo, call, read>>
mailVars == <<inbox, notices, mails, roomEnabled, lists, callers>>

NoRead == [id |-> 0, kind |-> "mail", due |-> <<>>, post |-> 0, ids |-> {}]
NoCall == [op |-> "create", by |-> Owner, to |-> <<>>, letter |-> None]

(* The statements of each operation; those of a letter and of a delivery   *)
(* are repeated for each recipient.                                        *)
OneLetter   == <<"message", "source", "draw", "item", "notify", "memory">>
OneDelivery == <<"draw", "item", "notify", "link">>

Statements(op) ==
    CASE op \in {"mail", "reply"} -> OneLetter
      [] op = "ask"         -> OneLetter \o <<"number">>
      [] op = "create"      -> <<"absent", "create">>
      [] op = "subscribe"   -> <<"open", "outside", "subscribe">>
      [] op = "unsubscribe" -> <<"found", "unsubscribe">>
      [] op = "close"       -> <<"owned", "close">>
      [] op = "post"        -> <<"found", "allowed", "recipients", "post">>
      [] op = "redeliver"   -> <<"deliveries">>

At(s, label) == todo[s] # <<>> /\ Head(todo[s]) = label

Goto(s, script) == todo' = [todo EXCEPT ![s] = script]

EndCall(s) == /\ Goto(s, <<>>)
              /\ call' = [call EXCEPT ![s] = NoCall]
              /\ read' = [read EXCEPT ![s] = NoRead]

(* On to the next statement; the call is over after its last one. *)
Advance(s) == IF Len(todo[s]) = 1 THEN EndCall(s)
                                  ELSE Goto(s, Tail(todo[s])) /\ UNCHANGED <<call, read>>

-----------------------------------------------------------------------------
MailCallsInit ==
    /\ inbox = <<>>
    /\ notices = <<>>
    /\ written = {} /\ remembered = {} /\ answered = {}
    /\ roomEnabled = TRUE
    /\ list = "none"
    /\ membership = [p \in Players |-> "none"]
    /\ deliveries = <<>> /\ sent = {}
    /\ todo = [s \in Sessions |-> <<>>]
    /\ call = [s \in Sessions |-> NoCall]
    /\ read = [s \in Sessions |-> NoRead]

InFlight == {call[s].letter : s \in Sessions} \cup written

BeginCall(s, c) ==
    /\ todo[s] = <<>>
    /\ c.letter = None \/ c.letter \notin InFlight
    /\ c.op = "reply" => c.by = RoomPlayer
    /\ Goto(s, Statements(c.op))
    /\ call' = [call EXCEPT ![s] = c]
    /\ read' = [read EXCEPT ![s].due = c.to,
                            ![s].post = IF c.op = "redeliver" THEN Len(deliveries)
                                                              ELSE 0]
    /\ UNCHANGED <<inbox, notices, mails, roomEnabled, lists>>

-----------------------------------------------------------------------------
(* A letter: the message row, its source, the item, its notification, the  *)
(* memory events of both sides.                                            *)
WriteMessage(s) ==
    /\ At(s, "message")
    /\ written' = written \cup {call[s].letter}
    /\ Advance(s)
    /\ UNCHANGED <<inbox, notices, remembered, answered, roomEnabled, lists>>

(* mail_inbox_source: a subject "Re: #N" of an enabled room's principal is *)
(* its reply; anyone else's is plain mail.                                 *)
ReadSource(s) ==
    /\ At(s, "source")
    /\ Goto(s, Tail(todo[s]))
    /\ read' = [read EXCEPT ![s].kind =
                   IF call[s].op = "reply" /\ roomEnabled THEN "room_reply" ELSE "mail"]
    /\ UNCHANGED <<inbox, notices, mails, roomEnabled, lists, call>>

ItemFor(s) ==
    IF read[s].post # 0
      THEN NewItem(call[s].by, Head(read[s].due), None, "post", <<read[s].post>>)
      ELSE NewItem(call[s].by, Head(read[s].due), call[s].letter, read[s].kind, <<>>)

(* create_inbox_item: the insert in its two steps. *)
DrawItemId(s) ==
    /\ At(s, "draw")
    /\ DrawId
    /\ read' = [read EXCEPT ![s].id = Len(inbox) + 1]
    /\ Goto(s, Tail(todo[s]))
    /\ UNCHANGED <<notices, mails, roomEnabled, lists, call>>

CreateInboxItem(s) ==
    /\ At(s, "item")
    /\ \E id \in Ids :
          /\ InsertItem(ItemFor(s), read[s].id, id)
          /\ read' = [read EXCEPT ![s].id = id]
    /\ Goto(s, Tail(todo[s]))
    /\ UNCHANGED <<notices, mails, roomEnabled, lists, call>>

NotifyInbox(s) ==
    /\ At(s, "notify")
    /\ SendNotice(read[s].id)
    /\ Goto(s, Tail(todo[s]))
    /\ UNCHANGED <<inbox, mails, roomEnabled, lists, call, read>>

RecordMemoryOnce(s) ==
    /\ At(s, "memory")
    /\ remembered' = remembered \cup {call[s].letter}
    /\ answered' = answered \cup {<<call[s].letter, call[s].to>>}
    /\ Advance(s)
    /\ UNCHANGED <<inbox, notices, written, roomEnabled, lists>>

(* After the memory of one recipient the next one's letter is written      *)
(* (handle_smtp_data); after the last the caller has its answer, but for a *)
(* room's line, which is numbered first.                                   *)
RecordMemory(s) ==
    LET left == Tail(read[s].due)
    IN  /\ At(s, "memory")
        /\ remembered' = remembered \cup {call[s].letter}
        /\ answered' = IF left = <<>> /\ call[s].op # "ask"
                         THEN answered \cup {<<call[s].letter, call[s].to>>}
                         ELSE answered
        /\ IF left # <<>>
             THEN /\ Goto(s, OneLetter)
                  /\ read' = [read EXCEPT ![s].due = left]
                  /\ UNCHANGED call
             ELSE Advance(s)
        /\ UNCHANGED <<inbox, notices, written, roomEnabled, lists>>

(* save_room_mailbox_input: the item, mailed like any other, becomes       *)
(* request #id by an update of its own.                                    *)
NumberWith(s, id) ==
    /\ At(s, "number")
    /\ inbox' = [inbox EXCEPT ![read[s].id].kind = "room_command",
                              ![read[s].id].source = <<id>>]
    /\ answered' = answered \cup {<<call[s].letter, call[s].to>>}
    /\ EndCall(s)
    /\ UNCHANGED <<notices, written, remembered, roomEnabled, lists>>

NumberRequestLatest(s) == NumberWith(s, Len(inbox))
NumberRequest(s)       == NumberWith(s, read[s].id)

-----------------------------------------------------------------------------
(* The mailing list of the parcel: what the next statement must find. *)
Finds(s) ==
    LET p == call[s].by
    IN  \/ At(s, "absent")  /\ p = Owner /\ list = "none"
        \/ At(s, "found")   /\ list # "none"
        \/ At(s, "open")    /\ list = "open"
        \/ At(s, "outside") /\ membership[p] # "active"
        \/ At(s, "owned")   /\ p = Owner /\ list # "none"
        \/ At(s, "allowed") /\ (p = Owner \/ membership[p] = "active")

Checks == {"absent", "found", "open", "outside", "owned", "allowed"}

CheckList(s) ==
    /\ \E label \in Checks : At(s, label)
    /\ IF Finds(s) THEN Advance(s) ELSE EndCall(s)
    /\ UNCHANGED <<inbox, notices, mails, roomEnabled, lists>>

(* unique (parcel_id, slug): of two creations the second insert fails. *)
CreateList(s) ==
    /\ At(s, "create")
    /\ list' = IF list = "none" THEN "open" ELSE list
    /\ EndCall(s)
    /\ UNCHANGED <<inbox, notices, mails, roomEnabled, membership, deliveries, sent>>

CloseList(s) ==
    /\ At(s, "close")
    /\ list' = "closed"
    /\ EndCall(s)
    /\ UNCHANGED <<inbox, notices, mails, roomEnabled, membership, deliveries, sent>>

SetMembership(s, label, status) ==
    /\ At(s, label)
    /\ membership' = [membership EXCEPT ![call[s].by] = status]
    /\ EndCall(s)
    /\ UNCHANGED <<inbox, notices, mails, roomEnabled, list, deliveries, sent>>

Subscribe(s)   == SetMembership(s, "subscribe", "active")
Unsubscribe(s) == SetMembership(s, "unsubscribe", "unsubscribed")

Anybody == {p \in Players : membership[p] # "none"} \cup {Owner}

(* active_subscription_recipients; none is an error. *)
Active == {p \in Players : membership[p] = "active"}

ReadRecipients(s) ==
    /\ At(s, "recipients")
    /\ IF Active = {}
         THEN EndCall(s)
         ELSE /\ read' = [read EXCEPT ![s].ids = Active]
              /\ Goto(s, Tail(todo[s]))
              /\ UNCHANGED call
    /\ UNCHANGED <<inbox, notices, mails, roomEnabled, lists>>

(* The post and a delivery row per recipient, in one transaction. *)
InsertPost(s) ==
    /\ At(s, "post")
    /\ Len(deliveries) < MaxPosts
    /\ deliveries' = Append(deliveries, [p \in read[s].ids |-> 0])
    /\ read' = [read EXCEPT ![s].post = Len(deliveries) + 1]
    /\ Goto(s, <<"deliveries">>)
    /\ UNCHANGED <<inbox, notices, mails, roomEnabled, list, membership, sent, call>>

(* deliver_parcel_mailing_list_post: all of the post's rows, also those    *)
(* that were delivered before, one after the other.                        *)
ReadDeliveries(s) ==
    /\ At(s, "deliveries")
    /\ IF read[s].post = 0
         THEN EndCall(s)                        \* post not found
         ELSE /\ \E q \in SetToSeqs(DOMAIN deliveries[read[s].post]) :
                    read' = [read EXCEPT ![s].due = q, ![s].ids = {}]
              /\ Goto(s, OneDelivery)
              /\ UNCHANGED call
    /\ UNCHANGED <<inbox, notices, mails, roomEnabled, lists>>

LinkTo(s, id) ==
    LET n == read[s].post
        left == Tail(read[s].due)
    IN  /\ At(s, "link")
        /\ deliveries' = [deliveries EXCEPT ![n][Head(read[s].due)] = id]
        /\ sent' = IF left = <<>> THEN sent \cup {n} ELSE sent
        /\ IF left = <<>>
             THEN EndCall(s)
             ELSE /\ Goto(s, OneDelivery)
                  /\ read' = [read EXCEPT ![s].due = left]
                  /\ UNCHANGED call
        /\ UNCHANGED <<inbox, notices, mails, roomEnabled, list, membership>>

LinkDeliveryLatest(s) == LinkTo(s, Len(inbox))

LinkDelivery(s) == LinkTo(s, read[s].id)

-----------------------------------------------------------------------------
(* A statement fails or the caller's connection goes: what was committed   *)
(* stays.                                                                  *)
AbandonCall(s) ==
    /\ todo[s] # <<>>
    /\ EndCall(s)
    /\ UNCHANGED <<inbox, notices, mails, roomEnabled, lists>>

(* A reload enables the rooms of its files and disables the others. *)
SetRoomEnabled ==
    /\ roomEnabled' = ~roomEnabled
    /\ UNCHANGED <<inbox, notices, mails, lists, callers>>

MailStatement(s) ==
    \/ WriteMessage(s) \/ ReadSource(s) \/ DrawItemId(s) \/ CreateInboxItem(s)
    \/ NotifyInbox(s) \/ RecordMemory(s) \/ NumberRequest(s)
    \/ CheckList(s) \/ CreateList(s) \/ CloseList(s) \/ Subscribe(s)
    \/ Unsubscribe(s) \/ ReadRecipients(s) \/ InsertPost(s)
    \/ ReadDeliveries(s) \/ LinkDelivery(s)

CallerStep(s, menu) == \/ \E c \in menu : BeginCall(s, c)
                       \/ MailStatement(s)
                       \/ AbandonCall(s)

-----------------------------------------------------------------------------
MailCallsTypeOK ==
    /\ ItemsTypeOK
    /\ {written, remembered} \subseteq SUBSET Letters
    /\ list \in {"none", "open", "closed"}
    /\ membership \in [Players -> {"none", "active", "unsubscribed"}]
    /\ \A n \in 1..Len(deliveries) : \A p \in DOMAIN deliveries[n] :
           p \in Players /\ deliveries[n][p] \in 0..Len(inbox)
    /\ sent \subseteq 1..Len(deliveries)
    /\ call \in [Sessions -> MailCall]

(* save_mail_message_to_principal: whatever stops the call, a letter in an *)
(* inbox has its row in world_messages, and a letter whose caller was      *)
(* answered is in the inbox of everybody it was for.                       *)
AnsweredLettersArrived ==
    /\ \A i \in Ids : inbox[i].letter # None => inbox[i].letter \in written
    /\ \A a \in answered : \A n \in 1..Len(a[2]) :
           \E i \in Ids : inbox[i].letter = a[1] /\ inbox[i].to = a[2][n]

(* A room's line is request #N of its own inbox item: two lines at the     *)
(* same time, or a stop in between, never give one the other's number.     *)
RequestsNumberThemselves ==
    \A i \in Ids : inbox[i].kind = "room_command" =>
        inbox[i].source = <<i>> /\ inbox[i].to = RoomPlayer

(* deliver_parcel_mailing_list_post, "idempotently": however often a post  *)
(* is delivered, at once or again after a stop, a recipient has it once,   *)
(* and every link is to the recipient's own item of that post.             *)
PostsArriveOnce ==
    /\ \A i, j \in Ids :
           inbox[i].kind = "post" /\ inbox[j].kind = "post"
               /\ inbox[i].source = inbox[j].source /\ inbox[i].to = inbox[j].to
               => i = j
    /\ \A n \in 1..Len(deliveries) : \A p \in DOMAIN deliveries[n] :
           LET id == deliveries[n][p]
           IN  id # 0 => inbox[id].to = p /\ inbox[id].source = <<n>>

(* send_parcel_mailing_list_post has answered: every player who was a      *)
(* subscriber when it read them has the post, whoever left or closed the   *)
(* list meanwhile; nobody who never subscribed has one.                    *)
SentPostsReachSubscribers ==
    \A n \in 1..Len(deliveries) : \A p \in DOMAIN deliveries[n] :
        /\ membership[p] # "none"
        /\ n \in sent => deliveries[n][p] # 0
=============================================================================
