---------------------------- MODULE LiveNotices -----------------------------
(***************************************************************************)
(* The SSH server's listener for hinemos_inbox_mail and the presence       *)
(* registry it asks whom to tell.  run_inbox_mail_notify_listener receives *)
(* an id, reads the item, reads the sender's rooms, and computes the       *)
(* recipients under the presence lock; any error ends it for good.         *)
(***************************************************************************)
EXTENDS InboxItems

CONSTANTS
    Connections,    \* SSH connections, each used once
    PlayerOf,       \* the player each connection authenticates as
    ListenerMayFail \* whether a query of the listener may fail in this instance

ASSUME LiveNoticesAssumption ==
    /\ PlayerOf \in [Connections -> Players]
    /\ ListenerMayFail \in BOOLEAN

VARIABLES
    record,         \* the presence record: none, or where its player is
    fresh,          \* connections whose lease of 90 seconds is not over
    channel,        \* connections with a shell or mailbox channel
    kicks,          \* pending_kicks
    hearing,        \* the item it is telling, 0 for none
    senderRoom,     \* whether it found an enabled room of the sender
    live,           \* the notices written to channels: item, connection, kind
    lost            \* items whose notification a lost connection dropped

presenceVars == <<record, fresh, channel, kicks>>
listenerVars == <<listener, hearing, senderRoom, live, lost>>

LiveNoticesInit ==
    /\ record = [c \in Connections |-> "new"]
    /\ fresh = {} /\ channel = {} /\ kicks = {}
    /\ hearing = 0 /\ senderRoom = FALSE
    /\ live = {} /\ lost = {}

-----------------------------------------------------------------------------
(* The registry: mark_online at the end of authentication, attach_channel  *)
(* with the shell or the mailbox, touch with every line, and the lease.    *)
Present(c) == record[c] \in {"street", "room"}

MarkOnline(c) ==
    /\ record[c] = "new"
    /\ record' = [record EXCEPT ![c] = "street"]
    /\ fresh' = fresh \cup {c}
    /\ UNCHANGED <<channel, kicks>>

AttachChannel(c) ==
    /\ Present(c)
    /\ c \notin channel
    /\ channel' = channel \cup {c}
    /\ UNCHANGED <<record, fresh, kicks>>

Touch(c) ==
    /\ Present(c)
    /\ fresh' = fresh \cup {c}
    /\ \E view \in {"street", "room"} : record' = [record EXCEPT ![c] = view]
    /\ UNCHANGED <<channel, kicks>>

LeaseEnds(c) ==
    /\ c \in fresh
    /\ fresh' = fresh \ {c}
    /\ UNCHANGED <<record, channel, kicks>>

(* request_kick knows only connections with a record, and the connection   *)
(* finds out by poll_kick when it next sends a byte.                       *)
RequestKick(c) ==
    /\ Present(c)
    /\ kicks' = kicks \cup {c}
    /\ UNCHANGED <<record, fresh, channel>>

PollKick(c) ==
    /\ c \in channel \cap kicks
    /\ kicks' = kicks \ {c}
    /\ UNCHANGED <<record, fresh, channel>>

EndPresenceKeepingKick(c) ==
    /\ Present(c)
    /\ record' = [record EXCEPT ![c] = "gone"]
    /\ fresh' = fresh \ {c}
    /\ channel' = channel \ {c}
    /\ UNCHANGED kicks

(* Drop of the handler: the record and a kick not polled go together. *)
EndPresence(c) ==
    /\ Present(c)
    /\ record' = [record EXCEPT ![c] = "gone"]
    /\ fresh' = fresh \ {c}
    /\ channel' = channel \ {c}
    /\ kicks' = kicks \ {c}

PresenceStep(c) == \/ MarkOnline(c) \/ AttachChannel(c) \/ Touch(c) \/ LeaseEnds(c)
                   \/ RequestKick(c) \/ PollKick(c) \/ EndPresence(c)

-----------------------------------------------------------------------------
(* direct_recipients: fresh records of the player that have a channel. *)
DirectRecipients(p) == {c \in fresh \cap channel : Present(c) /\ PlayerOf[c] = p}

DirectRecipientsInView(p) == {c \in DirectRecipients(p) : record[c] = "room"}

Receive ==
    /\ listener = "receive"
    /\ notices # <<>>
    /\ hearing' = Head(notices)
    /\ notices' = Tail(notices)
    /\ listener' = "item"
    /\ UNCHANGED <<senderRoom, live, lost>>

(* PgListener connects again by itself; what was sent meanwhile is lost. *)
LoseConnection ==
    /\ ListenerMayFail
    /\ listener = "receive"
    /\ notices # <<>>
    /\ lost' = lost \cup {notices[n] : n \in 1..Len(notices)}
    /\ notices' = <<>>
    /\ UNCHANGED <<listener, hearing, senderRoom, live>>

(* inbox_item(id)?, then service_rooms_by_room_user(sender)?. *)
ReadItem ==
    /\ listener = "item"
    /\ listener' = IF hearing \in Ids THEN "rooms" ELSE "ended"
    /\ UNCHANGED <<hearing, senderRoom, live, lost, notices>>

ReadRooms ==
    /\ listener = "rooms"
    /\ listener' = "tell"
    /\ senderRoom' = (roomEnabled /\ inbox[hearing].from = RoomPlayer)
    /\ UNCHANGED <<hearing, live, lost, notices>>

QueryFails ==
    /\ ListenerMayFail
    /\ listener \in {"item", "rooms"}
    /\ listener' = "ended"
    /\ hearing' = 0
    /\ UNCHANGED <<senderRoom, live, lost, notices>>

(* A notice to every channel of the recipient; for a room's letter, one in *)
(* the room's name too, to those that are in the room.                     *)
Recipients == LET p == inbox[hearing].to
              IN  (DirectRecipients(p) \X {"mail"})
                     \cup (IF senderRoom THEN DirectRecipientsInView(p) ELSE {}) \X {"room"}

TellAndDrain ==
    /\ listener = "tell"
    /\ live' = live \cup {<<hearing, r[1], r[2]>> : r \in Recipients}
    /\ listener' = "receive"
    /\ hearing' = 0
    /\ senderRoom' = FALSE
    /\ notices' = <<>>
    /\ UNCHANGED lost

Tell ==
    /\ listener = "tell"
    /\ live' = live \cup {<<hearing, r[1], r[2]>> : r \in Recipients}
    /\ listener' = "receive"
    /\ hearing' = 0
    /\ senderRoom' = FALSE
    /\ UNCHANGED <<lost, notices>>

ListenerProgress == Receive \/ ReadItem \/ ReadRooms \/ Tell
ListenerStep == ListenerProgress \/ LoseConnection \/ QueryFails

-----------------------------------------------------------------------------
LiveNoticesTypeOK ==
    /\ record \in [Connections -> {"new", "street", "room", "gone"}]
    /\ fresh \subseteq Connections /\ channel \subseteq Connections
    /\ listener \in {"receive", "item", "rooms", "tell", "ended"}
    /\ hearing \in Nat
    /\ live \subseteq (1..MaxItems) \X Connections \X {"mail", "room"}

(* presence.remove: no kick waits for a connection that is gone, and no    *)
(* lease or channel is left of it, whatever order a kick, a line and the   *)
(* end of the connection come in.                                          *)
NothingLeftOfTheGone ==
    \A c \in Connections : record[c] \in {"new", "gone"}
                               => c \notin kicks \cup fresh \cup channel

(* run_inbox_mail_notify_listener tells every item it is notified of to    *)
(* every connection that stays to hear it: nothing but an error, a lost    *)
(* connection, or the listener's own choice of recipients is in between.   *)
ListenedFor(id, c) == /\ \E n \in 1..Len(notices) : notices[n] = id
                      /\ c \in DirectRecipients(inbox[id].to)

ConnectionsAreTold ==
    \A id \in 1..MaxItems, c \in Connections :
        (id \in Ids /\ ListenedFor(id, c))
            ~> \/ <<id, c, "mail">> \in live
               \/ c \notin fresh \cap channel
               \/ listener = "ended" \/ id \in lost
=============================================================================
