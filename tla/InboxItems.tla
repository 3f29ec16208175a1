----------------------------- MODULE InboxItems -----------------------------
(***************************************************************************)
(* The table inbox_items and the channel hinemos_inbox_mail: what one      *)
(* statement of crates/storage/src/messages.rs does to them.  The modules  *)
(* that run those statements (MailCalls, MailSidecar) and the one that     *)
(* listens (LiveNotices) extend this one.                                  *)
(*                                                                         *)
(* An item's id is its place in inbox.  An insert draws its id first and   *)
(* shows its row when it commits, so a row may come after one of a higher  *)
(* id; an id that a conflict or an error leaves without a row stays so.    *)
(* The lease and the attempts of an item are left out, since no statement  *)
(* tests them.                                                             *)
(***************************************************************************)
EXTENDS Naturals, Sequences, FiniteSets

CONSTANTS
    Players,        \* recipients and senders, room principals among them
    Letters,        \* mails that are written: one world_messages row each
    RoomPlayer,     \* the principal of the service room
    MaxItems,       \* bound on the rows of inbox_items
    None            \* no letter, no source

VARIABLES
    inbox,          \* inbox_items, in the order of their ids
    listener,       \* where the listener is, "ended" when nobody listens
    notices,        \* notifications sent and not yet received by the listener
    roomEnabled     \* service_rooms.enabled of the room

Open     == {"unread", "claimed"}
Finished == {"acked", "archived"}

Ids == 1..Len(inbox)

Item == [to : Players \cup {None}, from : Players \cup {None}, letter : Letters \cup {None}, source : Seq(Nat),
         kind : {"mail", "room_command", "room_reply", "post"},
         status : Open \cup Finished]

ItemsTypeOK == /\ roomEnabled \in BOOLEAN
               /\ inbox \in Seq(Item)
               /\ Len(inbox) <= MaxItems
               /\ notices \in Seq(Nat)

NewItem(from, to, letter, kind, source) ==
    [to |-> to, from |-> from, letter |-> letter, kind |-> kind, source |-> source,
     status |-> "unread"]

(* unique (source_kind, source_id, recipient_player_id): a null source_id, *)
(* here the empty sequence, conflicts with nothing.                        *)
Existing(item) == {i \in Ids : /\ item.source # <<>>
                               /\ inbox[i].kind = item.kind
                               /\ inbox[i].source = item.source
                               /\ inbox[i].to = item.to}

(* insert ... on conflict do update ... returning id.  First the id, which *)
(* is the item of nobody yet: no reader finds it.                          *)
Drawn == NewItem(None, None, None, "mail", <<>>)

DrawId == Len(inbox) < MaxItems /\ inbox' = Append(inbox, Drawn)

InsertAlways(item, drawn, id) ==    \* a mutant: no unique key
    id = drawn /\ inbox' = [inbox EXCEPT ![drawn] = item]

(* Then the row, when it commits; one that conflicts has waited for the    *)
(* other's commit.                                                         *)
InsertItem(item, drawn, id) ==
    IF Existing(item) # {}
      THEN id \in Existing(item) /\ UNCHANGED inbox
      ELSE id = drawn /\ inbox' = [inbox EXCEPT ![drawn] = item]

(* select pg_notify('hinemos_inbox_mail', id): every kind modelled here is *)
(* one that triggers it.  Without a session that listens it goes nowhere.  *)
SendNotice(id) == notices' = IF listener # "ended" THEN Append(notices, id)
                                                   ELSE notices

SetStatus(id, status) == inbox' = [inbox EXCEPT ![id].status = status]

(* update ... where id and recipient and status in ('unread', 'claimed'):  *)
(* no row, an error.                                                       *)
ClaimAnyInboxItem(p, id) ==
    /\ inbox[id].to = p
    /\ SetStatus(id, "claimed")

ClaimInboxItem(p, id) ==
    /\ inbox[id].to = p
    /\ inbox[id].status \in Open
    /\ SetStatus(id, "claimed")

(* update ... where id and recipient, whatever the status was. *)
FinishInboxItem(p, id, status) ==
    /\ status \in Finished
    /\ inbox[id].to = p
    /\ SetStatus(id, status)

NewestItemsAndOne(p, limit) ==
    LET mine == {i \in Ids : inbox[i].to = p}
    IN  {i \in mine : Cardinality({j \in mine : j > i}) <= limit}

(* list_inbox_items(.., 'all', limit): the newest rows, newest first. *)
NewestItems(p, limit) ==
    LET mine == {i \in Ids : inbox[i].to = p}
    IN  {i \in mine : Cardinality({j \in mine : j > i}) < limit}

-----------------------------------------------------------------------------
(* claim_inbox_item and finish_inbox_item of two connections of a player,  *)
(* in any order: what is acked or archived never becomes open again.       *)
DoneItemsStayDone ==
    [][\A i \in Ids : inbox[i].status \in Finished
                          => inbox'[i].status \in Finished]_<<inbox>>
=============================================================================
