---------------------------- MODULE MailSidecar -----------------------------
(***************************************************************************)
(* The IMAP half of the mail sidecar.  A session keeps `selected', the     *)
(* mailbox as it was when it was last loaded; message numbers are places   *)
(* in it.  The client's side is what it has been told: how many messages   *)
(* exist (EXISTS) and which item answered the number it fetched.  Items    *)
(* are acked through STORE +FLAGS (\Seen).                                 *)
(*                                                                         *)
(* The client is the agent the server's own instructions describe: IDLE    *)
(* until EXISTS, FETCH the newest message, STORE, IDLE again.              *)
(***************************************************************************)
EXTENDS InboxItems, SequencesExt

CONSTANTS
    Clients,        \* IMAP connections
    Window          \* how many items list_inbox_items returns: 500

ASSUME MailSidecarAssumption == Window \in Nat \ {0}

VARIABLES
    login,          \* the player each client is authenticated as, or None
    selected,       \* session.selected: item ids
    idling,         \* clients inside IDLE
    known,          \* known_exists of the IDLE loop
    told,           \* the last EXISTS the client was sent
    fetched,        \* the number the client fetched last and its item
    shown           \* what was selected when it fetched that (history)

imapVars == <<login, selected, idling, known, told, fetched, shown>>

Nothing == <<0, 0>>

MailSidecarInit ==
    /\ login = [c \in Clients |-> None]
    /\ selected = [c \in Clients |-> <<>>]
    /\ idling = {}
    /\ known = [c \in Clients |-> 0]
    /\ told = [c \in Clients |-> 0]
    /\ fetched = [c \in Clients |-> Nothing]
    /\ shown = [c \in Clients |-> <<>>]

-----------------------------------------------------------------------------
(* The numbers of a set, in their order. *)
Place(i, S)  == Cardinality({j \in S : j <= i})
Ascending(S) == [n \in 1..Cardinality(S) |-> CHOOSE i \in S : Place(i, S) = n]

(* load_imap_mailbox: the newest Window items, in the order of their ids. *)
NewestFirst(p) == Reverse(Ascending(NewestItems(p, Window)))

Mailbox(p) == Ascending(NewestItems(p, Window))

(* ensure_imap_selected: an empty selection is loaded again. *)
Ensured(c) == IF selected[c] = <<>> THEN Mailbox(login[c]) ELSE selected[c]

(* The client has no number to act on. *)
Forget(c) == /\ fetched' = [fetched EXCEPT ![c] = Nothing]
             /\ shown' = [shown EXCEPT ![c] = <<>>]

Ready(c) == login[c] # None /\ c \notin idling

(* LOGIN and AUTHENTICATE, also of a session that is logged in: what it    *)
(* has selected stays; the client knows nothing of the new account.        *)
Login(c, p) ==
    /\ c \notin idling
    /\ login' = [login EXCEPT ![c] = p]
    /\ told' = [told EXCEPT ![c] = 0]
    /\ Forget(c)
    /\ UNCHANGED <<selected, idling, known>>

(* SELECT and EXAMINE. *)
Select(c) ==
    /\ Ready(c)
    /\ selected' = [selected EXCEPT ![c] = Mailbox(login[c])]
    /\ told' = [told EXCEPT ![c] = Len(selected'[c])]
    /\ Forget(c)
    /\ UNCHANGED <<login, idling, known>>

(* CLOSE. *)
CloseMailbox(c) ==
    /\ Ready(c)
    /\ selected' = [selected EXCEPT ![c] = <<>>]
    /\ told' = [told EXCEPT ![c] = 0]
    /\ Forget(c)
    /\ UNCHANGED <<login, idling, known>>

(* What FETCH of a number answers, and what STORE does to it: the ack's    *)
(* error is dropped, and a number beyond the selection is passed over.     *)
Answer(n, items) == IF n <= Len(items) THEN <<n, items[n]>> ELSE Nothing

AckNumber(p, n, items) ==
    IF n <= Len(items) /\ inbox[items[n]].to = p
      THEN FinishInboxItem(p, items[n], "acked")
      ELSE UNCHANGED inbox

(* FETCH of the newest message it was told of.  SEARCH loads an empty      *)
(* selection likewise.                                                     *)
Fetch(c) ==
    /\ Ready(c)
    /\ told[c] > 0
    /\ selected' = [selected EXCEPT ![c] = Ensured(c)]
    /\ fetched' = [fetched EXCEPT ![c] = Answer(told[c], selected'[c])]
    /\ shown' = [shown EXCEPT ![c] = selected'[c]]
    /\ UNCHANGED <<login, idling, known, told>>

(* STORE of the number it fetched, then the mailbox is loaded again.       *)
Store(c) ==
    /\ Ready(c)
    /\ fetched[c] # Nothing
    /\ AckNumber(login[c], fetched[c][1], Ensured(c))
    /\ selected' = [selected EXCEPT ![c] = Mailbox(login[c])]
    /\ Forget(c)
    /\ UNCHANGED <<login, idling, known, told>>

(* IDLE: known_exists is the length of what is selected, whether or not    *)
(* the client was told of it.                                              *)
StartIdle(c) ==
    /\ Ready(c)
    /\ selected' = [selected EXCEPT ![c] = Ensured(c)]
    /\ idling' = idling \cup {c}
    /\ known' = [known EXCEPT ![c] = Len(selected'[c])]
    /\ UNCHANGED <<login, told, fetched, shown>>

(* Every second: load, and tell if the length is not the known one. *)
PollIdle(c) ==
    /\ c \in idling
    /\ selected' = [selected EXCEPT ![c] = Mailbox(login[c])]
    /\ known' = [known EXCEPT ![c] = Len(selected'[c])]
    /\ told' = IF Len(selected'[c]) # known[c]
                 THEN [told EXCEPT ![c] = Len(selected'[c])] ELSE told
    /\ UNCHANGED <<login, idling, fetched, shown>>

Done(c) ==
    /\ c \in idling
    /\ idling' = idling \ {c}
    /\ known' = [known EXCEPT ![c] = 0]
    /\ UNCHANGED <<login, selected, told, fetched, shown>>

(* LOGOUT, or the connection ends; the client may connect again. *)
Logout(c) ==
    /\ login[c] # None
    /\ login' = [login EXCEPT ![c] = None]
    /\ selected' = [selected EXCEPT ![c] = <<>>]
    /\ idling' = idling \ {c}
    /\ known' = [known EXCEPT ![c] = 0]
    /\ told' = [told EXCEPT ![c] = 0]
    /\ Forget(c)

ReadOnlyCommand(c) ==
    /\ \/ \E p \in Players : Login(c, p)
       \/ Select(c) \/ CloseMailbox(c) \/ Fetch(c) \/ StartIdle(c) \/ PollIdle(c)
       \/ Done(c) \/ Logout(c)
    /\ UNCHANGED inbox

ImapStep(c) == ReadOnlyCommand(c) \/ Store(c)

-----------------------------------------------------------------------------
SidecarTypeOK ==
    /\ login \in [Clients -> Players \cup {None}]
    /\ idling \subseteq {c \in Clients : login[c] # None}
    /\ \A c \in Clients : /\ \A n \in 1..Len(selected[c]) : selected[c][n] \in Ids
                          /\ Len(selected[c]) <= Window
                          /\ known[c] \in 0..Window /\ told[c] \in 0..Window

(* handle_imap_store acks by number in a selection that IDLE and STORE     *)
(* load again without a word to the client: while the player's items fit   *)
(* the window, the number still is the item the client fetched, unless one *)
(* of a lower id, drawn before and committed after what it fetched was     *)
(* selected, has come into sight.                                          *)
Late(c, mine) == {i \in mine : i < fetched[c][2] /\ i \notin Range(shown[c])}

SeenIsWhatWasFetched ==
    \A c \in Clients :
        LET mine == {i \in Ids : inbox[i].to = login[c]}
        IN  /\ fetched[c] # Nothing
            /\ fetched[c][2] \in mine
            /\ Cardinality(mine) <= Window
            /\ Late(c, mine) = {}
            => /\ fetched[c][1] <= Len(Ensured(c))
               /\ Ensured(c)[fetched[c][1]] = fetched[c][2]

(* crates/app/src/account.rs:69, "keep an IMAP IDLE connection open; when  *)
(* EXISTS arrives, FETCH the new message": a client that has selected its  *)
(* mailbox and idles is told of every message, so that it may fetch it.    *)
IdleClientsAreTold ==
    \A c \in Clients, n \in 1..MaxItems :
        (c \in idling /\ told[c] > 0 /\ n <= Window /\ Len(Mailbox(login[c])) >= n)
            ~> (c \notin idling \/ told[c] >= n)
=============================================================================
