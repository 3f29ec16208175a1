----------------------------- MODULE MailSystem -----------------------------
(***************************************************************************)
(* The mail of Hinemos: callers that write to inboxes (MailCalls), the     *)
(* SMTP connections that begin such calls (SmtpSessions), the SSH server's *)
(* listener and presence registry (LiveNotices), the IMAP sidecar          *)
(* (MailSidecar) and players who claim, ack and archive their items, all   *)
(* over one table of inbox items (InboxItems).  Every behaviour has a cast *)
(* of its own: the actors that take part, and the calls they may make.     *)
(***************************************************************************)
EXTENDS SmtpSessions, LiveNotices, MailSidecar

CONSTANT Casts      \* who takes part in a behaviour: the actors and their calls

Cast == [sessions : SUBSET Sessions, menu : SUBSET MailCall, smtp : SUBSET Sessions,
         handlers : SUBSET Players, reloads : BOOLEAN,
         connections : SUBSET Connections, clients : SUBSET Clients]

ASSUME CastsAssumption == Casts \subseteq Cast

VARIABLE cast       \* the cast of this behaviour, which never changes

vars == <<mailVars, smtp, presenceVars, listenerVars, imapVars, cast>>

(* The listener lives in the SSH server: without it nobody listens. *)
Init == /\ MailCallsInit /\ SmtpInit /\ LiveNoticesInit /\ MailSidecarInit
        /\ cast \in Casts
        /\ listener = IF cast.connections = {} THEN "ended" ELSE "receive"

Others == <<presenceVars, listenerVars, imapVars>>

Calls == /\ \/ \E s \in cast.sessions : CallerStep(s, cast.menu)
            \/ cast.reloads /\ SetRoomEnabled
         /\ UNCHANGED <<smtp, Others>>

Smtp == /\ \E s \in cast.smtp :
              \/ SmtpCommand(s) /\ UNCHANGED mailVars
              \/ \E letter \in Letters : SmtpData(s, letter)
              \/ MailStatement(s) /\ UNCHANGED smtp
              \/ AbandonCall(s) /\ SmtpSet(s, NewSmtp)
        /\ UNCHANGED Others

(* /mail claim, /mail ack and /mail archive, of any of the player's items. *)
Handle(p, id) == \/ ClaimInboxItem(p, id)
                 \/ \E status \in Finished : FinishInboxItem(p, id, status)

Inboxes == /\ \E p \in cast.handlers, id \in Ids : Handle(p, id)
           /\ UNCHANGED <<notices, mails, roomEnabled, lists, callers, smtp, Others>>

Presence == /\ \E c \in cast.connections : PresenceStep(c)
            /\ UNCHANGED <<mailVars, smtp, listenerVars, imapVars>>

Listener == /\ ListenerStep
            /\ UNCHANGED <<inbox, mails, roomEnabled, lists, callers, smtp,
                           presenceVars, imapVars>>

Imap == /\ \E c \in cast.clients : ImapStep(c)
        /\ UNCHANGED <<notices, mails, roomEnabled, lists, callers, smtp,
                       presenceVars, listenerVars>>

Next == /\ Calls \/ Smtp \/ Inboxes \/ Presence \/ Listener \/ Imap
        /\ UNCHANGED cast

Spec == Init /\ [][Next]_vars

(* The listener's task is polled by the runtime as long as it lives, and   *)
(* the IDLE loop has a timer of one second.  Callers and clients owe       *)
(* nothing.                                                                *)
Progress == ListenerProgress /\ UNCHANGED <<inbox, mails, roomEnabled, lists,
                                            callers, smtp, presenceVars, imapVars, cast>>

Poll(c) == PollIdle(c) /\ UNCHANGED <<mailVars, smtp, presenceVars, listenerVars, cast>>

FairSpec == /\ Spec
            /\ WF_vars(Progress)
            /\ \A c \in Clients : WF_vars(Poll(c))

-----------------------------------------------------------------------------
(* Every variable has its type, in all four parts. *)
TypeOK == MailCallsTypeOK /\ SmtpTypeOK /\ LiveNoticesTypeOK /\ SidecarTypeOK
=============================================================================
