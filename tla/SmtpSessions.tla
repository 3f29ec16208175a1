---------------------------- MODULE SmtpSessions ----------------------------
(***************************************************************************)
(* The SMTP half of the mail sidecar: what one connection keeps between    *)
(* its commands.  DATA begins the call of MailCalls that writes the letter *)
(* to each recipient in turn; while it runs the connection reads no other  *)
(* command.  A failure closes the connection, and with it the session.     *)
(***************************************************************************)
EXTENDS MailCalls

CONSTANT MaxRecipients      \* bound on session.recipients

VARIABLE smtp               \* SmtpSessionState, by session

NewSmtp == [user |-> None, sender |-> FALSE, recipients |-> <<>>]

SmtpInit == smtp = [s \in Sessions |-> NewSmtp]

SmtpTypeOK == \A s \in Sessions :
    /\ smtp[s].user \in Players \cup {None}
    /\ smtp[s].sender \in BOOLEAN
    /\ smtp[s].recipients \in Seq(Players)

Idle(s) == todo[s] = <<>>

SmtpSet(s, session) == smtp' = [smtp EXCEPT ![s] = session]

Cleared(s) == [smtp[s] EXCEPT !.sender = FALSE, !.recipients = <<>>]

(* AUTH PLAIN and AUTH LOGIN; a failed one leaves the session alone.  The  *)
(* transaction in progress, if any, becomes the new user's.                *)
SmtpAuth(s, p) == Idle(s) /\ SmtpSet(s, [smtp[s] EXCEPT !.user = p])

(* MAIL FROM: an empty address is accepted and is no sender to RCPT TO. *)
SmtpMailFrom(s) ==
    /\ Idle(s)
    /\ smtp[s].user # None
    /\ \E named \in BOOLEAN : SmtpSet(s, [Cleared(s) EXCEPT !.sender = named])

SmtpRecipient(s, p) ==
    /\ Idle(s)
    /\ smtp[s].sender
    /\ Len(smtp[s].recipients) < MaxRecipients
    /\ SmtpSet(s, [smtp[s] EXCEPT !.recipients = Append(@, p)])

SmtpReset(s) == Idle(s) /\ SmtpSet(s, Cleared(s))

(* QUIT, the end of the connection, an error of a statement. *)
SmtpEnd(s) == Idle(s) /\ SmtpSet(s, NewSmtp)

(* DATA.  The session is cleared after the last recipient, before it reads *)
(* another command.                                                        *)
SmtpData(s, letter) ==
    /\ smtp[s].user # None
    /\ smtp[s].recipients # <<>>
    /\ BeginCall(s, [op |-> "mail", by |-> smtp[s].user,
                     to |-> smtp[s].recipients, letter |-> letter])
    /\ SmtpSet(s, Cleared(s))

SmtpCommand(s) == \/ \E p \in Players : SmtpAuth(s, p) \/ SmtpRecipient(s, p)
                  \/ SmtpMailFrom(s) \/ SmtpReset(s) \/ SmtpEnd(s)

=============================================================================
