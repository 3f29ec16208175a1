---------------------------- MODULE MCMailSystem ----------------------------
(* Instances of MailSystem for TLC. *)
EXTENDS MailSystem, TLC

CONSTANTS ann, bob, a, b, s1, s2, ssh, imap

MCPlayerOf == ssh :> bob

Blank == [op |-> "create", by |-> ann, to |-> <<>>, letter |-> None]
By(op, p) == [Blank EXCEPT !.op = op, !.by = p]
Letter(op, p, to, l) == [Blank EXCEPT !.op = op, !.by = p, !.to = to, !.letter = l]

RoomMenu == {Letter("ask", bob, <<ann>>, a), Letter("reply", ann, <<bob>>, b)}
TwoRooms == {Letter("ask", bob, <<ann>>, a), Letter("ask", ann, <<ann>>, b)}
ListMenu == {By("create", ann), By("subscribe", bob), By("subscribe", ann),
             By("unsubscribe", bob), By("close", ann), By("post", ann),
             By("redeliver", ann)}
ToBob    == {Letter("mail", ann, <<bob>>, a), Letter("reply", ann, <<bob>>, b)}
Twice    == {Letter("mail", ann, <<bob, bob>>, a), Letter("mail", ann, <<bob>>, b)}

Nobody == [sessions |-> {}, menu |-> {}, smtp |-> {}, handlers |-> {}, reloads |-> FALSE,
           connections |-> {}, clients |-> {}]
Callers(menu) == [Nobody EXCEPT !.sessions = Sessions, !.menu = menu]

(* Two callers of the mailing list, without and with redeliveries; two     *)
(* callers who write to and for a room and the players who handle it; an   *)
(* SMTP connection beside a caller; one caller, the listener and a         *)
(* connection; an IMAP client beside one caller and the player, and beside *)
(* two callers.                                                            *)
MCCasts ==
    {Callers(ListMenu \ {By("redeliver", ann)}), Callers(ListMenu \ {By("close", ann)}),
     [Callers(RoomMenu) EXCEPT !.reloads = TRUE, !.handlers = {bob}],
     [Callers(TwoRooms) EXCEPT !.handlers = {ann}],
     [Callers(TwoRooms) EXCEPT !.sessions = {s2}, !.smtp = {s1}],
     [Callers(ToBob) EXCEPT !.sessions = {s1}, !.connections = {ssh},
                            !.reloads = TRUE],
     [Callers(Twice) EXCEPT !.sessions = {s1}, !.clients = {imap},
                            !.handlers = {bob}],
     [Callers(Twice) EXCEPT !.clients = {imap}]}

(* One letter writer and an IMAP client. *)
IdleCasts == {[Callers({Letter("mail", ann, <<bob>>, l) : l \in Letters})
                  EXCEPT !.sessions = {s1}, !.clients = {imap}]}
=============================================================================
