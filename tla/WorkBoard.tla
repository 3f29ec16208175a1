------------------------------ MODULE WorkBoard ------------------------------
(***************************************************************************)
(* What the work desks of a parcel promise, in single steps: a command     *)
(* that a route sends to a desk becomes one work item there, once it is in *)
(* the room's inbox; the item goes from queued to one worker's hands to    *)
(* done and never back; the command is handled in the same step as the     *)
(* last of its items is done, or when the owner asks for payment.          *)
(***************************************************************************)
CONSTANTS Desks, Commands, Players, None

VARIABLES item, notified, handled

vars == <<item, notified, handled>>

NoItem == [status |-> "none", by |-> None]

Init == /\ item = [d \in Desks |-> [c \in Commands |-> NoItem]]
        /\ notified = {} /\ handled = {}

Notify(c) == /\ notified' = notified \cup {c}
             /\ UNCHANGED <<item, handled>>

Queue(d, c) ==
    /\ c \in notified
    /\ item[d][c] = NoItem
    /\ item' = [item EXCEPT ![d][c] = [status |-> "queued", by |-> None]]
    /\ UNCHANGED <<notified, handled>>

Claim(d, c, p) ==
    /\ item[d][c].status = "queued"
    /\ item' = [item EXCEPT ![d][c] = [status |-> "claimed", by |-> p]]
    /\ UNCHANGED <<notified, handled>>

(* The worker who claimed the item does it, and with the last open item of *)
(* a command the command is handled.                                       *)
Open(c) == {d \in Desks : item[d][c].status \in {"queued", "claimed"}}

Finish(d, c) ==
    /\ item[d][c].status = "claimed"
    /\ item' = [item EXCEPT ![d][c].status = "done"]
    /\ handled' = IF Open(c) = {d} THEN handled \cup {c} ELSE handled
    /\ UNCHANGED notified

Settle(c) == /\ handled' = handled \cup {c}
             /\ UNCHANGED <<item, notified>>

Next == \/ \E d \in Desks, c \in Commands :
              \/ Queue(d, c)
              \/ \E p \in Players : Claim(d, c, p)
              \/ Finish(d, c)
        \/ \E c \in Commands : Notify(c) \/ Settle(c)

Spec == Init /\ [][Next]_vars
=============================================================================
