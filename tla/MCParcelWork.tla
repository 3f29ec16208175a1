---------------------------- MODULE MCParcelWork ----------------------------
(* Instances of ParcelWork for TLC: a parcel with two desks, an owner, who *)
(* works the first desk, and a player who visits and may staff the second. *)
EXTENDS ParcelWork, TLC

CONSTANTS owner, guest, front, back, c1, x, s1, s2

MCMatches == x :> {c1}

Blank == [op |-> "say", player |-> owner, whom |-> None, desk |-> None,
          command |-> None, prefix |-> None]

By(op, p)       == [Blank EXCEPT !.op = op, !.player = p]
AtDesk(op, p, d) == [By(op, p) EXCEPT !.desk = d]
OnItem(op, p, d) == [AtDesk(op, p, d) EXCEPT !.command = c1]
Staffing(op)    == [AtDesk(op, owner, back) EXCEPT !.whom = guest]
Routing(op, d)  == [AtDesk(op, owner, d) EXCEPT !.prefix = x]

Say      == [By("say", guest) EXCEPT !.command = c1]
Bill     == [By("request", owner) EXCEPT !.command = c1]
GiveAway == [By("transfer", owner) EXCEPT !.whom = guest]

Desk(p, d) == {AtDesk("startShift", p, d), OnItem("claim", p, d),
               OnItem("finish", p, d)}

Setup == {AtDesk("createDesk", owner, front), AtDesk("createDesk", owner, back),
          Routing("addRoute", front), Routing("addRoute", back),
          Staffing("hire"), Say}

Work == Desk(owner, front) \cup Desk(guest, back) \cup {Bill}

(* Two desks, one worker each, and the owner asking for payment. *)
WorkMenu == Setup \cup Work

(* One desk that two players may work, and everything its owner can do. *)
OwnerMenu == {AtDesk("createDesk", owner, back), Routing("addRoute", back),
              Routing("dropRoute", back), Staffing("hire"), Staffing("fire"),
              Say, Bill, GiveAway, AtDesk("endShift", guest, back)}
                 \cup Desk(owner, back) \cup Desk(guest, back)

(* The work of two desks and a dismissal. *)
StaffMenu == Setup \cup Work \cup {Staffing("fire")}

ManyMenus  == {WorkMenu, OwnerMenu}
OnlyWork   == {WorkMenu}
OnlyStaff  == {StaffMenu}

Symmetric == Permutations(Sessions)
=============================================================================
