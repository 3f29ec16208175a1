---------------------------- MODULE MCBelongings ----------------------------
(* An instance of Belongings for TLC: a coin in the yard, a lane, a room    *)
(* off the yard; one player on several connections and one on another.      *)
EXTENDS Belongings, TLC

CONSTANTS ann, bob, a1, a2, a3, a4, a5, b1, coin, yard, lane, admin

(* Two players, and one player twice, while the files are reloaded; one     *)
(* player, of whose connections one may fail to save (a4), comes again, or  *)
(* fails beside a reload.                                                   *)
MCCasts == {[here |-> {a1, b1}, requests |-> {admin}], [here |-> {a2, a3}, requests |-> {admin}],
            [here |-> {a4, a5}, requests |-> {}], [here |-> {a4}, requests |-> {admin}]}

MCPlayerOf == [c \in Connections |-> IF c = b1 THEN bob ELSE ann]

Symmetric == Permutations({a2, a3})

(* The coin lies in the yard; later files have none. *)
MCFiles == {[things |-> Things, lying |-> [v \in Ways |-> IF v = yard THEN Things ELSE {}]],
            [things |-> {}, lying |-> [v \in Ways |-> {}]]}
=============================================================================
