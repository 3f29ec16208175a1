---------------------------- MODULE MCMarkLedger ----------------------------
(* Instances of MarkLedger for TLC. *)
EXTENDS MarkLedger, TLC

CONSTANTS a, b, c, r1, r2, k1, s1, s2, s3

MCPayer == (r1 :> a) @@ (r2 :> b)
MCPayee == (r1 :> b) @@ (r2 :> a)
MCDue   == (r1 :> 1) @@ (r2 :> 2)

(* One request, for the instance with three sessions and three players. *)
OnePayer == r1 :> a
OnePayee == r1 :> b
OneDue   == r1 :> 1

Symmetric == Permutations(Sessions)
=============================================================================
