----------------------------- MODULE MCQueryPlan -----------------------------
(* Variables for checking QueryPlan.                                        *)
EXTENDS QueryPlan

At(a, w) == [addr |-> a, width |-> w]

(* Two variables at one address; a short one inside a long one; neighbours; *)
(* gaps of one register and of two; coils at both sides of each limit.      *)
MCVariables ==
    {At(0, 1), At(0, 4), At(1, 1), At(3, 2), At(4, 1), At(9, 1), At(16, 1), At(23, 1)}
=============================================================================
