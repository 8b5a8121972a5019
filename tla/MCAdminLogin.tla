----------------------------- MODULE MCAdminLogin -----------------------------
(***************************************************************************)
(* A small instance of AdminLogin for TLC: admin and one operator, two     *)
(* handlers.                                                               *)
(***************************************************************************)
EXTENDS AdminLogin, TLC

CONSTANTS h1, h2, admin, operator

Symmetry == Permutations(Handlers)
=============================================================================
