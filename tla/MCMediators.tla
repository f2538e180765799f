----------------------------- MODULE MCMediators -----------------------------
(* TLC instances of Mediators. *)
EXTENDS Mediators, TLC

CONSTANTS p, b1, b2, f1, f2, n1, n2

\* One provider; f1 is a movie the startup scan finds, f2 arrives later.
OneFile == f1 :> p
OneName == f1 :> n1
TwoFiles == f1 :> p @@ f2 :> p
TwoNames == f1 :> n1 @@ f2 :> n2
=============================================================================
