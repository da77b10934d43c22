------------------------------ MODULE MCSession ------------------------------
(***************************************************************************)
(* Small instances of Session.  Three random numbers are those of the      *)
(* current attempt, of the attempt that gave the keys in use, and a fresh  *)
(* one.  They are interchangeable.                                         *)
(***************************************************************************)
EXTENDS Session, TLC

RndSymmetry == Permutations(Rnds)
=============================================================================
