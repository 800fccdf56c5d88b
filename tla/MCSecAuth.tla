------------------------------ MODULE MCSecAuth ------------------------------
(* SecAuth for TLC: the PDU sessions are interchangeable in safety runs. *)
EXTENDS SecAuth

PsiSymmetry == Permutations(Psis)
=============================================================================
