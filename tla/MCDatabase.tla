----------------------------- MODULE MCDatabase ------------------------------
(***************************************************************************)
(* Database for TLC.  Keys and row identifiers can be exchanged for each   *)
(* other: nothing chooses between them.  Names of indexes can not, because *)
(* the order of the catalog decides which index is rebuilt first and which *)
(* one answers.                                                            *)
(***************************************************************************)
EXTENDS Database

Symmetry == Permutations(Keys) \cup Permutations(Rids)
=============================================================================
