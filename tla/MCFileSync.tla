---------------------------- MODULE MCFileSync ------------------------------
(***************************************************************************)
(* A small instance of FileSync for TLC: the files, and the requests, are  *)
(* interchangeable.                                                        *)
(***************************************************************************)
EXTENDS FileSync, TLC

Symmetry == Permutations(Path) \union Permutations(Requests)
=============================================================================
