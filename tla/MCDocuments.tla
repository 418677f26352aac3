---------------------------- MODULE MCDocuments ----------------------------
(***************************************************************************)
(* TLC instance of Documents: two requests at a time, of an ordinary user  *)
(* or an administrator, over up to three documents.                        *)
(***************************************************************************)
EXTENDS Documents, TLC

RequestSymmetry == Permutations(Requests)
=============================================================================
