------------------------------- MODULE MCJobs -------------------------------
(***************************************************************************)
(* TLC instance of Jobs: more jobs than the table keeps and than the pool  *)
(* has workers for.                                                        *)
(***************************************************************************)
EXTENDS Jobs
=============================================================================
