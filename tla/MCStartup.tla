------------------------------- MODULE MCStartup -------------------------------
(* Startup for TLC: two processes and three faults: one to end at the files of  *)
(* an earlier release, one to interrupt a start, and one to interrupt its       *)
(* repetition.                                                                  *)
EXTENDS Startup
===============================================================================
