------------------------------ MODULE MCAccounts ------------------------------
(* Accounts for TLC: two processes, two sign-ins at a time, each followed by    *)
(* any number of others, two subjects, two emails, and one change by an         *)
(* administrator.                                                               *)
EXTENDS Accounts, TLC

\* Processes are interchangeable, and so are sign-ins and subjects.
Symmetry == Permutations(Processes) \cup Permutations(SignIns) \cup Permutations(Subjects)
===============================================================================
