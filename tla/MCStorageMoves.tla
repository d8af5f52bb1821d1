---------------------------- MODULE MCStorageMoves ----------------------------
(* StorageMoves for TLC: two requests on two folders of a marker and two       *)
(* files, so that a listing takes two pages and a deletion two chunks.         *)
EXTENDS StorageMoves, TLC

\* Requests are interchangeable, and so are folders.
Symmetry == Permutations(Folders) \cup Permutations(Handlers)
===============================================================================
