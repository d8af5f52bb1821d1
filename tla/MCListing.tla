------------------------------- MODULE MCListing -------------------------------
(* Listing for TLC: a level of objects and folders in turn, read in pages that *)
(* are shorter than, as long as and longer than an answer.                     *)
EXTENDS Listing

MCFolders == {e \in Entries : e > 0 /\ e % 2 = 0}
===============================================================================
