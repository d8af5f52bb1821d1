----------------------------- MODULE MCBulkFanout -----------------------------
(* BulkFanout for TLC: a bulk HEAD of three keys, two at a time, beside an ACL *)
(* change of one key, so that three goroutines compete for two slots of the    *)
(* transport; and the empty and oversized batches that are refused.            *)
EXTENDS BulkFanout

MCLengths == [r \in Requests |-> IF r \in Heads THEN {0, 3} ELSE {1, 4}]
===============================================================================
