---------------------------- MODULE MCMergeQueue ----------------------------
(* Small instances of the merge queue for TLC. *)
EXTENDS MergeQueue

MCProcsOf == [l \in Landings |-> IF l = "a" THEN {"board"} ELSE Procs]
Nothing == [k \in Outside |-> 0]
MCBudget == [k \in Outside |-> 1]
Commits == [Nothing EXCEPT !["commit"] = 1]
Checkouts == [Nothing EXCEPT !["checkout"] = 1]
=============================================================================
