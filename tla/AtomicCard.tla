----------------------------- MODULE AtomicCard -----------------------------
(***************************************************************************)
(* What the ledger promises of a card file: an update is one step that     *)
(* keeps every earlier change.  `torn' says the promise was given up: from *)
(* then on the file may hold any of the changes.                           *)
(***************************************************************************)
CONSTANTS Changes   \* the changes that the callers of the ledger make
VARIABLES card,     \* the changes card.json holds
          torn      \* a lock was taken from a live holder, or not waited for

Init == card = {} /\ torn = FALSE

Update(c) == ~torn /\ card' = card \cup {c} /\ UNCHANGED torn
Tear == torn' = TRUE /\ card' \in SUBSET Changes
Next == Tear \/ \E c \in Changes : Update(c)

Spec == Init /\ [][Next]_<<card, torn>>
=============================================================================
