------------------------------- MODULE MCPage -------------------------------
(* What may happen at once on a page of the board, in small numbers. *)
EXTENDS Page

Quiet == [changes |-> 1, drops |-> 0, asks |-> 0, deaf |-> FALSE, others |-> FALSE, guest |-> FALSE,
          card |-> "running", reader |-> "watches", acts |-> 0]
\* The page alone, or beside another, or where the tree cannot be watched.
Watching ==
  { [Quiet EXCEPT !.changes = 2, !.drops = 1, !.card = "waiting"],
    [Quiet EXCEPT !.changes = 3],
    [Quiet EXCEPT !.changes = 2, !.drops = 1, !.others = TRUE],
    [Quiet EXCEPT !.changes = 2, !.asks = 1, !.card = "waiting"],
    [Quiet EXCEPT !.changes = 2, !.deaf = TRUE] }
\* The reader at work, a guest except where it is about the machine's settings.
Working ==
  { [Quiet EXCEPT !.reader = "asks", !.acts = 3, !.guest = TRUE],
    [Quiet EXCEPT !.reader = "reads", !.acts = 3, !.guest = TRUE],
    [Quiet EXCEPT !.reader = "edits", !.acts = 3] }
MCSettings == Watching \cup Working
=============================================================================
