----------------------------- MODULE MCScheduler ----------------------------
(* Small instances of the scheduler for TLC. *)
EXTENDS Scheduler

MCCreated == [c \in Cards |-> CASE c = "a" -> 1 [] c = "b" -> 2 [] c = "c" -> 3 [] OTHER -> 4]
OneRepo == [c \in Cards |-> "repo"]
TwoClash == {{"a", "b"}}
NoLegs == [c \in Cards |-> 0]
OneLeg == [c \in Cards |-> IF c = "a" THEN 1 ELSE 0]
LegEach == [c \in Cards |-> 1]
=============================================================================
