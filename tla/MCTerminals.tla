---------------------------- MODULE MCTerminals ----------------------------
(***************************************************************************)
(* Small instances of a terminal's loop of legs and of the landing of      *)
(* terminals for TLC.  They share no variable, so one run explores each by *)
(* itself: `part` says which, and the other stays as it starts.            *)
(***************************************************************************)
EXTENDS Terminal, SequencesExt

CONSTANTS Sessions, NoTests, MaxWork, Budget, MaxOutside

VARIABLES
  part,
  trunk, side, root, edited, tip, made, dirty, stash, running, there,
  lock, land, prep, note, queue, drain, tested, landed, lateWork, shared, used

L == INSTANCE TerminalLand WITH late <- lateWork, spent <- used

ASSUME LandAssumption == L!NamesAssumption /\ L!BudgetAssumption

Once == [commit |-> 1, checkout |-> 1, edit |-> 1, restart |-> 1, land |-> 2, prepare |-> 1, fix |-> 1]

lvars == <<trunk, side, root, edited, tip, made, dirty, stash, running, there, lock, land, prep,
           note, queue, drain, tested, landed, lateWork, shared, used>>

PartInit == part \in {"legs", "lands"} /\ Init /\ L!Init

PartNext ==
  /\ UNCHANGED part
  /\ \/ part = "legs" /\ Next /\ UNCHANGED lvars
     \/ part = "lands" /\ L!Next /\ UNCHANGED vars

PartSafety == PartInit /\ [][PartNext]_<<part, vars, lvars>>

\* The fairness of each, in its own part.
PartSpec ==
  /\ PartSafety
  /\ WF_vars(part = "legs" /\ Runner)
  /\ WF_vars(part = "legs" /\ \E h \in hooks : HookWrites(h))
  /\ \A l \in Logins : WF_vars(part = "legs" /\ WallEnds(l))
  /\ WF_lvars(part = "lands" /\ L!Drain)
  /\ \A s \in Sessions :
       WF_lvars(part = "lands" /\ L!Landing(s)) /\ WF_lvars(part = "lands" /\ L!Prepared(s))

(* The properties of the landing; its module says what they mean.          *)
LandingsAreSafe == L!LandingsAreSafe
TrunkKeeps == L!TrunkKeeps
LandingIsAnswered == L!LandingIsAnswered
=============================================================================
