------------------------------ MODULE RuntimeTap ------------------------------
(***************************************************************************)
(* The events a runtime publishes about itself (taps/mod.mjs): when a turn *)
(* is open, which tools and subagents are at work.  The runtime appends    *)
(* them to a file when it flushes; the tap reads what is complete and folds*)
(* it onto its last answer, which says whether a hand-off now would cut    *)
(* something off.  The runtime may die, with a line half written, and go on*)
(* in the same file.                                                       *)
(***************************************************************************)
EXTENDS Naturals, FiniteSets, Sequences

CONSTANTS Tools, Subs,   \* what a turn may have in flight
          MaxEvents,     \* bound: events of one behaviour
          MaxDeaths      \* bound: deaths of the runtime

VARIABLES
  rt,       \* (the runtime) its open turn, its tools, its subagents, how much of its context is used
  unsaid,   \* events it has not flushed
  lines,    \* the file: events, and what a death left of a line
  torn,     \* the file ends within a line: "no", "live", or "dead", where nobody will finish it
  cursor,   \* how much the tap has read
  signals,  \* its answer
  advised,  \* what it last told of a hand-off
  deaths, orphans, \* (history) deaths, and the subagents and events they swallowed
  started   \* (history) the subagents that have run

runtimeVars == <<rt, unsaid, lines, torn, cursor, signals, advised, deaths, orphans, started>>

Quiescent == [turn |-> FALSE, tools |-> {}, subs |-> {}, full |-> FALSE]
Garbage == [kind |-> "garbage"]
NoSignals == [turnOpen |-> FALSE, pending |-> {}, live |-> {}, full |-> FALSE]
Events == Len(unsaid) + Len(lines)

-----------------------------------------------------------------------------
(* deriveSignals                                                           *)

\* (mutant) A turn that completes leaves its tools pending.
TurnDone_KeepsTools(s) == [s EXCEPT !.turnOpen = FALSE]
\* A tool call cannot outlive its turn.
TurnDone(s) == [s EXCEPT !.turnOpen = FALSE, !.pending = {}]

\* A completion that names no subagent the tap knows takes any one away.
SubDone(s, id) == IF id \in s.live \/ s.live = {} THEN [s EXCEPT !.live = @ \ {id}] ELSE [s EXCEPT !.live = @ \ {CHOOSE x \in @ : TRUE}]

Folded(s, e) ==
  CASE e.kind = "subagentStarted"   -> IF e.denied THEN s ELSE [s EXCEPT !.live = @ \cup {e.id}]
    [] e.kind = "subagentCompleted" -> SubDone(s, e.id)
    [] e.kind = "turnStarted"       -> [s EXCEPT !.turnOpen = TRUE]
    [] e.kind = "turnCompleted"     -> TurnDone(s)
    [] e.kind = "toolRequested"     -> IF e.within THEN s ELSE [s EXCEPT !.pending = @ \cup {e.id}]
    [] e.kind = "toolCompleted"     -> IF e.within THEN s ELSE [s EXCEPT !.pending = @ \ {e.id}]
    [] e.kind = "contextChanged"    -> [s EXCEPT !.full = TRUE]
    [] OTHER                        -> s
deriveSignals(events, prev) ==
  LET folded[n \in 0..Len(events)] == IF n = 0 THEN prev ELSE Folded(folded[n - 1], events[n])
  IN folded[Len(events)]

cleanBoundary(s) == ~s.turnOpen /\ s.pending = {} /\ s.live = {}
\* handoffAdvice: a full context and nothing in flight.
handoffAdvice(s) == IF ~s.full THEN "no" ELSE IF cleanBoundary(s) THEN "now" ELSE "wait"

-----------------------------------------------------------------------------
(* The runtime.                                                            *)

Says(e) == Events < MaxEvents /\ unsaid' = Append(unsaid, e)

StartsTurn ==
  /\ ~rt.turn /\ rt' = [rt EXCEPT !.turn = TRUE] /\ Says([kind |-> "turnStarted"])
CompletesTurn ==
  /\ rt.turn /\ rt.tools = {} /\ rt' = [rt EXCEPT !.turn = FALSE] /\ Says([kind |-> "turnCompleted"])
Tool(i) ==
  \/ rt.turn /\ i \notin rt.tools /\ rt' = [rt EXCEPT !.tools = @ \cup {i}] /\ Says([kind |-> "toolRequested", id |-> i, within |-> FALSE])
  \/ i \in rt.tools /\ rt' = [rt EXCEPT !.tools = @ \ {i}] /\ Says([kind |-> "toolCompleted", id |-> i, within |-> FALSE])
  \/ rt.subs # {} /\ rt' = rt /\ Says([kind |-> "toolRequested", id |-> i, within |-> TRUE])
\* A subagent has an id of its own and may outlive the turn; its completion may not say which it was.
SubStarts(i) ==
  \/ i \notin started /\ started' = started \cup {i} /\ rt' = [rt EXCEPT !.subs = @ \cup {i}]
     /\ Says([kind |-> "subagentStarted", id |-> i, denied |-> FALSE])
  \/ UNCHANGED <<rt, started>> /\ Says([kind |-> "subagentStarted", id |-> i, denied |-> TRUE])
SubCompletes(i, named) ==
  /\ i \in rt.subs /\ rt' = [rt EXCEPT !.subs = @ \ {i}]
  /\ Says([kind |-> "subagentCompleted", id |-> IF named THEN i ELSE "unnamed"])
Fills == ~rt.full /\ rt' = [rt EXCEPT !.full = TRUE] /\ Says([kind |-> "contextChanged"])

Works ==
  /\ \/ (StartsTurn \/ CompletesTurn \/ Fills) /\ UNCHANGED started
     \/ (\E i \in Tools : Tool(i)) /\ UNCHANGED started
     \/ rt.turn /\ \E i \in Subs : SubStarts(i)
     \/ (\E i \in Subs, named \in BOOLEAN : SubCompletes(i, named)) /\ UNCHANGED started
  /\ UNCHANGED <<lines, torn, cursor, signals, advised, deaths, orphans>>

\* A flush writes what there is, or all but a piece of the last.  After a piece a death left, the line is spoilt.
Flushes ==
  /\ unsaid # <<>>
  /\ \E piece \in BOOLEAN :
       LET n == IF piece THEN Len(unsaid) - 1 ELSE Len(unsaid)
       IN /\ n > 0 \/ torn = "no"
          /\ lines' = lines \o (IF torn = "dead" THEN <<Garbage>> \o SubSeq(unsaid, 2, n) ELSE SubSeq(unsaid, 1, n))
          /\ unsaid' = SubSeq(unsaid, n + 1, Len(unsaid))
          /\ torn' = IF piece THEN "live" ELSE "no"
  /\ UNCHANGED <<rt, cursor, signals, advised, deaths, orphans, started>>

\* Its tools and subagents go with it, and what it had not flushed.
Dies ==
  /\ deaths < MaxDeaths /\ deaths' = deaths + 1
  /\ rt' = [Quiescent EXCEPT !.full = rt.full] /\ unsaid' = <<>>
  /\ torn' = IF torn = "no" THEN "no" ELSE "dead"
  /\ orphans' = orphans \cup (IF rt.subs # {} THEN {"subagents"} ELSE {})
                        \cup (IF unsaid # <<>> \/ torn # "no" THEN {"events"} ELSE {})
  /\ UNCHANGED <<lines, cursor, signals, advised, started>>

-----------------------------------------------------------------------------
(* The tap: readRuntimeEvents and one tick.                                *)

Ticks ==
  /\ cursor < Len(lines)
  /\ cursor' = Len(lines)
  /\ signals' = deriveSignals(SubSeq(lines, cursor + 1, Len(lines)), signals)
  /\ advised' = handoffAdvice(signals')
  /\ UNCHANGED <<rt, unsaid, lines, torn, deaths, orphans, started>>

RuntimeInit ==
  /\ rt = Quiescent /\ unsaid = <<>> /\ lines = <<>> /\ torn = "no"
  /\ cursor = 0 /\ signals = NoSignals /\ advised = "no" /\ deaths = 0 /\ orphans = {} /\ started = {}
RuntimeNext == Works \/ Flushes \/ Dies \/ Ticks
RuntimeSpec == RuntimeInit /\ [][RuntimeNext]_runtimeVars

-----------------------------------------------------------------------------
CaughtUp == unsaid = <<>> /\ cursor = Len(lines)

(* When the tap has read everything, it advises a hand-off only where       *)
(* nothing is in flight; and where nothing is and a turn has ended since    *)
(* the last death, no boundary is held shut; but for subagents and events   *)
(* that a death swallowed.                                                  *)
BoundaryIsTrue ==
  CaughtUp =>
    /\ advised = "now" /\ "events" \notin orphans => ~rt.turn /\ rt.tools = {} /\ rt.subs = {}
    /\ lines # <<>> /\ lines[Len(lines)].kind = "turnCompleted" /\ rt.subs = {} /\ orphans = {} => cleanBoundary(signals)

(* In how many batches the events came makes no difference.                 *)
BatchesAgree == signals = deriveSignals(SubSeq(lines, 1, cursor), NoSignals)

TapIsTrue == BoundaryIsTrue /\ BatchesAgree
=============================================================================
