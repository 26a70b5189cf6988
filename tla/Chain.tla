------------------------------- MODULE Chain -------------------------------
(***************************************************************************)
(* The card state machine of src/chain.mjs, as pure operators on a card    *)
(* record: for every action of `transition` a guard (Can...) and the card  *)
(* it returns.  A card walks the stations of its pipeline; inside an agent *)
(* station it walks the legs of that station's chain.                      *)
(*                                                                         *)
(* Data is reduced to what the machine tests: a station is its kind,       *)
(* whether it is named `build`, and the length of its chain; the entries   *)
(* that carry `approve: true` are the pairs <<station, leg>> of c.gated.   *)
(* Station 0 is the '-' of a card that was never queued; nextLeg is 0      *)
(* where the code has null (a next leg is never leg 0).                    *)
(***************************************************************************)
EXTENDS Integers, Sequences, FiniteSets

CONSTANTS
  Pipelines,        \* the pipelines cards are created with
  MaxLandAttempts   \* LEG_MAX_LAND_ATTEMPTS: red tests and bounced lands a card may have

Kinds == {"agent", "human", "test", "land"}
Station == [kind : Kinds, build : BOOLEAN, legs : Nat]

\* What validatePipeline accepts: at least one station, an agent station has a
\* chain (and only an agent station has one), a land station is last.
ValidPipeline(p) ==
  /\ p \in Seq(Station)
  /\ p # << >>
  /\ \A i \in DOMAIN p :
       /\ p[i].kind = "agent" <=> p[i].legs > 0
       /\ p[i].kind = "land" => i = Len(p)

ASSUME PipelinesAssumption == \A p \in Pipelines : ValidPipeline(p)
ASSUME MaxLandAttemptsAssumption == MaxLandAttempts \in Nat \ {0}

Terminal == {"done", "failed", "killed"}
NonTerminal == {"backlog", "queued", "running", "handing_off",
                "waiting_human", "needs_approval", "paused"}
Statuses == Terminal \union NonTerminal

HandoffOutcomes == {"limit", "incomplete", "no_progress", "stalled", "failed"}
NoAdvanceOutcomes == {"auth_failed", "launch_failed"}
Outcomes == HandoffOutcomes \union NoAdvanceOutcomes \union {"completed", "killed"}

Failures == {"none", "chain", "environment", "test", "land"}

-----------------------------------------------------------------------------
(* Looking at a card.                                                      *)

KindAt(c, i) == IF i \in DOMAIN c.pipeline THEN c.pipeline[i].kind ELSE "none"
Kind(c) == KindAt(c, c.station)
HasLeg(c, l) == Kind(c) = "agent" /\ l < c.pipeline[c.station].legs

\* (mutant) any agent station of the pipeline, not only an earlier one
Agents_Anywhere(c, i) == {k \in DOMAIN c.pipeline : c.pipeline[k].kind = "agent"}
Agents(c, i) == {k \in 1 .. i - 1 : c.pipeline[k].kind = "agent"}
Builds(c, i) == {k \in Agents(c, i) : c.pipeline[k].build}

\* The station a red test or a bounced land at i goes back to: the nearest
\* earlier build station, else the first agent station before i.
CanBounce(c, i) == Agents(c, i) # {}
BounceTarget(c, i) ==
  IF Builds(c, i) # {}
  THEN CHOOSE k \in Builds(c, i) : \A j \in Builds(c, i) : j <= k
  ELSE CHOOSE k \in Agents(c, i) : \A j \in Agents(c, i) : k <= j

-----------------------------------------------------------------------------
(* A card as src/ledger.mjs `create` writes it.                            *)

NewCard(p, gated) ==
  [pipeline |-> p, gated |-> gated, station |-> 0, leg |-> 0, nextLeg |-> 0,
   status |-> "backlog", landAttempts |-> 0, resume |-> FALSE, failure |-> "none"]

Cards ==
  [pipeline : Pipelines, gated : SUBSET (Nat \X Nat), station : Nat, leg : Nat,
   nextLeg : Nat, status : Statuses, landAttempts : 0 .. MaxLandAttempts,
   resume : BOOLEAN, failure : Failures]

-----------------------------------------------------------------------------
(* Where a card goes.                                                      *)

\* (mutant) the leg of the station before is kept
Arrive_KeepsLeg(c, i) ==
  [c EXCEPT !.station = i,
            !.status = IF KindAt(c, i) = "human" THEN "waiting_human" ELSE "queued"]
\* Park the card at station i: a human station waits for its button press.
Arrive(c, i) ==
  [c EXCEPT !.station = i, !.leg = 0,
            !.status = IF KindAt(c, i) = "human" THEN "waiting_human" ELSE "queued"]

\* Station i is done.
Advance(c, i) ==
  IF i = Len(c.pipeline)
  THEN [c EXCEPT !.status = "done", !.leg = 0]
  ELSE Arrive(c, i + 1)

\* (mutant) one attempt too many
Bounce_OneMore(c, failure) ==
  LET attempts == c.landAttempts + 1
  IN  IF CanBounce(c, c.station) /\ attempts <= MaxLandAttempts
      THEN [Arrive(c, BounceTarget(c, c.station)) EXCEPT !.landAttempts = attempts]
      ELSE [c EXCEPT !.status = "failed", !.landAttempts = attempts, !.failure = failure]
\* (mutant) the attempt is not counted
Bounce_Uncounted(c, failure) ==
  IF CanBounce(c, c.station)
  THEN [Arrive(c, BounceTarget(c, c.station)) EXCEPT !.resume = TRUE]
  ELSE [c EXCEPT !.status = "failed", !.failure = failure]
\* A red test or a bounced land at the card's station: one shared counter, one
\* cap; a card with attempts and a target left goes back to that target.
Bounce(c, failure) ==
  LET attempts == c.landAttempts + 1
  IN  IF CanBounce(c, c.station) /\ attempts < MaxLandAttempts
      THEN [c EXCEPT !.station = BounceTarget(c, c.station), !.leg = 0,
                     !.status = "queued", !.landAttempts = attempts,
                     !.resume = TRUE]
      ELSE [c EXCEPT !.status = "failed", !.landAttempts = attempts,
                     !.failure = failure]

-----------------------------------------------------------------------------
(* The actions of the driver.                                              *)

CanEnqueue(c) == c.status = "backlog"
Enqueue(c) == Arrive(c, 1)

CanStart(c) == c.status = "queued" /\ Kind(c) # "none"
Start(c) ==
  [c EXCEPT !.status = IF Kind(c) = "human" THEN "waiting_human" ELSE "running"]

CanLegResult(c) == c.status = "running" /\ Kind(c) = "agent"
LegResult(c, outcome) ==
  CASE outcome = "completed" -> Advance(c, c.station)
    [] outcome = "killed" -> [c EXCEPT !.status = "killed"]
    [] outcome \in NoAdvanceOutcomes ->
         [c EXCEPT !.status = "failed", !.failure = "environment"]
    [] outcome \in HandoffOutcomes ->
         IF HasLeg(c, c.leg + 1)
         THEN [c EXCEPT !.status = "handing_off", !.nextLeg = c.leg + 1]
         ELSE [c EXCEPT !.status = "failed", !.failure = "chain"]

\* (mutant) one entry of the chain is skipped
TargetLeg_Skips(c) == IF c.nextLeg = 0 THEN c.leg + 1 ELSE c.nextLeg + 1
\* The bundle of the ended leg is on disk: the next leg is queued, or parked
\* when its chain entry asks for approval.
TargetLeg(c) == IF c.nextLeg = 0 THEN c.leg + 1 ELSE c.nextLeg
CanBundleWritten(c) == c.status = "handing_off" /\ HasLeg(c, TargetLeg(c))
BundleWritten(c) ==
  [c EXCEPT !.leg = TargetLeg(c), !.nextLeg = 0,
            !.status = IF <<c.station, TargetLeg(c)>> \in c.gated
                       THEN "needs_approval" ELSE "queued"]

CanTestResult(c) == c.status = "running" /\ Kind(c) = "test"
TestResult(c, green) ==
  IF green THEN Advance(c, c.station) ELSE Bounce(c, "test")

\* The driver reports every landing that neither landed nor opened a pull
\* request as bounced (src/orchestrator.mjs:343-348).
LandVerdicts == {"landed", "pr", "bounced"}
CanLandResult(c) == c.status = "running" /\ Kind(c) = "land"
LandResult(c, verdict) ==
  CASE verdict = "landed" -> Advance(c, c.station)
    [] verdict = "pr" -> [c EXCEPT !.status = "waiting_human"]
    [] verdict = "bounced" -> Bounce(c, "land")

-----------------------------------------------------------------------------
(* The actions of a human.                                                 *)

CanPause(c) == c.status = "running"
Pause(c) == [c EXCEPT !.status = "paused"]

CanTakeOver(c) == c.status \in NonTerminal
TakeOver(c) == [c EXCEPT !.status = "paused"]

CanResume(c) == c.status = "paused"
Resume(c) == [c EXCEPT !.status = "queued", !.resume = TRUE]

CanKill(c) == c.status \in NonTerminal
Kill(c) == [c EXCEPT !.status = "killed"]

\* The current chain entry is replaced by one that names an adapter and
\* perhaps a mode: an `approve` it carried goes with it.
CanReassign(c) == c.status \in NonTerminal /\ Kind(c) = "agent"
Reassign(c) ==
  [c EXCEPT !.status = "queued", !.gated = @ \ {<<c.station, c.leg>>}]

CanHandoffNow(c) == c.status = "running" /\ HasLeg(c, c.leg + 1)
HandoffNow(c) == [c EXCEPT !.status = "handing_off", !.nextLeg = c.leg + 1]

CanApprove(c) == c.status \in {"needs_approval", "waiting_human"}
Approve(c) ==
  IF c.status = "needs_approval"
  THEN [c EXCEPT !.status = "queued"]
  ELSE Advance(c, c.station)

\* (mutant) the attempts of the last round are kept
Rerun_KeepsAttempts(c) == [Arrive(c, 1) EXCEPT !.failure = "none"]
CanRerun(c) == c.status \in Terminal
Rerun(c) ==
  [Arrive(c, 1) EXCEPT !.landAttempts = 0, !.failure = "none"]

-----------------------------------------------------------------------------
(* `transition`: the cards d that one legal action makes of c.             *)

Transition(c, d) ==
  \/ CanEnqueue(c) /\ d = Enqueue(c)
  \/ CanStart(c) /\ d = Start(c)
  \/ CanLegResult(c) /\ \E o \in Outcomes : d = LegResult(c, o)
  \/ CanBundleWritten(c) /\ d = BundleWritten(c)
  \/ CanTestResult(c) /\ \E green \in BOOLEAN : d = TestResult(c, green)
  \/ CanLandResult(c) /\ \E verdict \in LandVerdicts : d = LandResult(c, verdict)
  \/ CanPause(c) /\ d = Pause(c)
  \/ CanTakeOver(c) /\ d = TakeOver(c)
  \/ CanResume(c) /\ d = Resume(c)
  \/ CanKill(c) /\ d = Kill(c)
  \/ CanReassign(c) /\ d = Reassign(c)
  \/ CanHandoffNow(c) /\ d = HandoffNow(c)
  \/ CanApprove(c) /\ d = Approve(c)
  \/ CanRerun(c) /\ d = Rerun(c)

\* A card that every chain of transitions from a new one leads to: it has an
\* attempt left unless it is over, and waits for a human at a station that exists.
WellFormed(c) ==
  /\ c \in Cards
  /\ c.landAttempts = MaxLandAttempts => c.status \in Terminal
  /\ c.status = "waiting_human" => c.station \in DOMAIN c.pipeline
=============================================================================
