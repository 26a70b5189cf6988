-------------------------------- MODULE Card --------------------------------
(***************************************************************************)
(* The life of one background card: the driver (src/orchestrator.mjs and   *)
(* src/stations/) takes the automatic steps of the chain machine, a human  *)
(* takes the buttons the board and the CLI offer, each one atomically.     *)
(* What happens when the two interleave inside a step is Orchestrator.tla. *)
(***************************************************************************)
EXTENDS Chain

VARIABLES
  card,    \* card.json
  green,   \* history: the stations whose latest result still stands
  tried,   \* history: the legs started at this station since the card came to it
  granted  \* history: the gated legs a human released with Approve

vars == <<card, green, tried, granted>>

Active == {"queued", "running", "handing_off"}

\* Any set of chain entries may carry approve: true.
ChainEntries(p) == UNION {{i} \X (0 .. p[i].legs - 1) : i \in DOMAIN p}

TypeOK ==
  /\ card \in Cards
  /\ green \subseteq Nat
  /\ tried \subseteq Nat
  /\ granted \subseteq Nat \X Nat

Init ==
  /\ \E p \in Pipelines : \E g \in SUBSET ChainEntries(p) : card = NewCard(p, g)
  /\ green = {}
  /\ tried = {}
  /\ granted = {}

-----------------------------------------------------------------------------
(* The driver.                                                             *)

DoEnqueue ==
  /\ CanEnqueue(card)
  /\ card' = Enqueue(card)
  /\ UNCHANGED <<green, tried, granted>>

\* Work at a station makes every later result stale, and its own.
DoStart ==
  /\ CanStart(card)
  /\ card' = Start(card)
  /\ green' = {i \in green : i < card.station}
  /\ tried' = tried \union {card.leg}
  /\ UNCHANGED granted

\* runLeg clears the flag once the runner accepted the launch.
LegLaunched ==
  /\ card.status = "running" /\ Kind(card) = "agent" /\ card.resume
  /\ card' = [card EXCEPT !.resume = FALSE]
  /\ UNCHANGED <<green, tried, granted>>

DoLegResult(outcome) ==
  /\ CanLegResult(card)
  /\ card' = LegResult(card, outcome)
  /\ green' = IF outcome = "completed" THEN green \union {card.station} ELSE green
  /\ tried' = IF outcome = "completed" THEN {} ELSE tried
  /\ UNCHANGED granted

DoBundleWritten ==
  /\ CanBundleWritten(card)
  /\ card' = BundleWritten(card)
  /\ UNCHANGED <<green, tried, granted>>

DoTestResult(isGreen) ==
  /\ CanTestResult(card)
  /\ card' = TestResult(card, isGreen)
  /\ green' = IF isGreen THEN green \union {card.station} ELSE green
  /\ tried' = {}
  /\ granted' = IF isGreen THEN granted ELSE {}

DoLandResult(verdict) ==
  /\ CanLandResult(card)
  /\ card' = LandResult(card, verdict)
  /\ green' = IF verdict = "landed" THEN green \union {card.station} ELSE green
  /\ tried' = {}
  /\ granted' = IF verdict = "bounced" THEN {} ELSE granted

Driver ==
  \/ DoStart
  \/ \E o \in Outcomes : DoLegResult(o)
  \/ DoBundleWritten
  \/ \E g \in BOOLEAN : DoTestResult(g)
  \/ \E v \in LandVerdicts : DoLandResult(v)

-----------------------------------------------------------------------------
(* The human.                                                              *)

DoPause ==
  /\ CanPause(card)
  /\ card' = Pause(card)
  /\ UNCHANGED <<green, tried, granted>>

\* The board refuses a take-over of a card whose current leg runs no agent.
DoTakeOver ==
  /\ CanTakeOver(card)
  /\ Kind(card) = "agent"
  /\ card' = TakeOver(card)
  /\ UNCHANGED <<green, tried, granted>>

DoResume ==
  /\ CanResume(card)
  /\ card' = Resume(card)
  /\ UNCHANGED <<green, tried, granted>>

DoKill ==
  /\ CanKill(card)
  /\ card' = Kill(card)
  /\ UNCHANGED <<green, tried, granted>>

DoReassign ==
  /\ CanReassign(card)
  /\ card' = Reassign(card)
  /\ UNCHANGED <<green, tried, granted>>

DoHandoffNow ==
  /\ CanHandoffNow(card)
  /\ card' = HandoffNow(card)
  /\ UNCHANGED <<green, tried, granted>>

DoApprove ==
  /\ CanApprove(card)
  /\ card' = Approve(card)
  /\ IF card.status = "needs_approval"
     THEN /\ granted' = granted \union {<<card.station, card.leg>>}
          /\ UNCHANGED <<green, tried>>
     ELSE /\ green' = green \union {card.station}
          /\ tried' = {}
          /\ UNCHANGED granted

DoRerun ==
  /\ CanRerun(card)
  /\ card' = Rerun(card)
  /\ green' = {}
  /\ tried' = {}
  /\ granted' = {}

Human ==
  \/ DoEnqueue \/ DoPause \/ DoTakeOver \/ DoResume \/ DoKill
  \/ DoReassign \/ DoHandoffNow \/ DoApprove \/ DoRerun

Next == Driver \/ LegLaunched \/ Human

\* The scheduler ticks for as long as the board is up: an automatic step that
\* stays possible is taken.  Nothing makes a human act.
Fairness == WF_vars(Driver)

Spec == Init /\ [][Next]_vars
FairSpec == Spec /\ Fairness

-----------------------------------------------------------------------------
(* Properties.                                                             *)

\* A card is done only if every station of its pipeline passed after the last
\* work done at any station before it: no bounce, hand-off, pause, take-over or
\* rerun lets it skip the test it failed (chain.mjs bounceTarget, advance).
DoneIsEarned == card.status = "done" => DOMAIN card.pipeline \subseteq green

\* A card fails with its chain exhausted only after every entry of that chain
\* was started since the card came to the station (chain.mjs leg_result).
ExhaustedTriedEveryLeg ==
  (card.status = "failed" /\ card.failure = "chain")
    => 0 .. card.pipeline[card.station].legs - 1 \subseteq tried

\* A card the scheduler would start, or a driver is driving, stands at a
\* station of its pipeline and, at an agent station, on an entry of its chain;
\* one that is handing off has the very next entry to go to.  Otherwise the
\* transition throws and the card is retried for ever.
ActiveCardCanMove ==
  card.status \in Active =>
    /\ Kind(card) # "none"
    /\ Kind(card) = "agent" => HasLeg(card, card.leg)
    /\ card.status = "handing_off" =>
         TargetLeg(card) = card.leg + 1 /\ HasLeg(card, card.leg + 1)

\* The inductive invariant: what is true of a card between any two steps.
PlaceInv ==
  /\ card.station \in 0 .. Len(card.pipeline)
  /\ card.station = 0 => card.status \in {"backlog", "killed"}
  /\ Kind(card) = "agent" => HasLeg(card, card.leg)
  /\ card.status = "needs_approval" => Kind(card) = "agent"
  /\ card.status = "handing_off" =>
       card.nextLeg = card.leg + 1 /\ HasLeg(card, card.leg + 1)
  /\ card.landAttempts = MaxLandAttempts => card.status \in Terminal
GreenInv ==
  /\ 1 .. card.station - 1 \subseteq green
  /\ DoneIsEarned
TriedInv ==
  /\ (card.status \in NonTerminal /\ Kind(card) = "agent") =>
       0 .. card.leg - 1 \subseteq tried
  /\ (card.status \in {"running", "handing_off"} /\ Kind(card) = "agent") =>
       card.leg \in tried
  /\ ExhaustedTriedEveryLeg
IInv == TypeOK /\ PlaceInv /\ GreenInv /\ TriedInv

\* Attempts left, stations left, whether it is active, legs left, phase.
Phase(c) == CASE c.status = "queued" -> 3
              [] c.status = "running" -> 2
              [] c.status = "handing_off" -> 1
              [] OTHER -> 0
LegsLeft(c) == IF Kind(c) = "agent" THEN c.pipeline[c.station].legs - c.leg ELSE 0
Measure(c) ==
  <<MaxLandAttempts - c.landAttempts,
    Len(c.pipeline) - c.station,
    IF c.status \in Active THEN 1 ELSE 0,
    LegsLeft(c),
    Phase(c)>>
LexLess(m, n) ==
  \E i \in 1 .. 5 : m[i] < n[i] /\ \A j \in 1 .. i - 1 : m[j] = n[j]

\* Every automatic step brings the card closer to rest: without a human a card
\* that never goes green cannot loop for ever (docs/concepts.md, land_attempts).
DriverStepsDecrease == [][Driver => LexLess(Measure(card'), Measure(card))]_card

\* Once humans stop pressing buttons the card comes to rest and stays there.
HumansStop == <>[][~Human]_vars
ComesToRest == HumansStop => <>[](card.status \notin Active)

\* A gated leg runs only once a human pressed Approve on it.
GatedLegNeedsApproval ==
  [][(card.status = "queued" /\ card'.status = "running" /\ card.leg > 0
        /\ <<card.station, card.leg>> \in card.gated)
       => <<card.station, card.leg>> \in granted]_vars
=============================================================================
