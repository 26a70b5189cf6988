---------------------------- MODULE ChainProofs -----------------------------
(***************************************************************************)
(* Lemmas about the operators of Chain.tla, for the proofs of the modules  *)
(* that use them: where a bounce goes, what the card looks like after it.  *)
(***************************************************************************)
EXTENDS Chain, WellFoundedInduction, TLAPS

-----------------------------------------------------------------------------
(* Greatest and least elements: what the CHOOSEs of BounceTarget rest on.  *)

NatLess == {p \in Nat \X Nat : p[1] < p[2]}

\* < on the naturals, as a relation, is well-founded.
LEMMA NatLessIsWellFounded == IsWellFoundedOn(NatLess, Nat)
BY NatLessThanWellFounded DEF OpToRel, NatLess

\* A non-empty set of naturals has a least element (the first agent station).
LEMMA LeastElement ==
  ASSUME NEW S, S \subseteq Nat, S # {}
  PROVE  \E x \in S : \A y \in S : x <= y
<1>1. PICK x \in S : \A y \in S : ~ (<<y, x>> \in NatLess)
  BY NatLessIsWellFounded, WFMin
<1>2. ASSUME NEW y \in S PROVE x <= y
  <2>1. x \in Nat /\ y \in Nat
    OBVIOUS
  <2>2. <<y, x>> \in NatLess <=> y < x
    BY <2>1 DEF NatLess
  <2>3. QED
    BY <1>1, <2>1, <2>2
<1>3. QED
  BY <1>2

\* A non-empty set of naturals below n has a greatest one (the nearest build).
LEMMA GreatestElement ==
  ASSUME NEW n \in Nat, NEW S, S \subseteq 1 .. n, S # {}
  PROVE  \E x \in S : \A y \in S : y <= x
<1> DEFINE T == {n - s : s \in S}
<1>1. T \subseteq Nat
  <2>1. ASSUME NEW s \in S PROVE n - s \in Nat
    <3>1. s \in 1 .. n
      OBVIOUS
    <3>2. QED
      BY <3>1
  <2>2. QED
    BY <2>1
<1>2. T # {}
  OBVIOUS
<1>3. PICK t \in T : \A u \in T : t <= u
  BY <1>1, <1>2, LeastElement
<1>4. PICK x \in S : t = n - x
  OBVIOUS
<1>5. ASSUME NEW y \in S PROVE y <= x
  <2>1. n - y \in T
    OBVIOUS
  <2>2. t <= n - y
    BY <1>3, <2>1
  <2>3. x \in 1 .. n /\ y \in 1 .. n
    OBVIOUS
  <2>4. QED
    BY <2>2, <2>3, <1>4
<1>6. QED
  BY <1>5

-----------------------------------------------------------------------------
(* The operators of Chain.                                                 *)

\* A pipeline is a non-empty sequence of stations; its agent stations have legs.
LEMMA PipelineFacts ==
  ASSUME NEW p \in Pipelines
  PROVE  /\ Len(p) \in Nat \ {0}
         /\ DOMAIN p = 1 .. Len(p)
         /\ \A i \in DOMAIN p :
              /\ p[i] \in Station
              /\ p[i].kind = "agent" => p[i].legs > 0
              /\ p[i].kind = "land" => i = Len(p)
<1>1. ValidPipeline(p)
  BY PipelinesAssumption
<1>2. p \in Seq(Station) /\ p # << >>
  BY <1>1 DEF ValidPipeline
<1>3. DOMAIN p = 1 .. Len(p) /\ Len(p) \in Nat /\ Len(p) # 0
  BY <1>2
<1>4. \A i \in DOMAIN p : p[i] \in Station
  BY <1>2, <1>3
<1>5. QED
  BY <1>1, <1>3, <1>4 DEF ValidPipeline

\* A bounce goes back: its target is an agent station before the failing one.
LEMMA BounceGoesBack ==
  ASSUME NEW c, c.pipeline \in Pipelines,
         NEW i \in DOMAIN c.pipeline, CanBounce(c, i)
  PROVE  /\ BounceTarget(c, i) \in 1 .. i - 1
         /\ BounceTarget(c, i) \in DOMAIN c.pipeline
         /\ c.pipeline[BounceTarget(c, i)].kind = "agent"
<1>2. DOMAIN c.pipeline = 1 .. Len(c.pipeline) /\ Len(c.pipeline) \in Nat
  BY PipelineFacts
<1>3. i - 1 \in Nat /\ 1 .. i - 1 \subseteq DOMAIN c.pipeline
  BY <1>2
<1>4. Agents(c, i) \subseteq 1 .. i - 1 /\ Agents(c, i) # {}
  BY DEF Agents, CanBounce
<1>5. Builds(c, i) \subseteq Agents(c, i)
  BY DEF Builds
<1>6. BounceTarget(c, i) \in Agents(c, i)
  <2>1. CASE Builds(c, i) # {}
    <3>1. \E k \in Builds(c, i) : \A j \in Builds(c, i) : j <= k
      BY <2>1, <1>3, <1>4, <1>5, GreatestElement
    <3>2. BounceTarget(c, i) \in Builds(c, i)
      BY <3>1, <2>1 DEF BounceTarget
    <3>3. QED
      BY <3>2, <1>5
  <2>2. CASE Builds(c, i) = {}
    <3>1. Agents(c, i) \subseteq Nat
      BY <1>3, <1>4
    <3>2. \E k \in Agents(c, i) : \A j \in Agents(c, i) : k <= j
      BY <3>1, <1>4, LeastElement
    <3>3. QED
      BY <3>2, <2>2 DEF BounceTarget
  <2>3. QED
    BY <2>1, <2>2
<1>7. QED
  BY <1>3, <1>4, <1>6 DEF Agents

\* What a card looks like after Arrive, Advance and Bounce, field by field.
LEMMA ArriveFields ==
  ASSUME NEW c \in Cards, NEW i \in Nat
  PROVE  /\ Arrive(c, i) \in Cards
         /\ Arrive(c, i).pipeline = c.pipeline
         /\ Arrive(c, i).station = i
         /\ Arrive(c, i).leg = 0
         /\ Arrive(c, i).nextLeg = c.nextLeg
         /\ Arrive(c, i).landAttempts = c.landAttempts
         /\ Arrive(c, i).failure = c.failure
         /\ Arrive(c, i).status =
              IF KindAt(c, i) = "human" THEN "waiting_human" ELSE "queued"
BY DEF Arrive, Cards, Statuses, Terminal, NonTerminal

\* A station that is done leads to the end of the pipeline or to the next station.
LEMMA AdvanceFields ==
  ASSUME NEW c \in Cards, c.station \in DOMAIN c.pipeline
  PROVE  LET d == Advance(c, c.station)
         IN  /\ d \in Cards
             /\ d.pipeline = c.pipeline
             /\ d.leg = 0
             /\ d.nextLeg = c.nextLeg
             /\ d.landAttempts = c.landAttempts
             /\ d.failure = c.failure
             /\ \/ /\ c.station = Len(c.pipeline)
                   /\ d.station = c.station
                   /\ d.status = "done"
                \/ /\ c.station + 1 \in DOMAIN c.pipeline
                   /\ d.station = c.station + 1
                   /\ d.status \in {"queued", "waiting_human"}
<1>1. c.pipeline \in Pipelines /\ c.station \in Nat
  BY DEF Cards
<1>2. DOMAIN c.pipeline = 1 .. Len(c.pipeline) /\ Len(c.pipeline) \in Nat
  BY <1>1, PipelineFacts
<1>3. CASE c.station = Len(c.pipeline)
  BY <1>3 DEF Advance, Cards, Statuses, Terminal
<1>4. CASE c.station # Len(c.pipeline)
  <2>1. c.station + 1 \in DOMAIN c.pipeline
    BY <1>1, <1>2, <1>4
  <2>2. Advance(c, c.station) = Arrive(c, c.station + 1)
    BY <1>4 DEF Advance
  <2>3. c.station + 1 \in Nat
    BY <1>1
  <2>4. LET d == Arrive(c, c.station + 1)
        IN  /\ d \in Cards
            /\ d.pipeline = c.pipeline
            /\ d.station = c.station + 1
            /\ d.leg = 0
            /\ d.nextLeg = c.nextLeg
            /\ d.landAttempts = c.landAttempts
            /\ d.failure = c.failure
            /\ d.status \in {"queued", "waiting_human"}
    BY <2>3, ArriveFields, Zenon
  <2>5. QED
    BY <2>1, <2>2, <2>4
<1>5. QED
  BY <1>3, <1>4

\* A bounce spends an attempt and either goes back or fails where it is.
LEMMA BounceFields ==
  ASSUME NEW c \in Cards, c.station \in DOMAIN c.pipeline,
         NEW failure \in Failures, c.landAttempts < MaxLandAttempts
  PROVE  LET d == Bounce(c, failure)
         IN  /\ d \in Cards
             /\ d.pipeline = c.pipeline
             /\ d.nextLeg = c.nextLeg
             /\ d.landAttempts = c.landAttempts + 1
             /\ \/ /\ d.station \in 1 .. c.station - 1
                   /\ d.leg = 0
                   /\ d.status = "queued"
                   /\ d.landAttempts < MaxLandAttempts
                   /\ Kind(d) = "agent"
                \/ /\ d.station = c.station
                   /\ d.leg = c.leg
                   /\ d.status = "failed"
                   /\ d.failure = failure
<1>1. c.landAttempts \in 0 .. MaxLandAttempts /\ MaxLandAttempts \in Nat
  BY MaxLandAttemptsAssumption DEF Cards
<1>2. c.landAttempts + 1 \in 0 .. MaxLandAttempts
  BY <1>1
<1>3. CASE CanBounce(c, c.station) /\ c.landAttempts + 1 < MaxLandAttempts
  <2>1. /\ BounceTarget(c, c.station) \in 1 .. c.station - 1
        /\ BounceTarget(c, c.station) \in DOMAIN c.pipeline
        /\ c.pipeline[BounceTarget(c, c.station)].kind = "agent"
    BY <1>3, BounceGoesBack DEF Cards
  <2>2. BounceTarget(c, c.station) \in Nat
    BY <2>1 DEF Cards
  <2>3. QED
    BY <1>2, <1>3, <2>1, <2>2
       DEF Bounce, Cards, Statuses, NonTerminal, Kind, KindAt
<1>4. CASE ~ (CanBounce(c, c.station) /\ c.landAttempts + 1 < MaxLandAttempts)
  BY <1>2, <1>4 DEF Bounce, Cards, Statuses, Terminal
<1>5. QED
  BY <1>3, <1>4

-----------------------------------------------------------------------------
(* `transition` as a whole.                                                *)

\* A station has a kind exactly when it is one of the pipeline.
LEMMA KindOfStation ==
  ASSUME NEW c \in Cards
  PROVE  Kind(c) # "none" <=> c.station \in DOMAIN c.pipeline
<1>1. c.pipeline \in Pipelines
  BY DEF Cards
<1>2. \A i \in DOMAIN c.pipeline : c.pipeline[i].kind # "none"
  BY <1>1, PipelineFacts DEF Station, Kinds
<1>3. QED
  BY <1>2 DEF Kind, KindAt

\* A new card, and the card that is enqueued, are well-formed.
LEMMA NewCardWellFormed ==
  ASSUME NEW p \in Pipelines
  PROVE  WellFormed(Enqueue(NewCard(p, {})))
<1>1. NewCard(p, {}) \in Cards /\ NewCard(p, {}).pipeline = p
      /\ NewCard(p, {}).landAttempts = 0
  BY MaxLandAttemptsAssumption DEF NewCard, Cards, Statuses, NonTerminal, Failures
<1>2. 1 \in DOMAIN p /\ 1 \in Nat
  BY PipelineFacts
<1>3. QED
  BY <1>1, <1>2, ArriveFields, MaxLandAttemptsAssumption
     DEF WellFormed, Enqueue

\* Advance and Bounce from a station of the pipeline keep a card well-formed.
LEMMA AdvanceWellFormed ==
  ASSUME NEW c, WellFormed(c), c.station \in DOMAIN c.pipeline,
         c.status \in NonTerminal
  PROVE  WellFormed(Advance(c, c.station))
<1>1. c \in Cards /\ c.landAttempts # MaxLandAttempts
  BY DEF WellFormed, Terminal, NonTerminal
<1>2. QED
  BY <1>1, AdvanceFields DEF WellFormed

LEMMA BounceWellFormed ==
  ASSUME NEW c, WellFormed(c), c.station \in DOMAIN c.pipeline,
         c.status \in NonTerminal, NEW failure \in Failures
  PROVE  WellFormed(Bounce(c, failure))
<1>1. c \in Cards /\ c.landAttempts \in 0 .. MaxLandAttempts - 1
      /\ c.landAttempts < MaxLandAttempts
  BY MaxLandAttemptsAssumption DEF WellFormed, Cards, Terminal, NonTerminal
<1>2. QED
  BY <1>1, BounceFields, MaxLandAttemptsAssumption DEF WellFormed, Terminal

\* Every legal action makes a well-formed card of a well-formed card: the
\* machine never leaves its own state space (chain.mjs transition).
THEOREM TransitionWellFormed ==
  ASSUME NEW c, NEW d, WellFormed(c), Transition(c, d)
  PROVE  WellFormed(d)
<1>1. c \in Cards /\ c.pipeline \in Pipelines
      /\ c.station \in Nat /\ c.leg \in Nat /\ c.leg + 1 \in Nat
      /\ c.nextLeg \in Nat /\ c.status \in Statuses
      /\ c.landAttempts \in 0 .. MaxLandAttempts
      /\ MaxLandAttempts \in Nat \ {0}
  BY MaxLandAttemptsAssumption DEF WellFormed, Cards
<1>2. c.status \in NonTerminal => c.landAttempts # MaxLandAttempts
  BY DEF WellFormed, Terminal, NonTerminal
<1>3. 1 \in DOMAIN c.pipeline /\ 1 \in Nat
  BY <1>1, PipelineFacts
<1>4. CASE CanEnqueue(c) /\ d = Enqueue(c)
  BY <1>1, <1>2, <1>3, <1>4, ArriveFields
     DEF CanEnqueue, Enqueue, WellFormed, NonTerminal
<1>5. CASE CanStart(c) /\ d = Start(c)
  BY <1>1, <1>2, <1>5, KindOfStation
     DEF CanStart, Start, WellFormed, NonTerminal, Statuses, Cards
<1>6. CASE CanLegResult(c) /\ \E o \in Outcomes : d = LegResult(c, o)
  <2>1. PICK o \in Outcomes : d = LegResult(c, o)
    BY <1>6
  <2>2. c.status = "running" /\ c.station \in DOMAIN c.pipeline
    BY <1>1, <1>6, KindOfStation DEF CanLegResult
  <2>3. CASE o = "completed"
    BY <2>1, <2>2, <2>3, AdvanceWellFormed
       DEF LegResult, HandoffOutcomes, NoAdvanceOutcomes, NonTerminal
  <2>4. CASE o # "completed"
    <3>1. \/ d = [c EXCEPT !.status = "killed"]
          \/ d = [c EXCEPT !.status = "failed", !.failure = "environment"]
          \/ d = [c EXCEPT !.status = "handing_off", !.nextLeg = c.leg + 1]
          \/ d = [c EXCEPT !.status = "failed", !.failure = "chain"]
      BY <2>1, <2>4 DEF LegResult, Outcomes, HandoffOutcomes, NoAdvanceOutcomes
    <3>2. QED
      BY <1>1, <1>2, <2>2, <3>1
         DEF WellFormed, Cards, Statuses, Terminal, NonTerminal, Failures
  <2>5. QED
    BY <2>3, <2>4
<1>7. CASE CanBundleWritten(c) /\ d = BundleWritten(c)
  <2>1. TargetLeg(c) \in Nat /\ c.status = "handing_off"
    BY <1>1, <1>7 DEF TargetLeg, CanBundleWritten
  <2> DEFINE l == TargetLeg(c)
             s == IF <<c.station, l>> \in c.gated THEN "needs_approval" ELSE "queued"
  <2>2. d = [c EXCEPT !.leg = l, !.nextLeg = 0, !.status = s]
    BY <1>7 DEF BundleWritten
  <2>3. s \in {"needs_approval", "queued"}
    OBVIOUS
  <2> HIDE DEF l, s
  <2>4. l \in Nat
    BY <2>1 DEF l
  <2>5. QED
    BY <1>1, <1>2, <2>1, <2>2, <2>3, <2>4
       DEF WellFormed, Cards, Statuses, NonTerminal, Terminal
<1>8. CASE CanTestResult(c) /\ \E green \in BOOLEAN : d = TestResult(c, green)
  <2>1. c.status = "running" /\ c.station \in DOMAIN c.pipeline
    BY <1>1, <1>8, KindOfStation DEF CanTestResult
  <2>2. d = Advance(c, c.station) \/ d = Bounce(c, "test")
    BY <1>8 DEF TestResult
  <2>3. QED
    BY <2>1, <2>2, AdvanceWellFormed, BounceWellFormed DEF NonTerminal, Failures
<1>9. CASE CanLandResult(c) /\ \E verdict \in LandVerdicts : d = LandResult(c, verdict)
  <2>1. c.status = "running" /\ c.station \in DOMAIN c.pipeline
    BY <1>1, <1>9, KindOfStation DEF CanLandResult
  <2>2. \/ d = Advance(c, c.station) \/ d = Bounce(c, "land")
        \/ d = [c EXCEPT !.status = "waiting_human"]
    BY <1>9 DEF LandResult, LandVerdicts
  <2>3. CASE d = [c EXCEPT !.status = "waiting_human"]
    BY <1>1, <1>2, <2>1, <2>3 DEF WellFormed, Cards, Statuses, NonTerminal
  <2>4. QED
    BY <2>1, <2>2, <2>3, AdvanceWellFormed, BounceWellFormed DEF NonTerminal, Failures
<1>10. CASE CanApprove(c) /\ d = Approve(c)
  <2>1. CASE c.status = "needs_approval"
    BY <1>1, <1>2, <1>10, <2>1
       DEF Approve, WellFormed, Cards, Statuses, NonTerminal
  <2>2. CASE c.status = "waiting_human"
    BY <1>10, <2>2, AdvanceWellFormed DEF Approve, WellFormed, NonTerminal
  <2>3. QED
    BY <1>10, <2>1, <2>2 DEF CanApprove
<1>11. CASE CanReassign(c) /\ d = Reassign(c)
  <2>1. c.gated \ {<<c.station, c.leg>>} \subseteq Nat \X Nat
    BY <1>1 DEF Cards
  <2>2. QED
    BY <1>1, <1>2, <1>11, <2>1
       DEF CanReassign, Reassign, WellFormed, Cards, Statuses, NonTerminal
<1>12. CASE CanRerun(c) /\ d = Rerun(c)
  <2>1. PICK a \in Cards : /\ a = Arrive(c, 1)
                           /\ a.pipeline = c.pipeline /\ a.station = 1
    BY <1>1, <1>3, ArriveFields
  <2>2. d = [a EXCEPT !.landAttempts = 0, !.failure = "none"]
    BY <1>12, <2>1 DEF Rerun
  <2>3. 0 \in 0 .. MaxLandAttempts /\ 0 # MaxLandAttempts
    BY <1>1
  <2>4. d \in Cards
    BY <2>2, <2>3 DEF Cards, Failures
  <2>5. d.pipeline = c.pipeline /\ d.station \in DOMAIN c.pipeline /\ d.landAttempts = 0
    BY <1>3, <2>1, <2>2 DEF Cards
  <2>6. QED
    BY <2>3, <2>4, <2>5 DEF WellFormed
<1>13. CASE \/ CanPause(c) /\ d = Pause(c)
            \/ CanTakeOver(c) /\ d = TakeOver(c)
            \/ CanResume(c) /\ d = Resume(c)
            \/ CanKill(c) /\ d = Kill(c)
            \/ CanHandoffNow(c) /\ d = HandoffNow(c)
  BY <1>1, <1>2, <1>13
     DEF CanPause, Pause, CanTakeOver, TakeOver, CanResume, Resume, CanKill, Kill,
         CanHandoffNow, HandoffNow, WellFormed, Cards, Statuses, NonTerminal, Terminal
<1>14. QED
  BY <1>4, <1>5, <1>6, <1>7, <1>8, <1>9, <1>10, <1>11, <1>12, <1>13 DEF Transition
=============================================================================
