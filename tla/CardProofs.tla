----------------------------- MODULE CardProofs -----------------------------
(***************************************************************************)
(* What TLAPS proves of Card.tla, for every set of valid pipelines, every  *)
(* choice of gated entries and every cap on landing attempts.              *)
(***************************************************************************)
EXTENDS Card, ChainProofs, TLAPS

-----------------------------------------------------------------------------
(* The inductive invariant.                                                *)

\* What every step of the proof below knows of the card and its pipeline.
LEMMA CardFacts ==
  ASSUME IInv
  PROVE  /\ card \in Cards
         /\ card.pipeline \in Pipelines
         /\ Len(card.pipeline) \in Nat \ {0}
         /\ DOMAIN card.pipeline = 1 .. Len(card.pipeline)
         /\ card.station \in 0 .. Len(card.pipeline)
         /\ card.leg \in Nat /\ card.nextLeg \in Nat
         /\ card.landAttempts \in 0 .. MaxLandAttempts
         /\ MaxLandAttempts \in Nat
         /\ card.status \in Statuses
         /\ \A i \in DOMAIN card.pipeline :
              /\ card.pipeline[i].legs \in Nat
              /\ card.pipeline[i].kind = "agent" => card.pipeline[i].legs > 0
<1>1. card \in Cards /\ PlaceInv
  BY DEF IInv, TypeOK
<1>2. card.pipeline \in Pipelines
  BY <1>1 DEF Cards
<1>3. /\ Len(card.pipeline) \in Nat \ {0}
      /\ DOMAIN card.pipeline = 1 .. Len(card.pipeline)
      /\ \A i \in DOMAIN card.pipeline :
           /\ card.pipeline[i] \in Station
           /\ card.pipeline[i].kind = "agent" => card.pipeline[i].legs > 0
  BY <1>2, PipelineFacts
<1>4. \A i \in DOMAIN card.pipeline : card.pipeline[i].legs \in Nat
  BY <1>3 DEF Station
<1>5. QED
  BY <1>1, <1>2, <1>3, <1>4, MaxLandAttemptsAssumption DEF Cards, PlaceInv

\* A card that goes to the first leg of a station whose predecessors are all
\* green keeps the invariant, if its status is one it may arrive with.
LEMMA AtFirstLeg ==
  ASSUME IInv, TypeOK',
         card'.pipeline = card.pipeline,
         card'.station \in 1 .. Len(card.pipeline),
         card'.leg = 0,
         card'.status \in {"queued", "waiting_human"},
         card'.landAttempts < MaxLandAttempts,
         1 .. card'.station - 1 \subseteq green'
  PROVE  IInv'
<1>1. PlaceInv'
  BY CardFacts DEF PlaceInv, Kind, KindAt, HasLeg
<1>2. GreenInv'
  BY DEF GreenInv, DoneIsEarned
<1>3. TriedInv'
  BY DEF TriedInv, ExhaustedTriedEveryLeg
<1>4. QED
  BY <1>1, <1>2, <1>3 DEF IInv

\* A card that stays on its leg keeps the invariant when its new status asks
\* nothing more of it than the old one did.
LEMMA SameLeg ==
  ASSUME IInv, TypeOK',
         card.status \in NonTerminal,
         card'.pipeline = card.pipeline,
         card'.station = card.station,
         card'.leg = card.leg,
         card'.landAttempts = card.landAttempts,
         green' = green, tried' = tried,
         card'.status \in {"queued", "paused"} => card.station # 0,
         card'.status \in {"queued", "paused", "killed"}
  PROVE  IInv'
<1>1. PlaceInv'
  BY CardFacts DEF IInv, PlaceInv, Kind, KindAt, HasLeg, NonTerminal, Terminal
<1>2. GreenInv'
  BY DEF IInv, GreenInv, DoneIsEarned
<1>3. TriedInv'
  BY DEF IInv, TriedInv, ExhaustedTriedEveryLeg, Kind, KindAt, NonTerminal
<1>4. QED
  BY <1>1, <1>2, <1>3 DEF IInv

\* A card as the ledger creates it.
LEMMA InitIInv == Init => IInv
<1> SUFFICES ASSUME Init PROVE IInv
  OBVIOUS
<1>0. PICK p \in Pipelines : \E g \in SUBSET ChainEntries(p) : card = NewCard(p, g)
  BY DEF Init
<1>1. PICK g \in SUBSET ChainEntries(p) : card = NewCard(p, g)
  BY <1>0
<1>2. DOMAIN p = 1 .. Len(p) /\ Len(p) \in Nat \ {0}
      /\ \A i \in DOMAIN p : p[i].legs \in Nat
  BY PipelineFacts DEF Station
<1>3. g \in SUBSET (Nat \X Nat)
  <2>1. ASSUME NEW i \in DOMAIN p PROVE {i} \X (0 .. p[i].legs - 1) \subseteq Nat \X Nat
    BY <1>2
  <2>2. QED
    BY <2>1 DEF ChainEntries
<1>4. TypeOK
  BY <1>1, <1>3, MaxLandAttemptsAssumption
     DEF Init, TypeOK, NewCard, Cards, Statuses, NonTerminal, Failures
<1>5. PlaceInv
  BY <1>1, <1>2, MaxLandAttemptsAssumption
     DEF PlaceInv, NewCard, Kind, KindAt
<1>6. GreenInv
  BY <1>1 DEF GreenInv, DoneIsEarned, NewCard
<1>7. TriedInv
  BY <1>1, <1>2 DEF TriedInv, ExhaustedTriedEveryLeg, NewCard, Kind, KindAt
<1>8. QED
  BY <1>4, <1>5, <1>6, <1>7 DEF IInv

\* A card that is done or failed at its station keeps the invariant when the
\* history says so.
LEMMA AtRest ==
  ASSUME IInv, TypeOK',
         card'.pipeline = card.pipeline,
         card'.station = card.station, card.station # 0,
         Kind(card) = "agent" => HasLeg(card', card'.leg),
         card'.status \in Terminal,
         1 .. card.station - 1 \subseteq green',
         card'.status = "done" => 1 .. Len(card.pipeline) \subseteq green',
         (card'.status = "failed" /\ card'.failure = "chain")
           => 0 .. card.pipeline[card.station].legs - 1 \subseteq tried'
  PROVE  IInv'
<1>1. PlaceInv'
  BY CardFacts DEF PlaceInv, Kind, KindAt, Terminal
<1>2. GreenInv'
  BY CardFacts DEF GreenInv, DoneIsEarned
<1>3. TriedInv'
  BY DEF TriedInv, ExhaustedTriedEveryLeg, Terminal, NonTerminal
<1>4. QED
  BY <1>1, <1>2, <1>3 DEF IInv

\* Every action keeps the invariant, each by the conjuncts it can disturb.
LEMMA StepIInv == IInv /\ [Next]_vars => IInv'
<1> SUFFICES ASSUME IInv, [Next]_vars PROVE IInv'
  OBVIOUS
<1> USE CardFacts
<1>1. card.status \in NonTerminal => card.landAttempts < MaxLandAttempts
  BY DEF IInv, PlaceInv, Terminal, NonTerminal
<1>2. TypeOK /\ PlaceInv /\ GreenInv /\ TriedInv
  BY DEF IInv
<1>3. Kind(card) # "none" <=> card.station \in 1 .. Len(card.pipeline)
  BY PipelineFacts DEF Kind, KindAt, Station, Kinds
<1>0. card.leg + 1 \in Nat /\ card.station \in Nat
  BY DEF Cards
<1>4. CASE DoEnqueue
  <2>1. card.status = "backlog" /\ card' = Arrive(card, 1) /\ 1 \in Nat
    BY <1>4 DEF DoEnqueue, CanEnqueue, Enqueue
  <2>2. TypeOK'
    BY <1>2, <1>4, <2>1, ArriveFields DEF DoEnqueue, TypeOK
  <2>3. /\ card'.pipeline = card.pipeline /\ card'.station = 1 /\ card'.leg = 0
        /\ card'.status \in {"queued", "waiting_human"}
        /\ card'.landAttempts < MaxLandAttempts
    BY <1>1, <2>1, ArriveFields DEF NonTerminal
  <2>4. QED
    BY <2>2, <2>3, AtFirstLeg
<1>5. CASE DoStart
  <2>1. /\ card.status = "queued" /\ card.station \in 1 .. Len(card.pipeline)
        /\ card' = [card EXCEPT !.status = card'.status]
        /\ card'.status \in {"running", "waiting_human"}
        /\ Kind(card) = "agent" => card'.status = "running"
        /\ Kind(card) = "human" <=> card'.status = "waiting_human"
    BY <1>3, <1>5 DEF DoStart, CanStart, Start, Cards
  <2>2. green' = {i \in green : i < card.station} /\ tried' = tried \union {card.leg}
    BY <1>5 DEF DoStart
  <2>3. TypeOK'
    BY <1>2, <1>5, <2>1, <2>2
       DEF DoStart, TypeOK, Cards, Statuses, NonTerminal
  <2>4. PlaceInv'
    BY <1>1, <1>2, <2>1 DEF PlaceInv, Kind, KindAt, HasLeg, NonTerminal, Cards
  <2>5. GreenInv'
    BY <1>2, <2>1, <2>2 DEF GreenInv, DoneIsEarned, Cards
  <2>6. TriedInv'
    BY <1>2, <2>1, <2>2
       DEF TriedInv, ExhaustedTriedEveryLeg, Kind, KindAt, NonTerminal, Cards
  <2>7. QED
    BY <2>3, <2>4, <2>5, <2>6 DEF IInv
<1>6. CASE LegLaunched
  <2>1. card' = [card EXCEPT !.resume = FALSE] /\ green' = green /\ tried' = tried
        /\ granted' = granted
    BY <1>6 DEF LegLaunched
  <2>2. TypeOK'
    BY <1>2, <2>1 DEF TypeOK, Cards
  <2>3. PlaceInv' /\ GreenInv' /\ TriedInv'
    BY <1>2, <2>1
       DEF PlaceInv, GreenInv, DoneIsEarned, TriedInv, ExhaustedTriedEveryLeg,
           Kind, KindAt, HasLeg, Cards
  <2>4. QED
    BY <2>2, <2>3 DEF IInv
<1>7. ASSUME NEW outcome \in Outcomes, DoLegResult(outcome) PROVE IInv'
  <2>1. /\ card.status = "running" /\ Kind(card) = "agent"
        /\ card' = LegResult(card, outcome) /\ granted' = granted
        /\ card.station \in 1 .. Len(card.pipeline)
        /\ HasLeg(card, card.leg)
        /\ card.landAttempts < MaxLandAttempts
    BY <1>1, <1>2, <1>3, <1>7
       DEF DoLegResult, CanLegResult, PlaceInv, NonTerminal
  <2>2. CASE outcome = "completed"
    <3>1. /\ card' = Advance(card, card.station)
          /\ green' = green \union {card.station} /\ tried' = {}
      BY <1>7, <2>1, <2>2
         DEF DoLegResult, LegResult, HandoffOutcomes, NoAdvanceOutcomes
    <3>2. TypeOK'
      <4>1. card' \in Cards
        BY <2>1, <3>1, AdvanceFields
      <4>2. green' \subseteq Nat
        BY <1>0, <1>2, <3>1 DEF TypeOK
      <4>3. QED
        BY <1>2, <2>1, <3>1, <4>1, <4>2 DEF TypeOK
    <3>3. CASE card'.status = "done"
      BY <1>2, <2>1, <3>1, <3>2, <3>3, AdvanceFields, AtRest
         DEF GreenInv, Terminal, HasLeg, Kind, KindAt
    <3>4. CASE card'.status # "done"
      BY <1>2, <2>1, <3>1, <3>2, <3>4, AdvanceFields, AtFirstLeg DEF GreenInv
    <3>5. QED
      BY <3>3, <3>4
  <2>3. CASE outcome \in HandoffOutcomes /\ HasLeg(card, card.leg + 1)
    <3>1. /\ card' = [card EXCEPT !.status = "handing_off", !.nextLeg = card.leg + 1]
          /\ green' = green /\ tried' = tried
      BY <1>7, <2>3 DEF DoLegResult, LegResult, HandoffOutcomes, NoAdvanceOutcomes
    <3>2. TypeOK'
      BY <1>0, <1>2, <2>1, <3>1 DEF TypeOK, Cards, Statuses, NonTerminal
    <3>3. PlaceInv'
      BY <1>2, <2>1, <2>3, <3>1 DEF PlaceInv, Kind, KindAt, HasLeg, Cards
    <3>4. GreenInv' /\ TriedInv'
      BY <1>2, <2>1, <3>1
         DEF GreenInv, DoneIsEarned, TriedInv, ExhaustedTriedEveryLeg, Kind, KindAt,
             NonTerminal, Cards
    <3>5. QED
      BY <3>2, <3>3, <3>4 DEF IInv
  <2>4. CASE /\ outcome # "completed"
             /\ ~ (outcome \in HandoffOutcomes /\ HasLeg(card, card.leg + 1))
    <3>1. /\ card' = [card EXCEPT !.status = card'.status, !.failure = card'.failure]
          /\ card'.status \in {"failed", "killed"}
          /\ card'.failure \in Failures
          /\ (card'.status = "failed" /\ card'.failure = "chain")
               => ~ HasLeg(card, card.leg + 1)
          /\ green' = green /\ tried' = tried
      BY <1>7, <2>1, <2>4
         DEF DoLegResult, LegResult, Outcomes, HandoffOutcomes, NoAdvanceOutcomes,
             Failures, Cards
    <3>2. TypeOK'
      BY <1>2, <2>1, <3>1 DEF TypeOK, Cards, Statuses, Terminal
    <3>3. (card'.status = "failed" /\ card'.failure = "chain")
            => 0 .. card.pipeline[card.station].legs - 1 \subseteq tried'
      BY <1>2, <2>1, <3>1 DEF TriedInv, NonTerminal, HasLeg
    <3>4. /\ card'.pipeline = card.pipeline /\ card'.station = card.station
          /\ HasLeg(card', card'.leg)
          /\ card'.status \in Terminal /\ card'.status # "done"
          /\ 1 .. card.station - 1 \subseteq green'
      BY <1>2, <2>1, <3>1 DEF GreenInv, Terminal, HasLeg, Kind, KindAt, Cards
    <3>5. QED
      BY <2>1, <3>2, <3>3, <3>4, AtRest
  <2>5. QED
    BY <2>2, <2>3, <2>4
<1>8. CASE DoBundleWritten
  <2>1. /\ card.status = "handing_off" /\ HasLeg(card, card.leg + 1)
        /\ TargetLeg(card) = card.leg + 1
        /\ card.station \in 1 .. Len(card.pipeline)
        /\ card.landAttempts < MaxLandAttempts
    BY <1>1, <1>2, <1>3, <1>8
       DEF DoBundleWritten, CanBundleWritten, PlaceInv, TargetLeg, NonTerminal, HasLeg
  <2> DEFINE l == card.leg + 1
             s == IF <<card.station, l>> \in card.gated
                  THEN "needs_approval" ELSE "queued"
  <2>2. /\ card' = [card EXCEPT !.leg = l, !.nextLeg = 0, !.status = s]
        /\ s \in {"needs_approval", "queued"} /\ l \in Nat
        /\ green' = green /\ tried' = tried /\ granted' = granted
    BY <1>8, <2>1 DEF DoBundleWritten, BundleWritten
  <2> HIDE DEF s
  <2>3. TypeOK'
    BY <1>0, <1>2, <2>2 DEF TypeOK, Cards, Statuses, NonTerminal
  <2>4. PlaceInv'
    BY <1>0, <1>2, <2>1, <2>2 DEF PlaceInv, Kind, KindAt, HasLeg, Cards
  <2>5. GreenInv'
    BY <1>2, <2>1, <2>2 DEF GreenInv, DoneIsEarned, Cards
  <2>6. TriedInv'
    <3>1. 0 .. card.leg \subseteq tried
      BY <1>2, <2>1 DEF TriedInv, HasLeg, NonTerminal
    <3>2. QED
      BY <1>0, <2>2, <3>1 DEF TriedInv, ExhaustedTriedEveryLeg, Cards
  <2>7. QED
    BY <2>3, <2>4, <2>5, <2>6 DEF IInv
<1>9. \* A red test or a bounced land.
      ASSUME NEW failure \in {"test", "land"},
             card.status = "running", Kind(card) # "agent", Kind(card) # "none",
             card' = Bounce(card, failure), green' = green, tried' = {},
             granted' \subseteq Nat \X Nat
      PROVE IInv'
  <2>1. /\ card.station \in 1 .. Len(card.pipeline)
        /\ card.landAttempts < MaxLandAttempts
    BY <1>1, <1>3, <1>9 DEF NonTerminal
  <2>2. TypeOK'
    BY <1>2, <1>9, <2>1, BounceFields DEF TypeOK, Failures
  <2>3. CASE card'.status = "queued"
    <3>1. card'.station \in 1 .. card.station - 1
      BY <1>9, <2>1, <2>3, BounceFields DEF Failures
    <3>2. 1 .. card'.station - 1 \subseteq green'
      BY <1>2, <1>9, <2>1, <3>1 DEF GreenInv
    <3>3. QED
      BY <1>9, <2>1, <2>2, <2>3, <3>1, <3>2, BounceFields, AtFirstLeg DEF Failures
  <2>4. CASE card'.status = "failed"
    BY <1>2, <1>9, <2>1, <2>2, <2>4, BounceFields, AtRest
       DEF Failures, GreenInv, Terminal
  <2>5. QED
    BY <1>9, <2>1, <2>3, <2>4, BounceFields DEF Failures
<1>10. \* A station without an agent that passes.
       ASSUME card.status \in {"running", "waiting_human"}, Kind(card) # "none",
              card' = Advance(card, card.station), granted' = granted,
              green' = green \union {card.station}, tried' = {}
       PROVE IInv'
  <2>1. /\ card.station \in 1 .. Len(card.pipeline)
        /\ card.landAttempts < MaxLandAttempts
    BY <1>1, <1>3, <1>10 DEF NonTerminal
  <2>2. TypeOK'
    <3>1. card' \in Cards
      BY <1>10, <2>1, AdvanceFields
    <3>2. green' \subseteq Nat
      BY <1>0, <1>2, <1>10 DEF TypeOK
    <3>3. QED
      BY <1>2, <1>10, <3>1, <3>2 DEF TypeOK
  <2>3. CASE card'.status = "done"
    BY <1>2, <1>10, <2>1, <2>2, <2>3, AdvanceFields, AtRest
       DEF GreenInv, Terminal, HasLeg, Kind, KindAt
  <2>4. CASE card'.status # "done"
    BY <1>2, <1>10, <2>1, <2>2, <2>4, AdvanceFields, AtFirstLeg DEF GreenInv
  <2>5. QED
    BY <2>3, <2>4
<1>11. ASSUME NEW isGreen \in BOOLEAN, DoTestResult(isGreen) PROVE IInv'
  <2>1. card.status = "running" /\ Kind(card) = "test" /\ tried' = {}
    BY <1>11 DEF DoTestResult, CanTestResult
  <2>2. CASE isGreen
    BY <1>10, <1>11, <2>1, <2>2 DEF DoTestResult, TestResult
  <2>3. CASE ~ isGreen
    BY <1>9, <1>11, <2>1, <2>3 DEF DoTestResult, TestResult
  <2>4. QED
    BY <2>2, <2>3
<1>12. ASSUME NEW verdict \in LandVerdicts, DoLandResult(verdict) PROVE IInv'
  <2>1. card.status = "running" /\ Kind(card) = "land" /\ tried' = {}
    BY <1>12 DEF DoLandResult, CanLandResult
  <2>2. CASE verdict = "landed"
    BY <1>10, <1>12, <2>1, <2>2 DEF DoLandResult, LandResult
  <2>3. CASE verdict = "bounced"
    BY <1>9, <1>12, <2>1, <2>3 DEF DoLandResult, LandResult
  <2>4. CASE verdict = "pr"
    <3>1. /\ card' = [card EXCEPT !.status = "waiting_human"]
          /\ green' = green /\ granted' = granted
      BY <1>12, <2>4 DEF DoLandResult, LandResult
    <3>2. TypeOK'
      BY <1>2, <2>1, <3>1 DEF TypeOK, Cards, Statuses, NonTerminal
    <3>3. PlaceInv'
      BY <1>1, <1>2, <2>1, <3>1 DEF PlaceInv, Kind, KindAt, HasLeg, NonTerminal, Cards
    <3>4. GreenInv' /\ TriedInv'
      BY <1>2, <2>1, <3>1
         DEF GreenInv, DoneIsEarned, TriedInv, ExhaustedTriedEveryLeg, Kind, KindAt,
             Cards
    <3>5. QED
      BY <3>2, <3>3, <3>4 DEF IInv
  <2>5. QED
    BY <2>2, <2>3, <2>4 DEF LandVerdicts
<1>13. CASE DoPause
  <2>1. /\ card' = [card EXCEPT !.status = "paused"] /\ card.status = "running"
        /\ green' = green /\ tried' = tried /\ granted' = granted
    BY <1>13 DEF DoPause, CanPause, Pause
  <2>2. TypeOK'
    BY <1>2, <2>1 DEF TypeOK, Cards, Statuses, NonTerminal
  <2>3. QED
    BY <1>2, <2>1, <2>2, SameLeg DEF PlaceInv, NonTerminal, Cards
<1>14. CASE DoTakeOver
  <2>1. /\ card' = [card EXCEPT !.status = "paused"] /\ card.status \in NonTerminal
        /\ Kind(card) = "agent"
        /\ green' = green /\ tried' = tried /\ granted' = granted
    BY <1>14 DEF DoTakeOver, CanTakeOver, TakeOver
  <2>2. TypeOK'
    BY <1>2, <2>1 DEF TypeOK, Cards, Statuses, NonTerminal
  <2>3. QED
    BY <1>3, <2>1, <2>2, SameLeg DEF Cards
<1>15. CASE DoResume
  <2>1. /\ card' = [card EXCEPT !.status = "queued", !.resume = TRUE]
        /\ card.status = "paused"
        /\ green' = green /\ tried' = tried /\ granted' = granted
    BY <1>15 DEF DoResume, CanResume, Resume
  <2>2. TypeOK'
    BY <1>2, <2>1 DEF TypeOK, Cards, Statuses, NonTerminal
  <2>3. QED
    BY <1>2, <2>1, <2>2, SameLeg DEF PlaceInv, NonTerminal, Cards
<1>16. CASE DoKill
  <2>1. /\ card' = [card EXCEPT !.status = "killed"] /\ card.status \in NonTerminal
        /\ green' = green /\ tried' = tried /\ granted' = granted
    BY <1>16 DEF DoKill, CanKill, Kill
  <2>2. TypeOK'
    BY <1>2, <2>1 DEF TypeOK, Cards, Statuses, Terminal
  <2>3. QED
    BY <2>1, <2>2, SameLeg DEF Cards
<1>17. CASE DoReassign
  <2>1. /\ card' = [card EXCEPT !.status = "queued",
                                !.gated = @ \ {<<card.station, card.leg>>}]
        /\ card.status \in NonTerminal /\ Kind(card) = "agent"
        /\ green' = green /\ tried' = tried /\ granted' = granted
    BY <1>17 DEF DoReassign, CanReassign, Reassign
  <2>2. TypeOK'
    BY <1>2, <2>1 DEF TypeOK, Cards, Statuses, NonTerminal
  <2>3. QED
    BY <1>3, <2>1, <2>2, SameLeg DEF Cards
<1>18. CASE DoHandoffNow
  <2>1. /\ card' = [card EXCEPT !.status = "handing_off", !.nextLeg = card.leg + 1]
        /\ card.status = "running" /\ HasLeg(card, card.leg + 1)
        /\ green' = green /\ tried' = tried /\ granted' = granted
    BY <1>18 DEF DoHandoffNow, CanHandoffNow, HandoffNow
  <2>2. TypeOK'
    BY <1>0, <1>2, <2>1 DEF TypeOK, Cards, Statuses, NonTerminal
  <2>3. PlaceInv'
    BY <1>1, <1>2, <2>1 DEF PlaceInv, Kind, KindAt, HasLeg, NonTerminal, Cards
  <2>4. GreenInv' /\ TriedInv'
    BY <1>2, <2>1
       DEF GreenInv, DoneIsEarned, TriedInv, ExhaustedTriedEveryLeg, Kind, KindAt,
           NonTerminal, Cards
  <2>5. QED
    BY <2>2, <2>3, <2>4 DEF IInv
<1>19. CASE DoApprove
  <2>1. CASE card.status = "needs_approval"
    <3>1. /\ card' = [card EXCEPT !.status = "queued"]
          /\ Kind(card) = "agent"
          /\ green' = green /\ tried' = tried
          /\ granted' = granted \union {<<card.station, card.leg>>}
      BY <1>2, <1>19, <2>1 DEF DoApprove, Approve, PlaceInv
    <3>2. TypeOK'
      BY <1>2, <3>1 DEF TypeOK, Cards, Statuses, NonTerminal
    <3>3. QED
      BY <1>3, <2>1, <3>1, <3>2, SameLeg DEF NonTerminal, Cards
  <2>2. CASE card.status # "needs_approval"
    <3>1. /\ card.status = "waiting_human" /\ card' = Advance(card, card.station)
          /\ green' = green \union {card.station} /\ tried' = {} /\ granted' = granted
      BY <1>19, <2>2 DEF DoApprove, CanApprove, Approve
    <3>2. Kind(card) # "none"
      BY <1>2, <1>3, <3>1 DEF PlaceInv
    <3>3. QED
      BY <1>10, <3>1, <3>2
  <2>3. QED
    BY <2>1, <2>2
<1>20. CASE DoRerun
  <2>1. /\ card' = [Arrive(card, 1) EXCEPT !.landAttempts = 0, !.failure = "none"]
        /\ green' = {} /\ tried' = {} /\ granted' = {} /\ 1 \in Nat
    BY <1>20 DEF DoRerun, Rerun
  <2>2. Arrive(card, 1) \in Cards
    BY ArriveFields
  <2>3. TypeOK'
    <3>1. 0 \in 0 .. MaxLandAttempts /\ "none" \in Failures
      BY DEF Failures
    <3>2. card' \in Cards
      BY <2>1, <2>2, <3>1 DEF Cards
    <3>3. QED
      BY <2>1, <3>2 DEF TypeOK
  <2>4. /\ card'.pipeline = card.pipeline /\ card'.station = 1 /\ card'.leg = 0
        /\ card'.status \in {"queued", "waiting_human"} /\ card'.landAttempts = 0
    BY <2>1 DEF Arrive, Cards
  <2>5. QED
    BY <2>1, <2>3, <2>4, AtFirstLeg, MaxLandAttemptsAssumption
<1>21. CASE UNCHANGED vars
  BY <1>2, <1>21
     DEF vars, IInv, TypeOK, PlaceInv, GreenInv, DoneIsEarned, TriedInv,
         ExhaustedTriedEveryLeg, Kind, KindAt, HasLeg
<1>22. QED
  BY <1>4, <1>5, <1>6, <1>7, <1>8, <1>11, <1>12, <1>13, <1>14, <1>15, <1>16, <1>17,
     <1>18, <1>19, <1>20, <1>21
     DEF Next, Driver, Human

\* The inductive invariant: a card is always where its history entitles it to be
\* (chain.mjs transition).
THEOREM Invariance == Spec => []IInv
BY InitIInv, StepIInv, PTL DEF Spec

\* Card and history have their types; the attempts never pass the cap.
THEOREM TypeCorrect == Spec => []TypeOK
<1>1. IInv => TypeOK
  BY DEF IInv
<1>2. QED
  BY <1>1, Invariance, PTL

\* A card that is active stands on a leg of a station and can move on
\* (chain.mjs transition, stations/agent.mjs).
THEOREM ActiveCardCanMoveThm == Spec => []ActiveCardCanMove
<1>1. IInv => ActiveCardCanMove
  <2> SUFFICES ASSUME IInv, card.status \in Active PROVE ActiveCardCanMove
    BY DEF ActiveCardCanMove
  <2>1. PlaceInv
    BY DEF IInv
  <2>2. card.station \in DOMAIN card.pipeline
    BY <2>1, CardFacts DEF PlaceInv, Active
  <2>3. Kind(card) # "none"
    BY <2>2, CardFacts, PipelineFacts DEF Kind, KindAt, Station, Kinds
  <2>4. QED
    BY <2>1, <2>3, CardFacts DEF ActiveCardCanMove, PlaceInv, TargetLeg
<1>2. QED
  BY <1>1, Invariance, PTL

\* A done card passed every station of its pipeline.
THEOREM DoneIsEarnedThm == Spec => []DoneIsEarned
<1>1. IInv => DoneIsEarned
  BY DEF IInv, GreenInv
<1>2. QED
  BY <1>1, Invariance, PTL

\* A card that failed with its chain exhausted started every entry of it.
THEOREM ExhaustedTriedEveryLegThm == Spec => []ExhaustedTriedEveryLeg
<1>1. IInv => ExhaustedTriedEveryLeg
  BY DEF IInv, TriedInv
<1>2. QED
  BY <1>1, Invariance, PTL

-----------------------------------------------------------------------------
(* Every automatic step brings the card closer to rest.                    *)

\* LexLess, by the component that decreases.
LEMMA LexLessCases ==
  ASSUME NEW m1, NEW m2, NEW m3, NEW m4, NEW m5,
         NEW n1, NEW n2, NEW n3, NEW n4, NEW n5,
         \/ m1 < n1
         \/ m1 = n1 /\ m2 < n2
         \/ m1 = n1 /\ m2 = n2 /\ m3 < n3
         \/ m1 = n1 /\ m2 = n2 /\ m3 = n3 /\ m4 < n4
         \/ m1 = n1 /\ m2 = n2 /\ m3 = n3 /\ m4 = n4 /\ m5 < n5
  PROVE  LexLess(<<m1, m2, m3, m4, m5>>, <<n1, n2, n3, n4, n5>>)
<1> DEFINE m == <<m1, m2, m3, m4, m5>>
           n == <<n1, n2, n3, n4, n5>>
<1>1. CASE m1 < n1
  <2>1. m[1] < n[1] /\ \A j \in 1 .. 1 - 1 : m[j] = n[j]
    BY <1>1
  <2>2. QED
    BY <2>1 DEF LexLess
<1>2. CASE m1 = n1 /\ m2 < n2
  <2>1. m[2] < n[2] /\ \A j \in 1 .. 2 - 1 : m[j] = n[j]
    BY <1>2
  <2>2. QED
    BY <2>1 DEF LexLess
<1>3. CASE m1 = n1 /\ m2 = n2 /\ m3 < n3
  <2>1. m[3] < n[3] /\ \A j \in 1 .. 3 - 1 : m[j] = n[j]
    BY <1>3
  <2>2. QED
    BY <2>1 DEF LexLess
<1>4. CASE m1 = n1 /\ m2 = n2 /\ m3 = n3 /\ m4 < n4
  <2>1. m[4] < n[4] /\ \A j \in 1 .. 4 - 1 : m[j] = n[j]
    BY <1>4
  <2>2. QED
    BY <2>1 DEF LexLess
<1>5. CASE m1 = n1 /\ m2 = n2 /\ m3 = n3 /\ m4 = n4 /\ m5 < n5
  <2>1. m[5] < n[5] /\ \A j \in 1 .. 5 - 1 : m[j] = n[j]
    BY <1>5
  <2>2. QED
    BY <2>1 DEF LexLess
<1>6. QED
  BY <1>1, <1>2, <1>3, <1>4, <1>5

(* The four ways an automatic step makes progress.                        *)

\* The measure decreases when an attempt was spent.
LEMMA FewerAttempts ==
  ASSUME card'.landAttempts = card.landAttempts + 1,
         card.landAttempts \in Nat, MaxLandAttempts \in Nat
  PROVE  LexLess(Measure(card'), Measure(card))
<1>1. MaxLandAttempts - card'.landAttempts < MaxLandAttempts - card.landAttempts
  OBVIOUS
<1>2. QED
  BY <1>1, LexLessCases DEF Measure

\* The measure decreases when the card went on to the next station.
LEMMA NextStation ==
  ASSUME card'.landAttempts = card.landAttempts,
         card'.pipeline = card.pipeline,
         card.station \in Nat, Len(card.pipeline) \in Nat,
         card'.station = card.station + 1
  PROVE  LexLess(Measure(card'), Measure(card))
<1>1. Len(card'.pipeline) - card'.station < Len(card.pipeline) - card.station
  OBVIOUS
<1>2. QED
  BY <1>1, LexLessCases DEF Measure

\* The measure decreases when the card is no longer active.
LEMMA ComesToRestNow ==
  ASSUME card'.landAttempts = card.landAttempts,
         card'.pipeline = card.pipeline,
         card'.station = card.station,
         card.status \in Active, card'.status \notin Active
  PROVE  LexLess(Measure(card'), Measure(card))
<1>1. /\ Len(card'.pipeline) - card'.station = Len(card.pipeline) - card.station
      /\ MaxLandAttempts - card'.landAttempts = MaxLandAttempts - card.landAttempts
  OBVIOUS
<1>2. (IF card'.status \in Active THEN 1 ELSE 0)
        < (IF card.status \in Active THEN 1 ELSE 0)
  OBVIOUS
<1>3. QED
  BY <1>1, <1>2, LexLessCases DEF Measure

\* The measure decreases when a leg was left behind, or the same leg is in a later phase.
LEMMA LaterPhase ==
  ASSUME card'.landAttempts = card.landAttempts,
         card'.pipeline = card.pipeline,
         card'.station = card.station,
         card.status \in Active, card'.status \in Active,
         \/ LegsLeft(card') < LegsLeft(card)
         \/ LegsLeft(card') = LegsLeft(card) /\ Phase(card') < Phase(card)
  PROVE  LexLess(Measure(card'), Measure(card))
<1>1. /\ Len(card'.pipeline) - card'.station = Len(card.pipeline) - card.station
      /\ MaxLandAttempts - card'.landAttempts = MaxLandAttempts - card.landAttempts
  OBVIOUS
<1>2. (IF card'.status \in Active THEN 1 ELSE 0)
        = (IF card.status \in Active THEN 1 ELSE 0)
  OBVIOUS
<1>3. QED
  BY <1>1, <1>2, LexLessCases DEF Measure

\* Every disjunct of Driver makes progress in one of those ways.
LEMMA DriverDecreases ==
  IInv /\ Driver => LexLess(Measure(card'), Measure(card))
<1> SUFFICES ASSUME IInv, Driver PROVE LexLess(Measure(card'), Measure(card))
  OBVIOUS
<1> USE CardFacts
<1>1. PlaceInv /\ card.station \in Nat /\ card.landAttempts \in Nat
  BY DEF IInv, Cards
<1>2. Kind(card) # "none" <=> card.station \in DOMAIN card.pipeline
  BY PipelineFacts DEF Kind, KindAt, Station, Kinds
<1>3. CASE DoStart
  <2>1. /\ card' = [card EXCEPT !.status = IF Kind(card) = "human"
                                           THEN "waiting_human" ELSE "running"]
        /\ card.status = "queued"
    BY <1>3 DEF DoStart, CanStart, Start
  <2>2. CASE Kind(card) = "human"
    BY <2>1, <2>2, ComesToRestNow DEF Active, Cards
  <2>3. CASE Kind(card) # "human"
    <3>1. card' = [card EXCEPT !.status = "running"]
      BY <2>1, <2>3
    <3>2. LegsLeft(card') = LegsLeft(card)
      BY <3>1 DEF LegsLeft, Kind, KindAt, Cards
    <3>3. Phase(card') < Phase(card)
      BY <2>1, <3>1 DEF Phase, Cards
    <3>4. QED
      BY <2>1, <3>1, <3>2, <3>3, LaterPhase DEF Active, Cards
  <2>4. QED
    BY <2>2, <2>3
<1>4. \* A station that passes.
      ASSUME card.status = "running", Kind(card) # "none",
             card' = Advance(card, card.station)
      PROVE  LexLess(Measure(card'), Measure(card))
  <2>1. card.station \in DOMAIN card.pipeline
    BY <1>2, <1>4
  <2>2. CASE card'.status = "done"
    <3>1. card'.station = card.station
      BY <1>4, <2>1, <2>2, AdvanceFields
    <3>2. QED
      BY <1>4, <2>1, <2>2, <3>1, AdvanceFields, ComesToRestNow DEF Active
  <2>3. CASE card'.status # "done"
    BY <1>1, <1>4, <2>1, <2>3, AdvanceFields, NextStation
  <2>4. QED
    BY <2>2, <2>3
<1>5. \* A red test or a bounced land.
      ASSUME NEW failure \in Failures, card.status = "running", Kind(card) # "none",
             card' = Bounce(card, failure)
      PROVE  LexLess(Measure(card'), Measure(card))
  <2>1. card.station \in DOMAIN card.pipeline /\ card.landAttempts < MaxLandAttempts
    BY <1>1, <1>2, <1>5 DEF PlaceInv, Terminal
  <2>2. QED
    BY <1>1, <1>5, <2>1, BounceFields, FewerAttempts
<1>6. ASSUME NEW outcome \in Outcomes, DoLegResult(outcome)
      PROVE  LexLess(Measure(card'), Measure(card))
  <2>1. card.status = "running" /\ Kind(card) = "agent"
        /\ card' = LegResult(card, outcome)
    BY <1>6 DEF DoLegResult, CanLegResult
  <2>2. CASE outcome = "completed"
    BY <1>4, <2>1, <2>2 DEF LegResult, HandoffOutcomes, NoAdvanceOutcomes
  <2>3. CASE outcome \in HandoffOutcomes /\ HasLeg(card, card.leg + 1)
    <3>1. card' = [card EXCEPT !.status = "handing_off", !.nextLeg = card.leg + 1]
      BY <2>1, <2>3 DEF LegResult, HandoffOutcomes, NoAdvanceOutcomes
    <3>2. LegsLeft(card') = LegsLeft(card)
      BY <3>1 DEF LegsLeft, Kind, KindAt, Cards
    <3>3. Phase(card') < Phase(card)
      BY <2>1, <3>1 DEF Phase, Cards
    <3>4. QED
      BY <2>1, <3>1, <3>2, <3>3, LaterPhase DEF Active, Cards
  <2>4. CASE /\ outcome # "completed"
             /\ ~ (outcome \in HandoffOutcomes /\ HasLeg(card, card.leg + 1))
    <3>1. /\ card'.landAttempts = card.landAttempts
          /\ card'.pipeline = card.pipeline
          /\ card'.station = card.station
          /\ card'.status \in {"failed", "killed"}
      BY <2>1, <2>4
         DEF LegResult, Outcomes, HandoffOutcomes, NoAdvanceOutcomes, Cards
    <3>2. QED
      BY <2>1, <3>1, ComesToRestNow DEF Active
  <2>5. QED
    BY <2>2, <2>3, <2>4
<1>7. CASE DoBundleWritten
  <2>1. /\ card.status = "handing_off" /\ HasLeg(card, card.leg + 1)
        /\ TargetLeg(card) = card.leg + 1 /\ card.leg + 1 \in Nat
        /\ card' = BundleWritten(card)
    BY <1>1, <1>7
       DEF DoBundleWritten, CanBundleWritten, PlaceInv, TargetLeg, HasLeg
  <2> DEFINE s == IF <<card.station, card.leg + 1>> \in card.gated
                  THEN "needs_approval" ELSE "queued"
  <2>2. /\ card' = [card EXCEPT !.leg = card.leg + 1, !.nextLeg = 0, !.status = s]
        /\ s \in {"needs_approval", "queued"}
    BY <2>1 DEF BundleWritten
  <2> HIDE DEF s
  <2>3. CASE s = "needs_approval"
    BY <2>1, <2>2, <2>3, ComesToRestNow DEF Active, Cards
  <2>4. CASE s = "queued"
    <3>1. card.pipeline[card.station].legs \in Nat /\ Kind(card) = "agent"
      BY <1>2, <2>1 DEF HasLeg
    <3>2. LegsLeft(card') < LegsLeft(card)
      BY <2>2, <3>1 DEF LegsLeft, Kind, KindAt, Cards
    <3>3. QED
      BY <2>1, <2>2, <2>4, <3>2, LaterPhase DEF Active, Cards
  <2>5. QED
    BY <2>2, <2>3, <2>4
<1>8. ASSUME NEW isGreen \in BOOLEAN, DoTestResult(isGreen)
      PROVE  LexLess(Measure(card'), Measure(card))
  <2>1. card.status = "running" /\ Kind(card) = "test"
        /\ card' = TestResult(card, isGreen)
    BY <1>8 DEF DoTestResult, CanTestResult
  <2>2. QED
    BY <1>4, <1>5, <2>1 DEF TestResult, Failures
<1>9. ASSUME NEW verdict \in LandVerdicts, DoLandResult(verdict)
      PROVE  LexLess(Measure(card'), Measure(card))
  <2>1. card.status = "running" /\ Kind(card) = "land"
        /\ card' = LandResult(card, verdict)
    BY <1>9 DEF DoLandResult, CanLandResult
  <2>2. CASE verdict = "pr"
    <3>1. card' = [card EXCEPT !.status = "waiting_human"]
      BY <2>1, <2>2 DEF LandResult
    <3>2. QED
      BY <2>1, <3>1, ComesToRestNow DEF Active, Cards
  <2>3. CASE verdict # "pr"
    BY <1>4, <1>5, <2>1, <2>3 DEF LandResult, LandVerdicts, Failures
  <2>4. QED
    BY <2>2, <2>3
<1>10. QED
  BY <1>3, <1>6, <1>7, <1>8, <1>9 DEF Driver

\* Every automatic step decreases the measure: attempts left, then stations
\* left, then legs left (chain.mjs transition, the land_attempts cap).
THEOREM DriverStepsDecreaseThm == Spec => DriverStepsDecrease
<1>1. IInv /\ [Next]_vars
        => [Driver => LexLess(Measure(card'), Measure(card))]_card
  BY DriverDecreases
<1>2. QED
  BY <1>1, Invariance, PTL DEF Spec, DriverStepsDecrease
=============================================================================
