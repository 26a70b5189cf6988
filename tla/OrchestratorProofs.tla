-------------------------- MODULE OrchestratorProofs --------------------------
(***************************************************************************)
(* What TLAPS proves of Orchestrator.tla when the human is on the board:   *)
(* for any pipelines, any number of drivers, runs and faults of any kind.  *)
(***************************************************************************)
EXTENDS Orchestrator, ChainProofs

-----------------------------------------------------------------------------
(* Who drives, drives alone.                                               *)

\* While one driver works, the others rest: the claim names only one.
LEMMA OthersRest ==
  ASSUME IInv, NEW d \in Drivers, driver[d].pc \notin {"idle", "dead"},
         NEW e \in Drivers \ {d}
  PROVE  driver[e].pc \in {"idle", "dead"}
BY DEF IInv, DriverInv

\* The types of a state, one by one.
LEMMA Types ==
  ASSUME IInv
  PROVE  /\ card \in Cards /\ WellFormed(card)
         /\ runs \in Seq(Run) /\ Len(runs) \in Nat /\ Len(runs) <= MaxRuns
         /\ DOMAIN runs = 1 .. Len(runs)
         /\ driver \in [Drivers -> DriverState]
         /\ human.pc = "idle"
         /\ MaxRuns \in Nat /\ FaultBudget \in Nat /\ HumanBudget \in Nat
BY BoundsAssumption DEF IInv, TypeOK

\* A step of d that leaves card.json and the human alone keeps the invariant,
\* if what d becomes satisfies its own part and the other drivers rest.
LEMMA DriverMoves ==
  ASSUME IInv, NEW d \in Drivers,
         \A e \in Drivers \ {d} : driver[e].pc \in {"idle", "dead"},
         NEW w \in DriverState, driver' = [driver EXCEPT ![d] = w],
         DriverInv(d)',
         lock' \in Drivers \union {"none", "dead"},
         runs' \in Seq(Run), Len(runs') <= MaxRuns,
         UNCHANGED <<card, human, presses, faults, wish, applied>>
  PROVE  IInv'
<1>1. driver' \in [Drivers -> DriverState]
  BY Types
<1>2. TypeOK'
  BY <1>1 DEF IInv, TypeOK
<1>3. ASSUME NEW e \in Drivers \ {d} PROVE DriverInv(e)'
  <2>1. driver'[e].pc \in {"idle", "dead"}
    BY Types
  <2>2. QED
    BY <2>1 DEF DriverInv
<1>4. QED
  BY <1>2, <1>3 DEF IInv, WellFormed, HumanDecisionStands

\* The driver state that is left when runCard ends, and after every write.
LEMMA RestStates ==
  ASSUME NEW pc \in DriverPcs
  PROVE  [Idle EXCEPT !.pc = pc] \in DriverState /\ Idle \in DriverState
         /\ [Idle EXCEPT !.pc = pc].pc = pc /\ Idle.pc = "idle"
<1>1. 0 \in 0 .. MaxRuns
  BY BoundsAssumption
<1>2. QED
  BY <1>1 DEF Idle, DriverState, DriverPcs, SeenCards

LEMMA ReleaseKeeps ==
  ASSUME IInv, NEW d \in Drivers, driver[d].pc \notin {"idle", "dead"},
         Release(d),
         UNCHANGED <<card, runs, human, presses, faults, wish, applied>>
  PROVE  IInv'
<1>1. driver' = [driver EXCEPT ![d] = Idle] /\ Idle \in DriverState
      /\ driver'[d] = Idle /\ Idle.pc = "idle"
  BY RestStates, Types DEF Release, DriverPcs
<1>2. DriverInv(d)'
  BY <1>1 DEF DriverInv
<1>3. lock' \in Drivers \union {"none", "dead"}
  BY DEF Release, IInv, TypeOK
<1>4. QED
  BY <1>1, <1>2, <1>3, OthersRest, DriverMoves, Types

\* The control moves on: nothing but the program counter of d changes.
LEMMA GotoKeeps ==
  ASSUME IInv, NEW d \in Drivers, driver[d].pc \notin {"idle", "dead"},
         NEW pc \in DriverPcs \ {"idle", "dead", "write", "launching", "wait",
                                  "settle", "fresh", "landed"},
         Goto(d, pc), UNCHANGED lock,
         UNCHANGED <<card, runs, human, presses, faults, wish, applied>>
  PROVE  IInv'
<1> DEFINE w == [driver[d] EXCEPT !.pc = pc]
<1>1. driver[d] \in DriverState /\ driver' = [driver EXCEPT ![d] = w]
  BY Types DEF Goto
<1>2. w \in DriverState /\ w.pc = pc
  BY <1>1 DEF DriverState
<1>3. driver'[d] = w
  BY <1>1, Types
<1>4. lock = d
  BY DEF IInv, DriverInv
<1>5. DriverInv(d)'
  BY <1>2, <1>3, <1>4 DEF DriverInv
<1> HIDE DEF w
<1>6. QED
  BY <1>1, <1>2, <1>4, <1>5, OthersRest, DriverMoves, Types

\* What is about to be written is a legal transition of the card as it is.
LEMMA WillWriteKeeps ==
  ASSUME IInv, NEW d \in Drivers, driver[d].pc \notin {"idle", "dead"},
         NEW next, NEW cont \in {"started", "top", "applied"},
         WillWrite(d, card, next, cont), UNCHANGED lock,
         Transition(card, next),
         card.status \in {"queued", "running", "handing_off"},
         UNCHANGED <<card, runs, human, presses, faults, wish, applied>>
  PROVE  IInv'
<1> DEFINE w == [driver[d] EXCEPT !.pc = "write", !.seen = card, !.next = next,
                                  !.cont = cont]
<1>1. driver[d] \in DriverState /\ driver' = [driver EXCEPT ![d] = w]
  BY Types DEF WillWrite
<1>2. next \in Cards /\ card \in Cards
  BY Types, TransitionWellFormed DEF WellFormed
<1>3. /\ w \in DriverState /\ w.pc = "write" /\ w.seen = card /\ w.next = next
      /\ w.cont = cont
  BY <1>1, <1>2 DEF DriverState, DriverPcs, SeenCards
<1>4. driver'[d] = w
  BY <1>1, Types
<1>5. lock = d
  BY DEF IInv, DriverInv
<1> HIDE DEF w
<1>6. DriverInv(d)'
  BY <1>3, <1>4, <1>5 DEF DriverInv
<1>7. QED
  BY <1>1, <1>3, <1>5, <1>6, OthersRest, DriverMoves, Types

-----------------------------------------------------------------------------
(* The driver's steps.                                                     *)

LEMMA ClaimKeeps ==
  ASSUME IInv, NEW d \in Drivers, Claim(d)
  PROVE  IInv'
<1> DEFINE w == [driver[d] EXCEPT !.pc = "top"]
<1>1. driver[d] \in DriverState /\ driver' = [driver EXCEPT ![d] = w] /\ lock' = d
  BY Types DEF Claim, Goto
<1>2. w \in DriverState /\ w.pc = "top"
  BY <1>1 DEF DriverState, DriverPcs
<1>3. driver'[d] = w
  BY <1>1, Types
<1>4. ASSUME NEW e \in Drivers \ {d} PROVE driver[e].pc \in {"idle", "dead"}
  BY DriversAssumption DEF Claim, IInv, DriverInv
<1> HIDE DEF w
<1>5. DriverInv(d)'
  BY <1>1, <1>2, <1>3 DEF DriverInv
<1>6. QED
  BY <1>1, <1>2, <1>4, <1>5, DriverMoves, Types DEF Claim

\* Enter goes to the handler of a running card or ends runCard.
LEMMA EnterKeeps ==
  ASSUME IInv, NEW d \in Drivers, driver[d].pc \notin {"idle", "dead"},
         Enter(d),
         UNCHANGED <<card, runs, human, presses, faults, wish, applied>>
  PROVE  IInv'
<1> DEFINE h == Handler(card)
           w == [driver[d] EXCEPT !.pc = h, !.seen = card]
<1>1. CASE card.status = "running" /\ h # "idle"
  <2>1. h \in {"attach", "testing", "landing"}
    BY <1>1 DEF Handler
  <2>2. driver[d] \in DriverState /\ driver' = [driver EXCEPT ![d] = w] /\ lock' = lock
    BY <1>1, Types DEF Enter
  <2> HIDE DEF h
  <2>3. w \in DriverState /\ w.pc = h
    BY <2>1, <2>2, Types DEF DriverState, DriverPcs, SeenCards
  <2>4. driver'[d] = w /\ lock = d
    BY <2>2, Types DEF IInv, DriverInv
  <2> HIDE DEF w
  <2>5. DriverInv(d)'
    BY <2>1, <2>2, <2>3, <2>4 DEF DriverInv
  <2>6. QED
    BY <2>2, <2>3, <2>4, <2>5, OthersRest, DriverMoves, Types
<1>2. CASE ~ (card.status = "running" /\ h # "idle")
  BY <1>2, ReleaseKeeps DEF Enter
<1>3. QED
  BY <1>1, <1>2

\* The steps of the loop that read the card and go on, write or end.
LEMMA LoopKeeps ==
  ASSUME IInv, NEW d \in Drivers, Top(d) \/ StartRead(d) \/ Started(d) \/ BundleRead(d)
  PROVE  IInv'
<1>1. CASE Top(d)
  <2>1. CASE card.status = "handing_off"
    BY <1>1, <2>1, GotoKeeps DEF Top, At, DriverPcs
  <2>2. CASE card.status = "queued"
    BY <1>1, <2>2, GotoKeeps DEF Top, At, DriverPcs
  <2>3. CASE card.status \notin {"handing_off", "queued"}
    BY <1>1, <2>3, EnterKeeps DEF Top, At
  <2>4. QED
    BY <2>1, <2>2, <2>3
<1>2. CASE StartRead(d)
  <2>1. CASE CanStart(card)
    <3>1. Transition(card, Start(card)) /\ card.status = "queued"
      BY <2>1 DEF Transition, CanStart
    <3>2. QED
      BY <1>2, <2>1, <3>1, WillWriteKeeps DEF StartRead, Step, At
  <2>2. CASE ~ CanStart(card)
    BY <1>2, <2>2, ReleaseKeeps DEF StartRead, Step, At
  <2>3. QED
    BY <2>1, <2>2
<1>3. CASE Started(d)
  BY <1>3, EnterKeeps DEF Started, At
<1>4. CASE BundleRead(d)
  <2>1. CASE CanBundleWritten(card)
    <3>1. Transition(card, BundleWritten(card)) /\ card.status = "handing_off"
      BY <2>1 DEF Transition, CanBundleWritten
    <3>2. QED
      BY <1>4, <2>1, <3>1, WillWriteKeeps DEF BundleRead, Step, At
  <2>2. CASE ~ CanBundleWritten(card)
    BY <1>4, <2>2, ReleaseKeeps DEF BundleRead, Step, At
  <2>3. QED
    BY <2>1, <2>2
<1>5. QED
  BY <1>1, <1>2, <1>3, <1>4

\* Write is the transition it computed, applied to the card as it still is.
LEMMA WriteIsTransition ==
  ASSUME IInv, NEW d \in Drivers, Write(d)
  PROVE  /\ Transition(card, card')
         /\ card' = driver[d].next
         /\ card.status \in {"queued", "running", "handing_off"}
         /\ driver[d].cont \in {"started", "top", "applied"}
<1>1. /\ driver[d].seen = card /\ Transition(card, driver[d].next)
      /\ card.status \in {"queued", "running", "handing_off"}
      /\ driver[d].cont \in {"started", "top", "applied"}
      /\ card' = Patch(card, driver[d].seen, driver[d].next)
  BY DEF IInv, DriverInv, Write, At
<1>2. driver[d].next \in Cards /\ card \in Cards
  BY <1>1, Types, TransitionWellFormed DEF WellFormed
<1>3. ASSUME NEW n \in Cards PROVE Patch(card, card, n) = n
  BY <1>2, <1>3 DEF Patch, Cards
<1>4. QED
  BY <1>1, <1>2, <1>3

LEMMA WriteKeeps ==
  ASSUME IInv, NEW d \in Drivers, Write(d)
  PROVE  IInv'
<1> DEFINE cont == driver[d].cont
           w == [Idle EXCEPT !.pc = cont]
<1>1. WellFormed(card') /\ card' \in Cards /\ cont \in {"started", "top", "applied"}
  BY Types, WriteIsTransition, TransitionWellFormed DEF WellFormed
<1>2. w \in DriverState /\ w.pc = cont
  BY <1>1, RestStates DEF DriverPcs
<1>3. driver' = [driver EXCEPT ![d] = w] /\ lock = d /\ lock' = lock
  BY DEF Write, At, IInv, DriverInv
<1>4. driver' \in [Drivers -> DriverState] /\ driver'[d] = w
  BY <1>2, <1>3, Types
<1>5. \A e \in Drivers \ {d} : driver[e].pc \in {"idle", "dead"} /\ driver'[e] = driver[e]
  BY <1>3, OthersRest, Types DEF Write, At
<1>6. applied' \in Seq((1 .. MaxRuns) \X (Nat \X Nat))
  <2>1. driver[d].run \in 0 .. MaxRuns /\ Place(card) \in Nat \X Nat
    BY Types DEF DriverState, Place, Cards
  <2>2. driver[d].run # 0 => <<driver[d].run, Place(card)>> \in (1 .. MaxRuns) \X (Nat \X Nat)
    BY <2>1, Types
  <2>3. QED
    BY <2>2 DEF Write, IInv, TypeOK
<1> HIDE DEF w, cont
<1>7. TypeOK'
  BY <1>1, <1>3, <1>4, <1>6 DEF IInv, TypeOK, Write
<1>8. ASSUME NEW e \in Drivers PROVE DriverInv(e)'
  BY <1>1, <1>2, <1>3, <1>4, <1>5 DEF DriverInv
<1>9. WellFormed(card)' /\ HumanDecisionStands' /\ human'.pc = "idle"
  BY <1>1, WriteIsTransition DEF WellFormed, HumanDecisionStands, IInv, Write
<1>10. QED
  BY <1>7, <1>8, <1>9 DEF IInv

-----------------------------------------------------------------------------
(* The agent station.                                                      *)

\* An update of run n that leaves a run record is an update of the run files.
LEMMA RunUpdate ==
  ASSUME IInv, NEW n \in DOMAIN runs, NEW r \in Run
  PROVE  /\ [runs EXCEPT ![n] = r] \in Seq(Run)
         /\ Len([runs EXCEPT ![n] = r]) = Len(runs)
         /\ DOMAIN [runs EXCEPT ![n] = r] = DOMAIN runs
BY Types

\* d goes to another place of its code with a run or a verdict in hand.
LEMMA MovesWith ==
  ASSUME IInv, NEW d \in Drivers, driver[d].pc \notin {"idle", "dead"},
         NEW pc \in DriverPcs \ {"idle", "dead", "write"},
         NEW run \in 0 .. MaxRuns,
         NEW verdict \in Outcomes \union LandVerdicts \union {"none"},
         driver' = [driver EXCEPT ![d].pc = pc, ![d].run = run, ![d].verdict = verdict],
         UNCHANGED lock,
         runs' \in Seq(Run), Len(runs') <= MaxRuns,
         pc \in {"launching", "wait"} => run \in DOMAIN runs',
         pc \in {"settle", "fresh"} => verdict \in Outcomes \union {"none"},
         pc = "landed" => verdict \in LandVerdicts,
         UNCHANGED <<card, human, presses, faults, wish, applied>>
  PROVE  IInv'
<1> DEFINE w == [driver[d] EXCEPT !.pc = pc, !.run = run, !.verdict = verdict]
<1>1. driver[d] \in DriverState /\ driver' = [driver EXCEPT ![d] = w]
  BY Types
<1>2. w \in DriverState /\ w.pc = pc /\ w.run = run /\ w.verdict = verdict
  BY <1>1 DEF DriverState
<1>3. driver'[d] = w /\ lock = d
  BY <1>1, Types DEF IInv, DriverInv
<1> HIDE DEF w
<1>4. DriverInv(d)'
  BY <1>2, <1>3 DEF DriverInv
<1>5. QED
  BY <1>1, <1>2, <1>3, <1>4, OthersRest, DriverMoves, Types

LEMMA AttachKeeps ==
  ASSUME IInv, NEW d \in Drivers, Attach(d)
  PROVE  IInv'
<1>1. driver[d].pc = "attach" /\ driver[d] \in DriverState
  BY Types DEF Attach, At
<1>2. CASE ~ Unsettled
  BY <1>1, <1>2, GotoKeeps DEF Attach, DriverPcs
<1>3. CASE Unsettled /\ runs[Latest].driver \notin {d, "dead"}
  BY <1>1, <1>3, ReleaseKeeps DEF Attach
<1>4. CASE Unsettled /\ runs[Latest].driver \in {d, "dead"}
  <2>1. Latest \in DOMAIN runs /\ Latest \in 0 .. MaxRuns /\ runs[Latest] \in Run
    BY <1>4, Types DEF Unsettled, Latest
  <2> DEFINE r == [runs[Latest] EXCEPT !.driver = d]
  <2>2. r \in Run /\ runs' = [runs EXCEPT ![Latest] = r]
    BY <1>4, <2>1 DEF Attach, Run
  <2> HIDE DEF r
  <2>3. runs' \in Seq(Run) /\ Len(runs') <= MaxRuns /\ DOMAIN runs' = DOMAIN runs
    BY <2>1, <2>2, RunUpdate, Types
  <2>4. driver' = [driver EXCEPT ![d].pc = "wait", ![d].run = Latest,
                                 ![d].verdict = driver[d].verdict]
    BY <1>1, <1>4, Types DEF Attach, DriverState
  <2>5. driver[d].verdict \in Outcomes \union LandVerdicts \union {"none"}
    BY <1>1 DEF DriverState
  <2>6. "wait" \in DriverPcs \ {"idle", "dead", "write"}
        /\ driver[d].pc \notin {"idle", "dead"}
    BY <1>1 DEF DriverPcs
  <2>7. UNCHANGED lock /\ UNCHANGED <<card, human, presses, faults, wish, applied>>
    BY <1>4 DEF Attach
  <2>8. QED
    BY <2>1, <2>3, <2>4, <2>5, <2>6, <2>7, MovesWith
<1>5. QED
  BY <1>2, <1>3, <1>4

LEMMA LaunchKeeps ==
  ASSUME IInv, NEW d \in Drivers, Launch(d)
  PROVE  IInv'
<1> DEFINE live == \E n \in DOMAIN runs : runs[n].status \in ActiveRun /\ SupervisorAlive(runs[n])
<1>1. driver[d].pc = "prep" /\ driver[d] \in DriverState
  BY Types DEF Launch, At
<1>2. CASE live
  <2>1. driver' = [driver EXCEPT ![d].pc = "settle", ![d].run = 0,
                                 ![d].verdict = "launch_failed"] /\ runs' = runs
    BY <1>2 DEF Launch
  <2>2. 0 \in 0 .. MaxRuns /\ "launch_failed" \in Outcomes
    BY Types DEF Outcomes, NoAdvanceOutcomes
  <2>3. "settle" \in DriverPcs \ {"idle", "dead", "write"}
        /\ driver[d].pc \notin {"idle", "dead"}
    BY <1>1 DEF DriverPcs
  <2>4. UNCHANGED lock /\ UNCHANGED <<card, human, presses, faults, wish, applied>>
    BY DEF Launch
  <2>5. runs' \in Seq(Run) /\ Len(runs') <= MaxRuns
    BY <2>1, Types
  <2>6. QED
    BY <2>1, <2>2, <2>3, <2>4, <2>5, MovesWith
<1>3. CASE ~ live
  <2> DEFINE old == [n \in DOMAIN runs |-> IF runs[n].status \in ActiveRun
                                           THEN [runs[n] EXCEPT !.status = "orphaned"]
                                           ELSE runs[n]]
  <2>1. Len(runs) < MaxRuns /\ runs' = Append(old, NewRun(d))
    BY <1>3 DEF Launch
  <2>2. old \in Seq(Run) /\ Len(old) = Len(runs)
    <3>1. ASSUME NEW n \in DOMAIN runs PROVE old[n] \in Run
      <4>1. runs[n] \in Run
        BY Types
      <4>2. [runs[n] EXCEPT !.status = "orphaned"] \in Run
        BY <4>1 DEF Run, FinalRun
      <4>3. QED
        BY <4>1, <4>2
    <3>2. old \in [1 .. Len(runs) -> Run]
      BY <3>1, Types
    <3>3. QED
      BY <3>2, Types
  <2>3. NewRun(d) \in Run
    <3>1. Place(driver[d].seen) \in Nat \X Nat
      BY <1>1 DEF DriverState, SeenCards, Cards, NoCard, NewCard, Place
    <3>2. QED
      BY <3>1 DEF NewRun, Run, ActiveRun
  <2> HIDE DEF old
  <2>4. runs' \in Seq(Run) /\ Len(runs') = Len(runs) + 1 /\ DOMAIN runs' = 1 .. Len(runs) + 1
    BY <2>1, <2>2, <2>3, Types
  <2>5. driver' = [driver EXCEPT ![d].pc = "launching", ![d].run = Len(runs) + 1,
                                 ![d].verdict = driver[d].verdict]
    BY <1>1, <1>3, Types DEF Launch, DriverState
  <2>6. Len(runs) + 1 \in 0 .. MaxRuns /\ Len(runs) + 1 \in DOMAIN runs' /\ Len(runs') <= MaxRuns
    BY <2>1, <2>4, Types
  <2>7. driver[d].verdict \in Outcomes \union LandVerdicts \union {"none"}
    BY <1>1 DEF DriverState
  <2>8. "launching" \in DriverPcs \ {"idle", "dead", "write"}
        /\ driver[d].pc \notin {"idle", "dead"}
    BY <1>1 DEF DriverPcs
  <2>9. UNCHANGED lock /\ UNCHANGED <<card, human, presses, faults, wish, applied>>
    BY DEF Launch
  <2>10. QED
    BY <2>4, <2>5, <2>6, <2>7, <2>8, <2>9, MovesWith
<1>4. QED
  BY <1>2, <1>3

\* The driver that launched clears the resume flag: a step that is not the
\* chain machine's, and touches no other field.
LEMMA LaunchedKeeps ==
  ASSUME IInv, NEW d \in Drivers, Launched(d)
  PROVE  IInv' /\ (card' = card \/ card' = [card EXCEPT !.resume = FALSE])
<1>1. driver[d].pc = "launching" /\ driver[d] \in DriverState
  BY Types DEF Launched, At
<1>2. card' = card \/ card' = [card EXCEPT !.resume = FALSE]
  BY DEF Launched
<1>3. /\ card' \in Cards /\ WellFormed(card') /\ card'.status = card.status
  BY <1>2, Types DEF WellFormed, Cards
<1> DEFINE w == [driver[d] EXCEPT !.pc = "wait"]
<1>4. driver' = [driver EXCEPT ![d] = w] /\ lock = d /\ lock' = lock /\ runs' = runs
  BY <1>1, Types DEF Launched, Goto, IInv, DriverInv
<1>5. w \in DriverState /\ w.pc = "wait" /\ w.run = driver[d].run
      /\ driver[d].run \in DOMAIN runs
  BY <1>1 DEF DriverState, DriverPcs, IInv, DriverInv
<1> HIDE DEF w
<1>6. driver' \in [Drivers -> DriverState] /\ driver'[d] = w
  BY <1>4, <1>5, Types
<1>7. \A e \in Drivers \ {d} : driver'[e].pc \in {"idle", "dead"}
  BY <1>1, <1>4, OthersRest, Types
<1>8. TypeOK'
  BY <1>3, <1>4, <1>6 DEF IInv, TypeOK, Launched
<1>9. ASSUME NEW e \in Drivers PROVE DriverInv(e)'
  BY <1>4, <1>5, <1>6, <1>7 DEF DriverInv
<1>10. WellFormed(card)' /\ HumanDecisionStands' /\ human'.pc = "idle"
  BY <1>3 DEF WellFormed, HumanDecisionStands, IInv, Launched
<1>11. QED
  BY <1>2, <1>8, <1>9, <1>10 DEF IInv

LEMMA WaitKeeps ==
  ASSUME IInv, NEW d \in Drivers, WaitForRun(d)
  PROVE  IInv'
<1> DEFINE n == driver[d].run
<1>1. driver[d].pc = "wait" /\ driver[d] \in DriverState /\ n \in DOMAIN runs
      /\ runs[n] \in Run /\ n \in 0 .. MaxRuns
  BY Types DEF WaitForRun, At, IInv, DriverInv, DriverState
<1>2. ASSUME NEW v \in Outcomes \union {"none"}, WaitEnds(d, v),
             runs' \in Seq(Run), Len(runs') <= MaxRuns,
             UNCHANGED <<card, lock, human, presses, faults, wish, applied>>
      PROVE  IInv'
  <2>1. driver' = [driver EXCEPT ![d].pc = "settle", ![d].run = n, ![d].verdict = v]
    BY <1>1, <1>2, Types DEF WaitEnds, DriverState
  <2>2. /\ "settle" \in DriverPcs \ {"idle", "dead", "write"}
        /\ v \in Outcomes \union LandVerdicts \union {"none"}
        /\ driver[d].pc \notin {"idle", "dead"}
    BY <1>1, <1>2 DEF DriverPcs
  <2>3. UNCHANGED lock /\ UNCHANGED <<card, human, presses, faults, wish, applied>>
    BY <1>2
  <2> HIDE DEF n
  <2>4. QED
    BY <1>1, <1>2, <2>1, <2>2, <2>3, MovesWith
<1>3. runs[n].outcome \in Outcomes \union {"none"}
      /\ {"failed", "killed"} \subseteq Outcomes
  BY <1>1 DEF Run, Outcomes, HandoffOutcomes
<1>4. UNCHANGED <<card, lock, human, presses, faults, wish, applied>>
  BY DEF WaitForRun
<1>5. CASE runs' = runs
  <2>1. \E v \in Outcomes \union {"none"} : WaitEnds(d, v)
    <3>1. CASE runs[n].status \in FinalRun
               /\ WaitEnds(d, IF runs[n].status = "orphaned" /\ runs[n].outcome = "none"
                              THEN "failed" ELSE runs[n].outcome)
      BY <1>3, <3>1
    <3>2. CASE WaitEnds(d, "killed") \/ WaitEnds(d, "failed")
      BY <1>3, <3>2
    <3>3. QED
      BY <3>1, <3>2 DEF WaitForRun
  <2>2. QED
    BY <1>2, <1>4, <1>5, <2>1, Types
<1>6. CASE runs' = [runs EXCEPT ![n].status = "orphaned"] /\ WaitEnds(d, "failed")
  <2> DEFINE r == [runs[n] EXCEPT !.status = "orphaned"]
  <2>1. r \in Run /\ runs' = [runs EXCEPT ![n] = r]
    BY <1>1, <1>6 DEF Run, FinalRun
  <2> HIDE DEF r
  <2>2. runs' \in Seq(Run) /\ Len(runs') <= MaxRuns
    BY <1>1, <2>1, RunUpdate, Types
  <2>3. QED
    BY <1>2, <1>3, <1>4, <1>6, <2>2
<1>7. QED
  BY <1>5, <1>6 DEF WaitForRun

LEMMA SettleKeeps ==
  ASSUME IInv, NEW d \in Drivers, SettleRun(d)
  PROVE  IInv'
<1> DEFINE n == driver[d].run
<1>1. /\ driver[d].pc = "settle" /\ driver[d] \in DriverState /\ n \in 0 .. MaxRuns
      /\ driver[d].verdict \in Outcomes \union {"none"}
  BY Types DEF SettleRun, At, IInv, DriverInv, DriverState
<1>2. runs' \in Seq(Run) /\ Len(runs') <= MaxRuns
  <2>1. CASE n \in DOMAIN runs
    <3> DEFINE r == [runs[n] EXCEPT !.settled = TRUE]
    <3>1. runs[n] \in Run
      BY <2>1, Types
    <3>2. r \in Run
      BY <3>1 DEF Run
    <3>3. runs' = runs \/ runs' = [runs EXCEPT ![n] = r]
      BY DEF SettleRun
    <3> HIDE DEF r
    <3>4. QED
      BY <2>1, <3>2, <3>3, RunUpdate, Types
  <2>2. CASE n \notin DOMAIN runs
    <3>1. runs' = runs
      BY <2>2, Types DEF SettleRun
    <3>2. QED
      BY <3>1, Types
  <2>3. QED
    BY <2>1, <2>2
<1>3. driver' = [driver EXCEPT ![d].pc = "fresh", ![d].run = n,
                               ![d].verdict = driver[d].verdict]
  BY <1>1, Types DEF SettleRun, Goto, DriverState
<1>4. "fresh" \in DriverPcs \ {"idle", "dead", "write"}
      /\ driver[d].pc \notin {"idle", "dead"}
  BY <1>1 DEF DriverPcs
<1>5. UNCHANGED lock /\ UNCHANGED <<card, human, presses, faults, wish, applied>>
  BY DEF SettleRun
<1> HIDE DEF n
<1>6. QED
  BY <1>1, <1>2, <1>3, <1>4, <1>5, MovesWith

LEMMA FreshKeeps ==
  ASSUME IInv, NEW d \in Drivers, Fresh(d)
  PROVE  IInv'
<1> DEFINE verdict == driver[d].verdict
<1>1. /\ driver[d].pc = "fresh" /\ verdict \in Outcomes \union {"none"}
      /\ UNCHANGED <<card, runs, human, presses, faults, wish, applied>>
  BY DEF Fresh, At, IInv, DriverInv
<1>2. CASE card.status = "running"
  <2>1. CASE CanLegResult(card) /\ verdict # "none"
    <3>1. Transition(card, LegResult(card, verdict))
      BY <1>1, <2>1 DEF Transition
    <3>2. WillWrite(d, card, LegResult(card, verdict), "applied") /\ UNCHANGED lock
      BY <1>2, <2>1 DEF Fresh, Step
    <3>3. QED
      BY <1>1, <1>2, <3>1, <3>2, WillWriteKeeps
  <2>2. CASE ~ (CanLegResult(card) /\ verdict # "none")
    BY <1>1, <1>2, <2>2, ReleaseKeeps DEF Fresh, Step
  <2>3. QED
    BY <2>1, <2>2
<1>3. CASE card.status = "handing_off"
  BY <1>1, <1>3, GotoKeeps DEF Fresh, DriverPcs
<1>4. CASE card.status = "queued"
  BY <1>1, <1>4, GotoKeeps DEF Fresh, DriverPcs
<1>5. CASE card.status \notin {"running", "handing_off", "queued"}
  BY <1>1, <1>5, ReleaseKeeps DEF Fresh
<1>6. QED
  BY <1>2, <1>3, <1>4, <1>5

LEMMA AppliedKeeps ==
  ASSUME IInv, NEW d \in Drivers, Applied(d)
  PROVE  IInv'
<1>1. CASE card.status = "handing_off"
  BY <1>1, GotoKeeps DEF Applied, At, DriverPcs
<1>2. CASE card.status # "handing_off"
  BY <1>2, GotoKeeps DEF Applied, At, DriverPcs
<1>3. QED
  BY <1>1, <1>2

-----------------------------------------------------------------------------
(* The test and land stations.                                             *)

LEMMA TestKeeps ==
  ASSUME IInv, NEW d \in Drivers, (\E g \in BOOLEAN : TestDone(d, g)) \/ Green(d)
  PROVE  IInv'
<1>1. ASSUME NEW g \in BOOLEAN, TestDone(d, g) PROVE IInv'
  <2>1. /\ driver[d].pc = "testing"
        /\ UNCHANGED <<card, runs, human, presses, faults, wish, applied>>
    BY <1>1 DEF TestDone, At
  <2>2. CASE card.status = "queued"
    BY <1>1, <2>1, <2>2, GotoKeeps DEF TestDone, DriverPcs
  <2>3. CASE card.status \notin {"queued", "running"}
    BY <1>1, <2>1, <2>3, ReleaseKeeps DEF TestDone
  <2>4. CASE card.status = "running" /\ g
    BY <1>1, <2>1, <2>4, GotoKeeps DEF TestDone, DriverPcs
  <2>5. CASE card.status = "running" /\ ~ g /\ CanTestResult(card)
    <3>1. Transition(card, TestResult(card, FALSE))
      BY <2>5 DEF Transition
    <3>2. WillWrite(d, card, TestResult(card, FALSE), "top") /\ UNCHANGED lock
      BY <1>1, <2>5 DEF TestDone, Step
    <3>3. QED
      BY <2>1, <2>5, <3>1, <3>2, WillWriteKeeps
  <2>6. CASE card.status = "running" /\ ~ g /\ ~ CanTestResult(card)
    BY <1>1, <2>1, <2>6, ReleaseKeeps DEF TestDone, Step
  <2>7. QED
    BY <2>2, <2>3, <2>4, <2>5, <2>6
<1>2. CASE Green(d)
  <2>1. /\ driver[d].pc = "green"
        /\ UNCHANGED <<card, runs, human, presses, faults, wish, applied>>
    BY <1>2 DEF Green, At
  <2>2. CASE CanTestResult(card)
    <3>1. Transition(card, TestResult(card, TRUE)) /\ card.status = "running"
      BY <2>2 DEF Transition, CanTestResult
    <3>2. WillWrite(d, card, TestResult(card, TRUE), "top") /\ UNCHANGED lock
      BY <1>2, <2>2 DEF Green, Step
    <3>3. QED
      BY <2>1, <3>1, <3>2, WillWriteKeeps
  <2>3. CASE ~ CanTestResult(card)
    BY <1>2, <2>1, <2>3, ReleaseKeeps DEF Green, Step
  <2>4. QED
    BY <2>2, <2>3
<1>3. QED
  BY <1>1, <1>2

LEMMA LandKeeps ==
  ASSUME IInv, NEW d \in Drivers,
         (\E v \in LandVerdicts : LandDone(d, v)) \/ Landed(d)
  PROVE  IInv'
<1>1. ASSUME NEW v \in LandVerdicts, LandDone(d, v) PROVE IInv'
  <2>1. /\ driver[d].pc = "landing" /\ driver[d] \in DriverState
        /\ UNCHANGED <<card, runs, human, presses, faults, wish, applied>>
    BY <1>1, Types DEF LandDone, At
  <2>2. CASE card.status # "running"
    BY <1>1, <2>1, <2>2, ReleaseKeeps DEF LandDone
  <2>3. CASE card.status = "running"
    <3>1. driver' = [driver EXCEPT ![d].pc = "landed", ![d].run = driver[d].run,
                                   ![d].verdict = v]
      BY <1>1, <2>1, <2>3, Types DEF LandDone, DriverState
    <3>2. /\ "landed" \in DriverPcs \ {"idle", "dead", "write"}
          /\ driver[d].pc \notin {"idle", "dead"}
          /\ driver[d].run \in 0 .. MaxRuns
          /\ v \in Outcomes \union LandVerdicts \union {"none"}
      BY <2>1 DEF DriverPcs, DriverState
    <3>3. /\ UNCHANGED lock /\ UNCHANGED <<card, human, presses, faults, wish, applied>>
          /\ runs' \in Seq(Run) /\ Len(runs') <= MaxRuns
      BY <1>1, <2>1, <2>3, Types DEF LandDone
    <3>4. QED
      BY <3>1, <3>2, <3>3, MovesWith
  <2>4. QED
    BY <2>2, <2>3
<1>2. CASE Landed(d)
  <2> DEFINE verdict == driver[d].verdict
  <2>1. /\ driver[d].pc = "landed" /\ verdict \in LandVerdicts
        /\ UNCHANGED <<card, runs, human, presses, faults, wish, applied>>
    BY <1>2 DEF Landed, At, IInv, DriverInv
  <2>2. CASE CanLandResult(card)
    <3>1. Transition(card, LandResult(card, verdict)) /\ card.status = "running"
      BY <2>1, <2>2 DEF Transition, CanLandResult
    <3>2. WillWrite(d, card, LandResult(card, verdict), "top") /\ UNCHANGED lock
      BY <1>2, <2>2 DEF Landed, Step
    <3>3. QED
      BY <2>1, <3>1, <3>2, WillWriteKeeps
  <2>3. CASE ~ CanLandResult(card)
    BY <1>2, <2>1, <2>3, ReleaseKeeps DEF Landed, Step
  <2>4. QED
    BY <2>2, <2>3
<1>3. QED
  BY <1>1, <1>2

-----------------------------------------------------------------------------
(* The processes of a run.                                                 *)

\* A step that changes only run files keeps the invariant.
LEMMA RunsOnly ==
  ASSUME IInv, runs' \in Seq(Run), Len(runs') = Len(runs),
         UNCHANGED <<card, lock, driver, human, presses, wish, applied>>,
         faults' \in 0 .. FaultBudget
  PROVE  IInv'
<1>1. TypeOK'
  BY DEF IInv, TypeOK
<1>2. DOMAIN runs' = DOMAIN runs
  BY Types
<1>3. ASSUME NEW d \in Drivers PROVE DriverInv(d)'
  BY <1>2 DEF IInv, DriverInv
<1>4. QED
  BY <1>1, <1>3 DEF IInv, WellFormed, HumanDecisionStands

\* What the supervisor writes at the end is a run record.
LEMMA SupervisorEndsTyped ==
  ASSUME NEW r \in Run, NEW natural \in AgentVerdicts
  PROVE  /\ Classified(r, natural) \in Outcomes
         /\ FinalStatus(r, Classified(r, natural)) \in FinalRun
<1>1. natural \in Outcomes
  BY VerdictsAssumption
<1>2. QED
  BY <1>1 DEF Classified, FinalStatus, FinalRun, Outcomes, HandoffOutcomes, NoAdvanceOutcomes

LEMMA RunStepKeeps ==
  ASSUME IInv, RunStep
  PROVE  IInv'
<1>1. PICK n \in DOMAIN runs :
        \/ Spawn(n) \/ RecordSupervisor(n) \/ RecordAgent(n)
        \/ SpawnAgent(n, "alive") \/ SpawnAgent(n, "failed")
        \/ AgentExits(n) \/ TimerFires(n)
        \/ \E o \in AgentVerdicts : SupervisorEnds(n, o)
  BY DEF RunStep
<1>2. runs[n] \in Run
  BY Types
<1>3. \E r \in Run : runs' = [runs EXCEPT ![n] = r]
  <2>1. CASE Spawn(n)
    <3>1. [runs[n] EXCEPT !.launcher = "recording", !.sup = "starting"] \in Run
      BY <1>2 DEF Run
    <3>2. QED
      BY <2>1, <3>1 DEF Spawn
  <2>2. CASE RecordSupervisor(n)
    <3>1. [runs[n] EXCEPT !.launcher = "done", !.supPid = TRUE] \in Run
      BY <1>2 DEF Run
    <3>2. QED
      BY <2>2, <3>1 DEF RecordSupervisor
  <2>3. CASE RecordAgent(n)
    <3>1. [runs[n] EXCEPT !.status = "running", !.sup = "watching",
                          !.agentPid = runs[n].agent # "failed"] \in Run
      BY <1>2 DEF Run, ActiveRun
    <3>2. QED
      BY <2>3, <3>1 DEF RecordAgent
  <2>4. ASSUME NEW result \in {"alive", "failed"}, SpawnAgent(n, result)
        PROVE  \E r \in Run : runs' = [runs EXCEPT ![n] = r]
    <3>1. [runs[n] EXCEPT !.agent = result] \in Run
      BY <1>2 DEF Run
    <3>2. QED
      BY <2>4, <3>1 DEF SpawnAgent
  <2>5. CASE AgentExits(n)
    <3>1. [runs[n] EXCEPT !.agent = "dead"] \in Run
      BY <1>2 DEF Run
    <3>2. QED
      BY <2>5, <3>1 DEF AgentExits
  <2>6. CASE TimerFires(n)
    <3>1. [runs[n] EXCEPT !.timedOut = TRUE, !.agent = "dead"] \in Run
      BY <1>2 DEF Run
    <3>2. QED
      BY <2>6, <3>1 DEF TimerFires
  <2>7. ASSUME NEW o \in AgentVerdicts, SupervisorEnds(n, o)
        PROVE  \E r \in Run : runs' = [runs EXCEPT ![n] = r]
    <3> DEFINE outcome == Classified(runs[n], o)
               status == FinalStatus(runs[n], outcome)
    <3>1. outcome \in Outcomes /\ status \in FinalRun
      BY <1>2, SupervisorEndsTyped
    <3>2. runs' = [runs EXCEPT ![n].status = status, ![n].outcome = outcome,
                               ![n].sup = "dead"]
      BY <2>7 DEF SupervisorEnds
    <3> HIDE DEF outcome, status
    <3>3. [runs[n] EXCEPT !.status = status, !.outcome = outcome, !.sup = "dead"] \in Run
      BY <1>2, <3>1 DEF Run
    <3>4. QED
      BY <3>2, <3>3
  <2>8. QED
    BY <1>1, <2>1, <2>2, <2>3, <2>4, <2>5, <2>6, <2>7
<1>4. runs' \in Seq(Run) /\ Len(runs') = Len(runs)
  BY <1>3, RunUpdate
<1>5. faults' \in 0 .. FaultBudget
      /\ UNCHANGED <<card, lock, driver, human, presses, wish, applied>>
  BY DEF RunStep, IInv, TypeOK
<1>6. QED
  BY <1>4, <1>5, RunsOnly

-----------------------------------------------------------------------------
(* The human on the board.                                                 *)

\* A kill is asked of every run and leaves a run record of each.
LEMMA KillTyped ==
  ASSUME IInv
  PROVE  KillActiveRun \in Seq(Run) /\ Len(KillActiveRun) = Len(runs)
<1>1. ASSUME NEW r \in Run PROVE KillRun(r) \in Run
  <2>1. [r EXCEPT !.killRequested = TRUE, !.agent = "dead"] \in Run
    BY DEF Run
  <2>2. [r EXCEPT !.killRequested = TRUE, !.sup = "dead",
                  !.agent = IF @ = "alive" THEN "dead" ELSE @] \in Run
    BY DEF Run
  <2>3. [r EXCEPT !.killRequested = TRUE] \in Run
    BY DEF Run
  <2>4. QED
    BY <2>1, <2>2, <2>3 DEF KillRun
<1>2. KillActiveRun \in [1 .. Len(runs) -> Run]
  BY <1>1, Types DEF KillActiveRun
<1>3. QED
  BY <1>2, Types

\* A button that may be pressed is a legal transition of the card.
LEMMA PressIsTransition ==
  ASSUME NEW a \in HumanActions, NEW c, CanPress(a, c)
  PROVE  /\ Transition(c, Pressed(a, c))
         /\ a = "kill" => Pressed(a, c) = Kill(c)
         /\ a = "pause" => Pressed(a, c) = Pause(c)
         /\ a = "take_over" => Pressed(a, c) = TakeOver(c)
<1>1. CASE a = "pause"
  BY <1>1 DEF CanPress, Pressed, Transition
<1>2. CASE a = "take_over"
  BY <1>2 DEF CanPress, Pressed, Transition
<1>3. CASE a = "resume"
  BY <1>3 DEF CanPress, Pressed, Transition
<1>4. CASE a = "kill"
  BY <1>4 DEF CanPress, Pressed, Transition
<1>5. CASE a = "reassign"
  BY <1>5 DEF CanPress, Pressed, Transition
<1>6. CASE a = "handoff_now"
  BY <1>6 DEF CanPress, Pressed, Transition
<1>7. CASE a = "approve"
  BY <1>7 DEF CanPress, Pressed, Transition
<1>8. CASE a = "rerun"
  BY <1>8 DEF CanPress, Pressed, Transition
<1>9. QED
  BY <1>1, <1>2, <1>3, <1>4, <1>5, <1>6, <1>7, <1>8 DEF HumanActions

\* On the board a human acts, and no driver is between its read and its write.
LEMMA HumanKeeps ==
  ASSUME HumanAt = "board", IInv, Human
  PROVE  IInv' /\ Transition(card, card')
<1>1. PICK a \in HumanActions : HumanOnBoard(a)
  BY Types DEF Human, HumanRead, HumanWrite, HumanKillsRun
<1>2. CanPress(a, card) /\ card' = Pressed(a, card) /\ wish' = a
      /\ UNCHANGED <<lock, driver, human, faults, applied>>
  BY <1>1 DEF HumanOnBoard
<1>3. Transition(card, card')
  BY <1>2, PressIsTransition
<1>4. WellFormed(card') /\ card' \in Cards
  BY <1>3, Types, TransitionWellFormed DEF WellFormed
<1>5. ASSUME NEW d \in Drivers PROVE driver[d].pc # "write"
  <2>1. presses \in 0 .. HumanBudget /\ presses < HumanBudget
    BY <1>1 DEF HumanOnBoard, IInv, TypeOK
  <2>2. Drivers = {Board}
    BY <2>1, Types, BoardAssumption
  <2>3. QED
    BY <1>1, <2>2 DEF HumanOnBoard, BoardAwaits
<1>6. runs' \in Seq(Run) /\ Len(runs') = Len(runs)
  BY <1>1, Types, KillTyped DEF HumanOnBoard
<1>7. DOMAIN runs' = DOMAIN runs
  BY <1>6, Types
<1>8. presses' \in 0 .. HumanBudget
  BY <1>1, Types DEF HumanOnBoard, IInv, TypeOK
<1>9. TypeOK'
  BY <1>2, <1>4, <1>6, <1>8 DEF IInv, TypeOK
<1>10. ASSUME NEW d \in Drivers PROVE DriverInv(d)'
  BY <1>2, <1>5, <1>7 DEF IInv, DriverInv
<1>11. HumanDecisionStands'
  <2>1. a = "kill" => card'.status = "killed"
    BY <1>2, Types, PressIsTransition DEF Kill, Cards
  <2>2. a \in {"pause", "take_over"} => card'.status = "paused"
    BY <1>2, Types, PressIsTransition DEF Pause, TakeOver, Cards
  <2>3. QED
    BY <1>2, <2>1, <2>2 DEF HumanDecisionStands
<1>12. WellFormed(card)' /\ human'.pc = "idle"
  BY <1>2, <1>4, Types DEF WellFormed
<1>13. QED
  BY <1>3, <1>9, <1>10, <1>11, <1>12 DEF IInv

-----------------------------------------------------------------------------
(* Faults.                                                                 *)

\* A fault takes one of the budget.
LEMMA FaultTyped ==
  ASSUME IInv, NEW kind, Fault(kind)
  PROVE  faults' \in 0 .. FaultBudget
BY Types DEF Fault, IInv, TypeOK

\* A driver dies: nobody drives until somebody claims the card again.
LEMMA DriverDiesKeeps ==
  ASSUME IInv, NEW d \in Drivers, DriverDies(d)
  PROVE  IInv'
<1> DEFINE w == [Idle EXCEPT !.pc = "dead"]
<1>1. /\ driver' = [driver EXCEPT ![d] = w] /\ faults' \in 0 .. FaultBudget
      /\ UNCHANGED <<card, human, presses, wish, applied>>
  BY FaultTyped DEF DriverDies
<1>2. w \in DriverState /\ w.pc = "dead"
  BY RestStates DEF DriverPcs
<1>3. runs' \in Seq(Run) /\ Len(runs') = Len(runs)
  <2>1. ASSUME NEW n \in DOMAIN runs PROVE Disowned(runs[n], {d}) \in Run
    <3>1. runs[n] \in Run
      BY Types
    <3>2. QED
      BY <3>1 DEF Disowned, Run
  <2>2. runs' \in [1 .. Len(runs) -> Run]
    BY <2>1, Types DEF DriverDies
  <2>3. QED
    BY <2>2, Types
<1>4. DOMAIN runs' = DOMAIN runs
  BY <1>3, Types
<1>5. lock' \in Drivers \union {"none", "dead"} /\ (lock' = lock \/ lock = d)
  BY DEF DriverDies, IInv, TypeOK
<1> HIDE DEF w
<1>6. driver' \in [Drivers -> DriverState] /\ driver'[d] = w
      /\ \A e \in Drivers \ {d} : driver'[e] = driver[e]
  BY <1>1, <1>2, Types
<1>7. TypeOK'
  BY <1>1, <1>3, <1>5, <1>6 DEF IInv, TypeOK
<1>8. DriverInv(d)'
  BY <1>2, <1>6 DEF DriverInv
<1>9. ASSUME NEW e \in Drivers \ {d} PROVE DriverInv(e)'
  BY <1>1, <1>4, <1>5, <1>6 DEF IInv, DriverInv
<1>10. QED
  BY <1>1, <1>7, <1>8, <1>9 DEF IInv, WellFormed, HumanDecisionStands

LEMMA HostDiesKeeps ==
  ASSUME IInv, HostDies
  PROVE  IInv'
<1> DEFINE w == [Idle EXCEPT !.pc = "dead"]
<1>1. /\ driver' = [d \in Drivers |-> w] /\ faults' \in 0 .. FaultBudget
      /\ human' = HumanIdle
      /\ UNCHANGED <<card, presses, wish, applied>>
  BY FaultTyped DEF HostDies
<1>2. w \in DriverState /\ w.pc = "dead"
  BY RestStates DEF DriverPcs
<1>3. runs' \in Seq(Run) /\ Len(runs') = Len(runs)
  <2>1. ASSUME NEW n \in DOMAIN runs PROVE runs'[n] \in Run
    <3>1. runs[n] \in Run
      BY Types
    <3> DEFINE r == Disowned(runs[n], Drivers)
    <3>2. r \in Run
      BY <3>1 DEF Disowned, Run
    <3>3. runs'[n] = [r EXCEPT !.launcher = IF @ = "done" THEN "done" ELSE "dead",
                               !.sup = IF @ = "none" THEN "none" ELSE "dead",
                               !.agent = IF @ = "alive" THEN "dead" ELSE @]
      BY DEF HostDies
    <3> HIDE DEF r
    <3>4. QED
      BY <3>2, <3>3 DEF Run
  <2>2. runs' \in [1 .. Len(runs) -> Run]
    BY <2>1, Types DEF HostDies
  <2>3. QED
    BY <2>2, Types
<1>4. lock' \in Drivers \union {"none", "dead"}
  BY DEF HostDies
<1> HIDE DEF w
<1>5. driver' \in [Drivers -> DriverState] /\ \A e \in Drivers : driver'[e] = w
  BY <1>1, <1>2
<1>6. HumanIdle \in [pc : {"idle", "write", "kill"}, action : HumanActions \union {"none"},
                     seen : SeenCards, next : SeenCards] /\ HumanIdle.pc = "idle"
  BY DEF HumanIdle, SeenCards
<1>7. TypeOK'
  BY <1>1, <1>3, <1>4, <1>5, <1>6 DEF IInv, TypeOK
<1>8. ASSUME NEW e \in Drivers PROVE DriverInv(e)'
  BY <1>2, <1>5 DEF DriverInv
<1>9. QED
  BY <1>1, <1>6, <1>7, <1>8 DEF IInv, WellFormed, HumanDecisionStands

LEMMA RestartKeeps ==
  ASSUME IInv, NEW d \in Drivers, Restart(d)
  PROVE  IInv'
<1>1. /\ driver' = [driver EXCEPT ![d] = Idle] /\ driver[d].pc = "dead"
      /\ UNCHANGED <<card, runs, lock, human, presses, faults, wish, applied>>
  BY DEF Restart, At
<1>2. Idle \in DriverState /\ Idle.pc = "idle"
  BY RestStates DEF DriverPcs
<1>3. driver' \in [Drivers -> DriverState] /\ driver'[d] = Idle
      /\ \A e \in Drivers \ {d} : driver'[e] = driver[e]
  BY <1>1, <1>2, Types
<1>4. TypeOK'
  BY <1>1, <1>3 DEF IInv, TypeOK
<1>5. ASSUME NEW e \in Drivers PROVE DriverInv(e)'
  <2>1. CASE e = d
    BY <1>2, <1>3, <2>1 DEF DriverInv
  <2>2. CASE e # d
    BY <1>1, <1>3, <2>2 DEF IInv, DriverInv
  <2>3. QED
    BY <2>1, <2>2
<1>6. QED
  BY <1>1, <1>4, <1>5 DEF IInv, WellFormed, HumanDecisionStands

LEMMA RunFaultKeeps ==
  ASSUME IInv, NEW n \in DOMAIN runs,
         SupervisorDies(n) \/ SupervisorRefuses(n) \/ AgentUnkillable(n)
  PROVE  IInv'
<1>1. runs[n] \in Run
  BY Types
<1>2. \E r \in Run : runs' = [runs EXCEPT ![n] = r]
  <2>1. /\ [runs[n] EXCEPT !.sup = "dead"] \in Run
        /\ [runs[n] EXCEPT !.status = "failed", !.sup = "dead"] \in Run
        /\ [runs[n] EXCEPT !.status = "killed", !.sup = "dead"] \in Run
    BY <1>1 DEF Run, FinalRun
  <2>2. CASE SupervisorDies(n)
    BY <2>1, <2>2 DEF SupervisorDies
  <2>3. CASE SupervisorRefuses(n)
    BY <2>1, <2>3 DEF SupervisorRefuses
  <2>4. CASE AgentUnkillable(n)
    BY <2>1, <2>4 DEF AgentUnkillable
  <2>5. QED
    BY <2>2, <2>3, <2>4
<1>3. faults' \in 0 .. FaultBudget
  BY FaultTyped DEF SupervisorDies, SupervisorRefuses, AgentUnkillable
<1>4. UNCHANGED <<card, lock, driver, human, presses, wish, applied>>
  BY DEF SupervisorDies, SupervisorRefuses, AgentUnkillable
<1>5. QED
  BY <1>2, <1>3, <1>4, RunUpdate, RunsOnly

-----------------------------------------------------------------------------
(* The invariant and what follows from it.                                 *)

LEMMA DriverStepKeeps ==
  ASSUME IInv, NEW d \in Drivers, DriverStep(d)
  PROVE  IInv'
BY ClaimKeeps, LoopKeeps, WriteKeeps, AttachKeeps, LaunchKeeps, LaunchedKeeps,
   WaitKeeps, SettleKeeps, FreshKeeps, AppliedKeeps, TestKeeps, LandKeeps
   DEF DriverStep

\* A card that was just queued, and nobody at work.
LEMMA InitIInv == Init => IInv
<1> SUFFICES ASSUME Init PROVE IInv
  OBVIOUS
<1>1. PICK p \in Pipelines : card = Enqueue(NewCard(p, {}))
  BY DEF Init
<1>2. WellFormed(card) /\ card \in Cards
  BY <1>1, NewCardWellFormed DEF WellFormed
<1>3. Idle \in DriverState /\ Idle.pc = "idle"
  BY RestStates DEF DriverPcs
<1>4. driver \in [Drivers -> DriverState] /\ \A d \in Drivers : driver[d].pc = "idle"
  BY <1>3 DEF Init
<1>5. TypeOK
  BY <1>2, <1>4, BoundsAssumption DEF Init, TypeOK, HumanIdle, SeenCards
<1>6. \A d \in Drivers : DriverInv(d)
  BY <1>4 DEF DriverInv
<1>7. QED
  BY <1>2, <1>5, <1>6 DEF IInv, Init, HumanIdle, HumanDecisionStands

LEMMA StepIInv ==
  ASSUME HumanAt = "board"
  PROVE  IInv /\ [Next]_vars => IInv'
<1> SUFFICES ASSUME IInv, [Next]_vars PROVE IInv'
  OBVIOUS
<1>1. ASSUME NEW d \in Drivers, DriverStep(d) PROVE IInv'
  BY <1>1, DriverStepKeeps
<1>2. ASSUME NEW d \in Drivers, Restart(d) PROVE IInv'
  BY <1>2, RestartKeeps
<1>3. CASE RunStep
  BY <1>3, RunStepKeeps
<1>4. CASE Human
  BY <1>4, HumanKeeps
<1>5. CASE FaultStep
  BY <1>5, DriverDiesKeeps, HostDiesKeeps, RunFaultKeeps DEF FaultStep
<1>6. CASE UNCHANGED vars
  BY <1>6 DEF vars, IInv, TypeOK, WellFormed, DriverInv, HumanDecisionStands
<1>7. QED
  BY <1>1, <1>2, <1>3, <1>4, <1>5, <1>6 DEF Next

\* The inductive invariant, whatever dies and however many drivers compete.
THEOREM Invariance ==
  ASSUME HumanAt = "board"
  PROVE  Spec => []IInv
BY InitIInv, StepIInv, PTL DEF Spec

\* card.json, run.json and the processes always have their types.
THEOREM TypeCorrect ==
  ASSUME HumanAt = "board"
  PROVE  Spec => []TypeOK
<1>1. IInv => TypeOK
  BY DEF IInv
<1>2. QED
  BY <1>1, Invariance, PTL

\* A card a human killed, paused or took over on the board stays so: no driver
\* that looked at the card before undoes it, through any crash and restart.
THEOREM HumanDecisionStandsThm ==
  ASSUME HumanAt = "board"
  PROVE  Spec => []HumanDecisionStands
<1>1. IInv => HumanDecisionStands
  BY DEF IInv
<1>2. QED
  BY <1>1, Invariance, PTL

\* card.json changes only by legal transitions of the chain machine: the
\* driver's read, computation and write act as one step (step, apply).
THEOREM CardFollowsChainThm ==
  ASSUME HumanAt = "board"
  PROVE  Spec => CardFollowsChain
<1> DEFINE A == Transition(card, card') \/ card' = [card EXCEPT !.resume = FALSE]
<1>1. IInv /\ [Next]_vars => [A]_card
  <2> SUFFICES ASSUME IInv, [Next]_vars, card' # card PROVE A
    OBVIOUS
  <2>1. CASE Human
    BY <2>1, HumanKeeps
  <2>2. ASSUME NEW d \in Drivers, DriverStep(d) PROVE A
    <3>1. CASE Write(d)
      BY <3>1, WriteIsTransition
    <3>2. CASE Launched(d)
      BY <3>2, LaunchedKeeps
    <3>3. CASE ~ Write(d) /\ ~ Launched(d)
      BY <2>2, <3>3
         DEF DriverStep, Claim, Top, StartRead, Started, BundleRead, Attach, Launch,
             WaitForRun, SettleRun, Fresh, Applied, TestDone, Green, LandDone, Landed
    <3>4. QED
      BY <3>1, <3>2, <3>3
  <2>3. CASE \/ \E d \in Drivers : Restart(d)
             \/ RunStep \/ FaultStep \/ UNCHANGED vars
    BY <2>3 DEF Restart, RunStep, FaultStep, DriverDies, HostDies, SupervisorDies,
                SupervisorRefuses, AgentUnkillable, vars
  <2>4. QED
    BY <2>1, <2>2, <2>3 DEF Next
<1>2. QED
  BY <1>1, Invariance, PTL DEF Spec, CardFollowsChain

-----------------------------------------------------------------------------
(* The verdicts: what is left as it was.                                   *)

\* A step that writes no settled_at and starts no run.
SameBooks ==
  /\ Len(runs') = Len(runs)
  /\ \A n \in DOMAIN runs : runs'[n].settled = runs[n].settled /\ runs'[n].place = runs[n].place

LEMMA BooksKept ==
  ASSUME IInv, IInv', SameBooks
  PROVE  /\ Latest' = Latest /\ DOMAIN runs' = DOMAIN runs
         /\ Unsettled' <=> Unsettled
         /\ \A n : Settled(n)' <=> Settled(n)
<1>1. /\ runs \in Seq(Run) /\ Len(runs) \in Nat /\ DOMAIN runs = 1 .. Len(runs)
      /\ runs' \in Seq(Run) /\ DOMAIN runs' = 1 .. Len(runs')
  BY Types DEF IInv, TypeOK
<1>2. Latest' = Latest /\ DOMAIN runs' = DOMAIN runs
  BY <1>1 DEF SameBooks, Latest
<1>3. Unsettled' <=> Unsettled
  <2>1. (runs = << >> <=> Len(runs) = 0) /\ (runs' = << >> <=> Len(runs') = 0)
    BY <1>1
  <2>2. runs # << >> => Latest \in DOMAIN runs
    BY <1>1, <2>1 DEF Latest
  <2>3. QED
    BY <1>2, <2>1, <2>2 DEF SameBooks, Unsettled
<1>4. \A n : Settled(n)' <=> Settled(n)
  BY <1>2 DEF SameBooks, Settled
<1>5. QED
  BY <1>2, <1>3, <1>4

\* AppliedInv survives what settles and applies nothing.
LEMMA AppliedStays ==
  ASSUME IInv, IInv', AppliedInv, SameBooks, applied' = applied,
         \A e \in Drivers : driver'[e] = driver[e] \/ HandsInv(e)'
  PROVE  AppliedInv'
<1>1. ASSUME NEW e \in Drivers PROVE HandsInv(e)'
  <2>1. CASE driver'[e] = driver[e]
    <3>1. HandsInv(e)
      BY DEF AppliedInv
    <3>2. QED
      BY <2>1, <3>1, BooksKept DEF HandsInv, InHand, Decides, Settled, SameBooks
  <2>2. QED
    BY <2>1
<1>2. (\A i \in DOMAIN applied : Settled(applied[i][1]))'
  BY BooksKept DEF AppliedInv, Settled, SameBooks
<1>3. AppliedOnce'
  BY DEF AppliedInv, AppliedOnce
<1>4. QED
  BY <1>1, <1>2, <1>3 DEF AppliedInv

\* PlaceInv and VerdictsAreJust survive what leaves the card at its place.
LEMMA JustStays ==
  ASSUME IInv, IInv', VerdictInv, SameBooks, applied' = applied, wish' = wish,
         presses' = presses,
         card'.status = card.status, Place(card') = Place(card), Kind(card') = Kind(card),
         Orderly /\ PlaceInv /\ Unsettled /\ card.status = "running" =>
           ~ runs'[Latest].killRequested /\ runs'[Latest].outcome # "killed",
         \A e \in Drivers : driver'[e] = driver[e] \/ (Orderly /\ PlaceInv => JustInv(e)'),
         Orderly /\ Faults \cap {"driver", "host"} = {} =>
           \A e \in Drivers : InHand(e) => InHand(e)'
  PROVE  Orderly' => PlaceInv' /\ VerdictsAreJust'
<1> SUFFICES ASSUME Orderly PROVE PlaceInv' /\ VerdictsAreJust'
  BY DEF Orderly
<1>1. PlaceInv /\ VerdictsAreJust /\ AppliedInv
  BY DEF VerdictInv
<1>2. ASSUME NEW e \in Drivers PROVE JustInv(e)'
  <2>1. CASE driver'[e] = driver[e]
    <3>1. JustInv(e)
      BY <1>1 DEF PlaceInv
    <3>2. InReach(e)' <=> InReach(e)
      BY <2>1 DEF InReach, InHand
    <3>3. Decides(e)' <=> Decides(e)
      BY <2>1 DEF Decides
    <3>4. RunsAnAgent' <=> RunsAnAgent
      BY DEF RunsAnAgent
    <3>5. \A n \in DOMAIN runs : n \in DOMAIN runs' /\ runs'[n].place = runs[n].place
      BY BooksKept DEF SameBooks
    <3>6. QED
      BY <2>1, <3>1, <3>2, <3>3, <3>4, <3>5, BooksKept DEF JustInv
  <2>2. QED
    BY <1>1, <2>1
<1>3. Unsettled => Latest \in DOMAIN runs
  BY Types DEF Unsettled, Latest
<1>4. PlaceInv'
  <2>1. Unsettled' /\ presses' = 0 => RunsAnAgent'
    BY <1>1, BooksKept DEF PlaceInv, RunsAnAgent
  <2>2. Unsettled' /\ Faults \cap {"driver", "host"} = {} => \E d \in Drivers : InHand(d)'
    BY <1>1, BooksKept DEF PlaceInv
  <2>3. Unsettled' /\ card'.status = "running" =>
          /\ runs'[Latest'].place = Place(card')
          /\ ~ runs'[Latest'].killRequested
          /\ runs'[Latest'].outcome # "killed"
    BY <1>1, <1>3, BooksKept DEF PlaceInv, SameBooks
  <2>4. QED
    BY <1>2, <2>1, <2>2, <2>3 DEF PlaceInv
<1>5. VerdictsAreJust'
  <2>1. \A i \in DOMAIN applied : applied[i][1] \in DOMAIN runs
    BY <1>1 DEF AppliedInv, Settled
  <2>2. QED
    BY <1>1, <2>1 DEF SameBooks, VerdictsAreJust, VerdictFitsLeg, KilledMeansKill
<1>6. QED
  BY <1>4, <1>5

\* A run that changed hands at most.
Alike(r, q) ==
  /\ r.settled = q.settled /\ r.place = q.place /\ r.killRequested = q.killRequested
  /\ r.outcome = q.outcome /\ r.status = q.status /\ r.sup = q.sup /\ r.supPid = q.supPid
  /\ r.launcher = q.launcher /\ r.agent = q.agent

\* QuietInv survives what leaves the runs alone and ends no wait.
LEMMA QuietStays ==
  ASSUME IInv, VerdictInv, presses' = presses, Len(runs') = Len(runs), DOMAIN runs' = DOMAIN runs,
         \A n \in DOMAIN runs : Alike(runs'[n], runs[n]),
         \A e \in Drivers : driver'[e] = driver[e] \/ driver'[e].pc # "settle"
                              \/ driver'[e].run = 0
  PROVE  presses' = 0 => QuietInv'
<1> SUFFICES ASSUME presses = 0 PROVE QuietInv'
  OBVIOUS
<1>1. QuietInv
  BY DEF VerdictInv
<1>2. ASSUME NEW n \in DOMAIN runs PROVE QuietRun(n)'
  BY <1>1 DEF QuietInv, QuietRun, Latest, Alike
<1>3. ASSUME NEW e \in Drivers, driver'[e].pc = "settle", driver'[e].run # 0
      PROVE  runs'[driver'[e].run].status \in FinalRun
  <2>1. driver'[e] = driver[e] /\ driver[e].run \in DOMAIN runs
    <3>1. driver'[e] = driver[e]
      BY <1>3
    <3>2. InHand(e) /\ HandsInv(e)
      BY <1>3, <3>1 DEF InHand, VerdictInv, AppliedInv
    <3>3. Unsettled /\ driver[e].run = Latest
      BY <3>2 DEF HandsInv
    <3>4. Latest \in DOMAIN runs
      BY <3>3, Types DEF Unsettled, Latest
    <3>5. QED
      BY <3>1, <3>3, <3>4
  <2>2. QED
    BY <1>1, <1>3, <2>1 DEF QuietInv, Alike
<1>4. QED
  BY <1>2, <1>3 DEF QuietInv

LEMMA AlikeSame == IInv /\ runs' = runs =>
  /\ SameBooks /\ Len(runs') = Len(runs) /\ DOMAIN runs' = DOMAIN runs
  /\ \A n \in DOMAIN runs : Alike(runs'[n], runs[n])
BY DEF SameBooks, Alike

-----------------------------------------------------------------------------
(* The verdicts: the driver's steps that read the card and go on.          *)

\* No transition of a driver but the result of a killed leg kills the card.
LEMMA OnlyKilledKills ==
  ASSUME NEW c \in Cards, c.status # "killed"
  PROVE  /\ Start(c).status # "killed" /\ BundleWritten(c).status # "killed"
         /\ \A green : TestResult(c, green).status # "killed"
         /\ \A v \in LandVerdicts : LandResult(c, v).status # "killed"
         /\ \A o \in Outcomes \ {"killed"} : LegResult(c, o).status # "killed"
<1>1. /\ \A i : Advance(c, i).status # "killed"
      /\ \A f : Bounce(c, f).status # "killed"
  BY DEF Advance, Arrive, Bounce, Cards
<1>2. Start(c).status # "killed" /\ BundleWritten(c).status # "killed"
  BY DEF Start, BundleWritten, Cards
<1>3. /\ \A green : TestResult(c, green).status # "killed"
      /\ \A v \in LandVerdicts : LandResult(c, v).status # "killed"
  BY <1>1 DEF TestResult, LandResult, LandVerdicts, Cards
<1>4. \A o \in Outcomes \ {"killed"} : LegResult(c, o).status # "killed"
  BY <1>1 DEF LegResult, Outcomes, Cards
<1>5. QED
  BY <1>2, <1>3, <1>4

\* The steps that hold no run before and none after.
Aside(d) ==
  \/ Claim(d) \/ Top(d) \/ StartRead(d) \/ Started(d) \/ BundleRead(d) \/ Applied(d)
  \/ Green(d) \/ Landed(d) \/ Restart(d)
  \/ \E g \in BOOLEAN : TestDone(d, g)
  \/ \E v \in LandVerdicts : LandDone(d, v)

\* What they make of the driver: one that holds no run, does not go to prepare a leg, and looks
\* at the card as it is if it goes to the agent station.  Only from there, and from a card that
\* does not run an agent, does it come out of reach of a run.
AsideTo(d, w) ==
  /\ w.pc \notin {"launching", "wait", "settle", "fresh", "prep"}
  /\ w.pc = "write" => w.cont # "applied" /\ w.next.status # "killed"
  /\ w.pc = "attach" => RunsAnAgent /\ w.seen = card
  /\ w.pc \notin {"idle", "dead", "top", "attach"} =>
       driver[d].pc \notin {"idle", "dead"} /\ (~ InReach(d) \/ ~ RunsAnAgent)

LEMMA ReleaseTo ==
  ASSUME NEW d \in Drivers, Release(d)
  PROVE  \E w : driver' = [driver EXCEPT ![d] = w] /\ AsideTo(d, w)
<1>1. driver' = [driver EXCEPT ![d] = Idle] /\ Idle.pc = "idle"
  BY DEF Release, Idle
<1>2. AsideTo(d, Idle)
  BY <1>1 DEF AsideTo
<1>3. QED
  BY <1>1, <1>2

LEMMA StepTo ==
  ASSUME IInv, NEW d \in Drivers, NEW can \in BOOLEAN, NEW next, NEW cont,
         Step(d, can, next, cont), cont # "applied", can => next.status # "killed",
         ~ InReach(d)
  PROVE  \E w : driver' = [driver EXCEPT ![d] = w] /\ AsideTo(d, w)
<1>1. CASE can
  <2> DEFINE w == [driver[d] EXCEPT !.pc = "write", !.seen = card, !.next = next, !.cont = cont]
  <2>1. driver[d] \in DriverState /\ driver' = [driver EXCEPT ![d] = w]
    BY <1>1, Types DEF Step, WillWrite
  <2>2. w.pc = "write" /\ w.cont = cont /\ w.next = next
    BY <2>1 DEF DriverState
  <2> HIDE DEF w
  <2>3. QED
    BY <1>1, <2>1, <2>2 DEF AsideTo, InReach
<1>2. CASE ~ can
  BY <1>2, ReleaseTo DEF Step
<1>3. QED
  BY <1>1, <1>2

LEMMA GotoTo ==
  ASSUME IInv, NEW d \in Drivers,
         NEW pc \in DriverPcs \ {"launching", "wait", "settle", "fresh", "prep", "write", "attach"},
         Goto(d, pc),
         pc \notin {"idle", "dead", "top"} =>
           driver[d].pc \notin {"idle", "dead"} /\ (~ InReach(d) \/ ~ RunsAnAgent)
  PROVE  \E w : driver' = [driver EXCEPT ![d] = w] /\ AsideTo(d, w)
<1> DEFINE w == [driver[d] EXCEPT !.pc = pc]
<1>1. driver[d] \in DriverState /\ driver' = [driver EXCEPT ![d] = w]
  BY Types DEF Goto
<1>2. w.pc = pc
  BY <1>1 DEF DriverState
<1> HIDE DEF w
<1>3. QED
  BY <1>1, <1>2 DEF AsideTo

LEMMA EnterTo ==
  ASSUME IInv, NEW d \in Drivers, driver[d].pc \notin {"idle", "dead"}, Enter(d)
  PROVE  \E w : driver' = [driver EXCEPT ![d] = w] /\ AsideTo(d, w)
<1> DEFINE h == Handler(card)
           w == [driver[d] EXCEPT !.pc = h, !.seen = card]
<1>1. CASE card.status = "running" /\ h # "idle"
  <2>1. \/ h = "attach" /\ RunsAnAgent
        \/ h \in {"testing", "landing"} /\ ~ RunsAnAgent
    BY <1>1 DEF Handler, RunsAnAgent
  <2>2. driver[d] \in DriverState /\ driver' = [driver EXCEPT ![d] = w]
    BY <1>1, Types DEF Enter
  <2>3. w.pc = h /\ w.seen = card
    BY <2>2 DEF DriverState
  <2> HIDE DEF w, h
  <2>4. QED
    BY <2>1, <2>2, <2>3 DEF AsideTo
<1>2. CASE ~ (card.status = "running" /\ h # "idle")
  BY <1>2, ReleaseTo DEF Enter
<1>3. QED
  BY <1>1, <1>2

LEMMA AsideMoves ==
  ASSUME IInv, NEW d \in Drivers, Aside(d)
  PROVE  /\ \E w : driver' = [driver EXCEPT ![d] = w] /\ AsideTo(d, w)
         /\ driver[d].pc \notin {"launching", "wait", "settle"}
         /\ UNCHANGED <<card, runs, presses, wish, applied>>
<1> DEFINE P == \E w : driver' = [driver EXCEPT ![d] = w] /\ AsideTo(d, w)
<1>1. driver[d].pc \notin {"launching", "wait", "settle"}
      /\ UNCHANGED <<card, runs, presses, wish, applied>>
  BY DEF Aside, Claim, Top, StartRead, Started, BundleRead, Applied, Green, Landed, Restart,
         TestDone, LandDone, At
<1>2. card \in Cards
  BY Types
<1> SUFFICES P
  BY <1>1
<1>3. CASE Claim(d)
  BY <1>3, GotoTo DEF Claim, DriverPcs
<1>4. CASE Top(d)
  <2>1. CASE card.status \in {"handing_off", "queued"}
    <3>1. (Goto(d, "bundle") \/ Goto(d, "start")) /\ ~ RunsAnAgent /\ driver[d].pc = "top"
      BY <1>4, <2>1 DEF Top, At, RunsAnAgent
    <3>2. QED
      BY <3>1, GotoTo DEF DriverPcs
  <2>2. CASE card.status \notin {"handing_off", "queued"}
    BY <1>4, <2>2, EnterTo DEF Top, At
  <2>3. QED
    BY <2>1, <2>2
<1>5. CASE StartRead(d)
  <2>1. CanStart(card) => Start(card).status # "killed"
    BY <1>2, OnlyKilledKills DEF CanStart
  <2>2. ~ InReach(d)
    BY <1>5 DEF StartRead, At, InReach, InHand
  <2>3. CanStart(card) \in BOOLEAN
    BY DEF CanStart
  <2>4. QED
    BY <1>5, <2>1, <2>2, <2>3, StepTo DEF StartRead
<1>6. CASE Started(d)
  BY <1>6, EnterTo DEF Started, At
<1>7. CASE BundleRead(d)
  <2>1. CanBundleWritten(card) => BundleWritten(card).status # "killed"
    BY <1>2, OnlyKilledKills DEF CanBundleWritten
  <2>2. ~ InReach(d)
    BY <1>7 DEF BundleRead, At, InReach, InHand
  <2>3. CanBundleWritten(card) \in BOOLEAN
    BY DEF CanBundleWritten
  <2>4. QED
    BY <1>7, <2>1, <2>2, <2>3, StepTo DEF BundleRead
<1>8. CASE Applied(d)
  <2>1. ~ InReach(d) /\ driver[d].pc = "applied"
    BY <1>8 DEF Applied, At, InReach, InHand
  <2>2. Goto(d, "bundle") \/ Goto(d, "top")
    BY <1>8 DEF Applied
  <2>3. QED
    BY <2>1, <2>2, GotoTo DEF DriverPcs
<1>9. CASE Green(d)
  <2> DEFINE next == TestResult(card, TRUE)
  <2>1. CanTestResult(card) => next.status # "killed"
    BY <1>2, OnlyKilledKills DEF CanTestResult
  <2>2. ~ InReach(d)
    BY <1>9 DEF Green, At, InReach, InHand
  <2>3. CanTestResult(card) \in BOOLEAN
    BY DEF CanTestResult
  <2>4. QED
    <3>1. Step(d, CanTestResult(card), next, "top")
      BY <1>9 DEF Green
    <3> HIDE DEF next
    <3>2. QED
      BY <2>1, <2>2, <2>3, <3>1, StepTo
<1>10. CASE Landed(d)
  <2> DEFINE next == LandResult(card, driver[d].verdict)
  <2>1. driver[d].pc = "landed" /\ driver[d].verdict \in LandVerdicts
    BY <1>10 DEF Landed, At, IInv, DriverInv
  <2>2. CanLandResult(card) => next.status # "killed"
    BY <1>2, <2>1, OnlyKilledKills DEF CanLandResult
  <2>3. ~ InReach(d)
    BY <2>1 DEF InReach, InHand
  <2>4. CanLandResult(card) \in BOOLEAN
    BY DEF CanLandResult
  <2>5. QED
    <3>1. Step(d, CanLandResult(card), next, "top")
      BY <1>10 DEF Landed
    <3> HIDE DEF next
    <3>2. QED
      BY <2>2, <2>3, <2>4, <3>1, StepTo
<1>11. CASE Restart(d)
  <2>1. driver' = [driver EXCEPT ![d] = Idle] /\ Idle.pc = "idle"
    BY <1>11 DEF Restart, Idle
  <2>2. AsideTo(d, Idle)
    BY <2>1 DEF AsideTo
  <2>3. QED
    BY <2>1, <2>2
<1>12. ASSUME NEW g \in BOOLEAN, TestDone(d, g) PROVE P
  <2>1. ~ InReach(d) /\ driver[d].pc = "testing"
    BY <1>12 DEF TestDone, At, InReach, InHand
  <2>2. CASE Goto(d, "top") \/ Goto(d, "green")
    BY <2>1, <2>2, GotoTo DEF DriverPcs
  <2>3. CASE Release(d)
    BY <2>3, ReleaseTo
  <2>4. CASE card.status = "running" /\ Step(d, CanTestResult(card), TestResult(card, FALSE), "top")
    <3>1. TestResult(card, FALSE).status # "killed"
      BY <1>2, <2>4, OnlyKilledKills
    <3>2. CanTestResult(card) \in BOOLEAN
      BY DEF CanTestResult
    <3>3. QED
      BY <2>1, <2>4, <3>1, <3>2, StepTo
  <2>5. QED
    BY <1>12, <2>2, <2>3, <2>4 DEF TestDone
<1>13. ASSUME NEW v \in LandVerdicts, LandDone(d, v) PROVE P
  <2>1. ~ InReach(d) /\ driver[d] \in DriverState /\ driver[d].pc = "landing"
    BY <1>13, Types DEF LandDone, At, InReach, InHand
  <2>2. CASE Release(d)
    BY <2>2, ReleaseTo
  <2>3. CASE driver' = [driver EXCEPT ![d].pc = "landed", ![d].verdict = v]
    <3> DEFINE w == [driver[d] EXCEPT !.pc = "landed", !.verdict = v]
    <3>1. driver' = [driver EXCEPT ![d] = w] /\ w.pc = "landed"
      BY <2>1, <2>3, Types DEF DriverState
    <3> HIDE DEF w
    <3>2. QED
      BY <2>1, <3>1 DEF AsideTo
  <2>4. QED
    BY <1>13, <2>2, <2>3 DEF LandDone
<1>14. QED
  BY <1>3, <1>4, <1>5, <1>6, <1>7, <1>8, <1>9, <1>10, <1>11, <1>12, <1>13 DEF Aside

\* Of other drivers nothing changes, and none of them is at work.
LEMMA AsideKeeps ==
  ASSUME IInv, IInv', VerdictInv, NEW d \in Drivers, Aside(d)
  PROVE  VerdictInv'
<1>1. PICK w : driver' = [driver EXCEPT ![d] = w] /\ AsideTo(d, w)
  BY AsideMoves
<1>2. driver'[d] = w /\ \A e \in Drivers \ {d} : driver'[e] = driver[e]
  BY <1>1, Types
<1>3. /\ driver[d].pc \notin {"launching", "wait", "settle"}
      /\ UNCHANGED <<card, runs, presses, wish, applied>>
  BY AsideMoves
<1>4. SameBooks
  BY <1>3, AlikeSame
<1>5. HandsInv(d)'
  BY <1>1, <1>2 DEF AsideTo, HandsInv, InHand, Decides
<1>6. AppliedInv'
  BY <1>2, <1>3, <1>4, <1>5, AppliedStays DEF VerdictInv
<1>7. ASSUME Orderly, PlaceInv PROVE JustInv(d)'
  <2>1. ASSUME w.pc \notin {"idle", "dead", "top", "attach"} PROVE ~ Unsettled'
    <3>1. driver[d].pc \notin {"idle", "dead"} /\ (~ InReach(d) \/ ~ RunsAnAgent)
      BY <1>1, <2>1 DEF AsideTo
    <3>2. CASE ~ InReach(d)
      BY <1>3, <1>7, <3>2 DEF PlaceInv, JustInv, Unsettled, Latest
    <3>3. CASE InReach(d) /\ ~ RunsAnAgent
      <4>1. CASE presses = 0
        BY <1>3, <1>7, <3>3, <4>1 DEF PlaceInv, Unsettled, Latest
      <4>2. CASE presses # 0
        <5>1. Faults \cap {"driver", "host"} = {}
          BY <1>7, <4>2 DEF Orderly
        <5>2. ASSUME Unsettled PROVE FALSE
          <6>1. PICK e \in Drivers : InHand(e)
            BY <1>7, <5>1, <5>2 DEF PlaceInv
          <6>2. e # d /\ driver[e].pc \notin {"idle", "dead"}
            BY <1>3, <6>1 DEF InHand
          <6>3. driver[d].pc \in {"idle", "dead"}
            BY <6>2, OthersRest
          <6>4. QED
            BY <3>1, <6>3
        <5>3. QED
          BY <1>3, <5>2 DEF Unsettled, Latest
      <4>3. QED
        BY <4>1, <4>2
    <3>4. QED
      BY <3>1, <3>2, <3>3
  <2>2. QED
    BY <1>1, <1>2, <1>3, <2>1 DEF JustInv, AsideTo, InReach, InHand, Decides, RunsAnAgent
<1>8. ASSUME NEW e \in Drivers, InHand(e) PROVE InHand(e)'
  BY <1>2, <1>3, <1>8 DEF InHand
<1>9. Orderly' => PlaceInv' /\ VerdictsAreJust'
  <2>1. Orderly /\ PlaceInv /\ Unsettled /\ card.status = "running" =>
          ~ runs'[Latest].killRequested /\ runs'[Latest].outcome # "killed"
    BY <1>3 DEF PlaceInv
  <2>2. QED
    BY <1>2, <1>3, <1>4, <1>7, <1>8, <2>1, JustStays
<1>10. presses' = 0 => QuietInv'
  BY <1>1, <1>2, <1>3, AlikeSame, QuietStays DEF AsideTo
<1>11. QED
  BY <1>6, <1>9, <1>10 DEF VerdictInv

-----------------------------------------------------------------------------
(* The verdicts: the steps that start, hold, settle or apply a run.        *)

\* What a step of d that takes or holds a run must show.
LEMMA HolderKeeps ==
  ASSUME IInv, IInv', VerdictInv, NEW d \in Drivers, NEW w,
         driver' = [driver EXCEPT ![d] = w],
         UNCHANGED <<presses, wish, applied>>, SameBooks,
         card'.status = card.status, Place(card') = Place(card), Kind(card') = Kind(card),
         Orderly /\ PlaceInv /\ Unsettled /\ card.status = "running" =>
           ~ runs'[Latest].killRequested /\ runs'[Latest].outcome # "killed",
         HandsInv(d)', Orderly /\ PlaceInv => JustInv(d)',
         InHand(d) => InHand(d)',
         presses = 0 => QuietInv'
  PROVE  VerdictInv'
<1>1. driver'[d] = w /\ \A e \in Drivers \ {d} : driver'[e] = driver[e]
  BY Types
<1>2. AppliedInv'
  BY <1>1, AppliedStays DEF VerdictInv
<1>3. \A e \in Drivers : InHand(e) => InHand(e)'
  BY <1>1 DEF InHand
<1>4. Orderly' => PlaceInv' /\ VerdictsAreJust'
  BY <1>1, <1>3, JustStays
<1>5. QED
  BY <1>2, <1>4 DEF VerdictInv

\* The run of the latest leg, as d finds or leaves it.
LEMMA Hands ==
  ASSUME IInv, VerdictInv, NEW d \in Drivers
  PROVE  /\ InHand(d) => /\ Unsettled /\ driver[d].run = Latest
                         /\ Latest \in DOMAIN runs /\ ~ runs[Latest].settled
         /\ Unsettled => Latest \in DOMAIN runs /\ runs[Latest] \in Run
         /\ Orderly => PlaceInv /\ JustInv(d)
         /\ presses = 0 => Orderly
<1>1. HandsInv(d)
  BY DEF VerdictInv, AppliedInv
<1>2. Unsettled => Latest \in DOMAIN runs /\ runs[Latest] \in Run /\ ~ runs[Latest].settled
  BY Types DEF Unsettled, Latest
<1>3. Orderly => PlaceInv /\ JustInv(d)
  BY DEF VerdictInv, PlaceInv
<1>4. QED
  BY <1>1, <1>2, <1>3 DEF HandsInv, Orderly

LEMMA AttachMore ==
  ASSUME IInv, IInv', VerdictInv, NEW d \in Drivers, Attach(d)
  PROVE  VerdictInv'
<1>1. /\ driver[d].pc = "attach" /\ driver[d] \in DriverState
      /\ UNCHANGED <<card, presses, wish, applied>>
  BY Types DEF Attach, At
<1>2. Orderly => JustInv(d) /\ PlaceInv
  BY Hands
<1>3. CASE ~ Unsettled
  <2> DEFINE w == [driver[d] EXCEPT !.pc = "prep"]
  <2>1. driver' = [driver EXCEPT ![d] = w] /\ runs' = runs
    BY <1>3 DEF Attach, Goto
  <2>2. w.pc = "prep" /\ w.seen = driver[d].seen
    BY <1>1 DEF DriverState
  <2> HIDE DEF w
  <2>3. driver'[d] = w /\ (Unsettled' <=> Unsettled)
    BY <2>1, Types DEF Unsettled, Latest
  <2>4. HandsInv(d)'
    BY <2>2, <2>3 DEF HandsInv, InHand, Decides
  <2>5. Orderly /\ PlaceInv => JustInv(d)'
    BY <1>1, <1>2, <1>3, <2>2, <2>3 DEF JustInv, Decides, InReach, InHand, RunsAnAgent
  <2>6. presses = 0 => QuietInv'
    BY <1>1, <2>1, <2>2, <2>3, Types, AlikeSame, QuietStays
  <2>7. ~ InHand(d)
    BY <1>1 DEF InHand
  <2>8. QED
    BY <1>1, <1>3, <2>1, <2>4, <2>5, <2>6, <2>7, AlikeSame, HolderKeeps
<1>4. CASE Unsettled /\ runs[Latest].driver \notin {d, "dead"}
  <2>1. driver' = [driver EXCEPT ![d] = Idle] /\ runs' = runs /\ Idle.pc = "idle"
    BY <1>4 DEF Attach, Release, Idle
  <2>2. driver'[d] = Idle
    BY <2>1, Types
  <2>3. HandsInv(d)' /\ JustInv(d)' /\ ~ InHand(d)
    BY <1>1, <2>1, <2>2 DEF HandsInv, JustInv, InHand, Decides, InReach
  <2>4. presses = 0 => QuietInv'
    BY <1>1, <2>1, <2>2, Types, AlikeSame, QuietStays
  <2>5. Orderly /\ PlaceInv /\ Unsettled /\ card.status = "running" =>
           ~ runs'[Latest].killRequested /\ runs'[Latest].outcome # "killed"
    BY <2>1 DEF PlaceInv
  <2>6. QED
    BY <1>1, <2>1, <2>3, <2>4, <2>5, AlikeSame, HolderKeeps
<1>5. CASE Unsettled /\ runs[Latest].driver \in {d, "dead"}
  <2> DEFINE w == [driver[d] EXCEPT !.pc = "wait", !.run = Latest]
  <2>1. driver' = [driver EXCEPT ![d] = w] /\ runs' = [runs EXCEPT ![Latest].driver = d]
    BY <1>1, <1>5, Types DEF Attach
  <2>2. w.pc = "wait" /\ w.run = Latest
    BY <1>1 DEF DriverState
  <2> HIDE DEF w
  <2>3. Latest \in DOMAIN runs /\ Len(runs') = Len(runs) /\ DOMAIN runs' = DOMAIN runs
    BY <1>5, <2>1, Hands, Types
  <2>4. \A n \in DOMAIN runs : Alike(runs'[n], runs[n])
    <3> SUFFICES ASSUME NEW n \in DOMAIN runs PROVE Alike(runs'[n], runs[n])
      OBVIOUS
    <3>1. runs[n] \in Run
      BY Types
    <3>2. runs'[n] = runs[n] \/ runs'[n] = [runs[n] EXCEPT !.driver = d]
      BY <2>1
    <3>3. QED
      BY <3>1, <3>2 DEF Alike, Run
  <2>5. SameBooks
    BY <2>3, <2>4 DEF SameBooks, Alike
  <2>6. driver'[d] = w /\ \A e \in Drivers \ {d} : driver'[e] = driver[e]
    BY <2>1, Types
  <2>7. HandsInv(d)'
    BY <1>5, <2>2, <2>5, <2>6, BooksKept DEF HandsInv, InHand, Decides
  <2>8. JustInv(d)' /\ ~ InHand(d)
    BY <1>1, <2>2, <2>6 DEF JustInv, Decides, InReach, InHand
  <2>9. presses = 0 => QuietInv'
    BY <1>1, <2>2, <2>3, <2>4, <2>6, QuietStays
  <2>10. Orderly /\ PlaceInv /\ Unsettled /\ card.status = "running" =>
           ~ runs'[Latest].killRequested /\ runs'[Latest].outcome # "killed"
    BY <2>3, <2>4 DEF PlaceInv, Alike
  <2>11. QED
    BY <1>1, <2>1, <2>5, <2>7, <2>8, <2>9, <2>10, HolderKeeps
<1>6. QED
  BY <1>3, <1>4, <1>5

\* What Fresh makes of the driver: the verdict goes on in its hands, or it is done with the run.
FreshTo(d, w) ==
  \/ w.pc \in {"idle", "top", "bundle"}
  \/ /\ w.pc = "write" /\ w.cont = "applied" /\ w.run = driver[d].run
     /\ card.status = "running"
     /\ Orderly => w.next.status # "killed"

LEMMA FreshMoves ==
  ASSUME IInv, VerdictInv, NEW d \in Drivers, Fresh(d)
  PROVE  \E w : driver' = [driver EXCEPT ![d] = w] /\ FreshTo(d, w)
<1> DEFINE verdict == driver[d].verdict
           next == LegResult(card, verdict)
<1>1. /\ driver[d].pc = "fresh" /\ driver[d] \in DriverState
      /\ verdict \in Outcomes \union {"none"} /\ card \in Cards
  BY Types DEF Fresh, At, IInv, DriverInv
<1>2. CASE Release(d)
  <2>1. driver' = [driver EXCEPT ![d] = Idle] /\ Idle.pc = "idle"
    BY <1>2 DEF Release, Idle
  <2>2. QED
    BY <2>1 DEF FreshTo
<1>3. CASE Goto(d, "bundle") \/ Goto(d, "top")
  <2>1. PICK pc \in {"bundle", "top"} : Goto(d, pc)
    BY <1>3
  <2> DEFINE w == [driver[d] EXCEPT !.pc = pc]
  <2>2. driver' = [driver EXCEPT ![d] = w] /\ w.pc = pc
    BY <1>1, <2>1, Types DEF Goto, DriverState
  <2> HIDE DEF w
  <2>3. QED
    BY <2>2 DEF FreshTo
<1>4. CASE card.status = "running" /\ verdict # "none" /\ WillWrite(d, card, next, "applied")
  <2> DEFINE w == [driver[d] EXCEPT !.pc = "write", !.seen = card, !.next = next,
                                    !.cont = "applied"]
  <2>1. driver' = [driver EXCEPT ![d] = w]
    BY <1>1, <1>4, Types DEF WillWrite
  <2>2. w.pc = "write" /\ w.cont = "applied" /\ w.run = driver[d].run /\ w.next = next
    BY <1>1 DEF DriverState
  <2>3. Orderly => next.status # "killed"
    <3>1. Orderly => verdict # "killed"
      BY <1>1, <1>4, Hands DEF JustInv, Decides
    <3>2. QED
      BY <1>1, <1>4, <3>1, OnlyKilledKills
  <2> HIDE DEF w, next
  <2>4. QED
    BY <1>4, <2>1, <2>2, <2>3 DEF FreshTo
<1>5. QED
  BY <1>2, <1>3, <1>4 DEF Fresh, Step

LEMMA FreshMore ==
  ASSUME IInv, IInv', VerdictInv, NEW d \in Drivers, Fresh(d)
  PROVE  VerdictInv'
<1>1. PICK w : driver' = [driver EXCEPT ![d] = w] /\ FreshTo(d, w)
  BY FreshMoves
<1>2. driver'[d] = w /\ \A e \in Drivers \ {d} : driver'[e] = driver[e]
  BY <1>1, Types
<1>3. /\ driver[d].pc = "fresh" /\ ~ InHand(d) /\ ~ InReach(d)
      /\ UNCHANGED <<card, runs, presses, wish, applied>>
  BY DEF Fresh, At, InHand, InReach
<1>4. SameBooks
  BY <1>3, AlikeSame
<1>5. HandsInv(d)'
  <2>1. HandsInv(d)
    BY DEF VerdictInv, AppliedInv
  <2>2. QED
    BY <1>1, <1>2, <1>3, <2>1 DEF FreshTo, HandsInv, InHand, Decides, Settled
<1>6. Orderly /\ PlaceInv => JustInv(d)'
  <2>1. Orderly => JustInv(d)
    BY Hands
  <2>2. Unsettled' <=> Unsettled
    BY <1>4, BooksKept
  <2>3. QED
    BY <1>1, <1>2, <1>3, <2>1, <2>2 DEF FreshTo, JustInv, InHand, InReach, Decides
<1>7. presses = 0 => QuietInv'
  BY <1>1, <1>2, <1>3, AlikeSame, QuietStays DEF FreshTo
<1>8. Orderly /\ PlaceInv /\ Unsettled /\ card.status = "running" =>
        ~ runs'[Latest].killRequested /\ runs'[Latest].outcome # "killed"
  BY <1>3 DEF PlaceInv
<1>9. QED
  BY <1>1, <1>3, <1>4, <1>5, <1>6, <1>7, <1>8, HolderKeeps

LEMMA LaunchedMore ==
  ASSUME IInv, IInv', VerdictInv, NEW d \in Drivers, Launched(d)
  PROVE  VerdictInv'
<1> DEFINE w == [driver[d] EXCEPT !.pc = "wait"]
<1>1. /\ driver[d].pc = "launching" /\ driver[d] \in DriverState /\ card \in Cards
      /\ driver' = [driver EXCEPT ![d] = w]
      /\ UNCHANGED <<runs, presses, wish, applied>>
  BY Types DEF Launched, At, Goto
<1>2. w.pc = "wait" /\ w.run = driver[d].run
  BY <1>1 DEF DriverState
<1> HIDE DEF w
<1>3. driver'[d] = w /\ InHand(d) /\ InHand(d)'
  BY <1>1, <1>2, Types DEF InHand
<1>4. card'.status = card.status /\ Place(card') = Place(card) /\ Kind(card') = Kind(card)
  <2>1. card' = card \/ card' = [card EXCEPT !.resume = FALSE]
    BY DEF Launched
  <2>2. QED
    BY <1>1, <2>1 DEF Cards, Place, Kind, KindAt
<1>5. SameBooks
  BY <1>1, AlikeSame
<1>6. HandsInv(d)'
  BY <1>2, <1>3, <1>5, Hands, BooksKept DEF HandsInv, Decides
<1>7. JustInv(d)'
  BY <1>2, <1>3 DEF JustInv, InReach, Decides
<1>8. presses = 0 => QuietInv'
  BY <1>1, <1>2, <1>3, Types, AlikeSame, QuietStays
<1>9. Orderly /\ PlaceInv /\ Unsettled /\ card.status = "running" =>
        ~ runs'[Latest].killRequested /\ runs'[Latest].outcome # "killed"
  BY <1>1 DEF PlaceInv
<1>10. QED
  BY <1>1, <1>3, <1>4, <1>5, <1>6, <1>7, <1>8, <1>9, HolderKeeps

LEMMA WriteMore ==
  ASSUME IInv, IInv', VerdictInv, NEW d \in Drivers, Write(d)
  PROVE  VerdictInv'
<1> DEFINE cont == driver[d].cont
           w == [Idle EXCEPT !.pc = cont]
           r == driver[d].run
<1>1. /\ driver[d].pc = "write" /\ driver' = [driver EXCEPT ![d] = w]
      /\ UNCHANGED <<runs, presses, wish>>
      /\ applied' = IF cont = "applied" /\ r # 0
                    THEN Append(applied, <<r, Place(card)>>) ELSE applied
  BY DEF Write, At
<1>2. card' = driver[d].next /\ cont \in {"started", "top", "applied"}
  BY WriteIsTransition
<1>3. w.pc = cont
  BY DEF Idle
<1>4. r \in 0 .. MaxRuns
  BY Types DEF DriverState
<1> HIDE DEF w
<1>5. driver'[d] = w /\ \A e \in Drivers \ {d} : driver'[e] = driver[e]
  BY <1>1, Types
<1>6. \A e \in Drivers \ {d} : driver'[e].pc \in {"idle", "dead"}
  BY <1>1, <1>5, OthersRest
<1>7. \A e \in Drivers : HandsInv(e)' /\ (Orderly /\ ~ Unsettled => JustInv(e)')
  <2>1. Unsettled' <=> Unsettled
    BY <1>1 DEF Unsettled, Latest
  <2>2. QED
    BY <1>2, <1>3, <1>5, <1>6, <2>1 DEF HandsInv, JustInv, InHand, Decides, InReach
<1>8. Decides(d) => HandsInv(d) /\ (cont = "applied" <=> Decides(d))
  BY <1>1 DEF Decides, VerdictInv, AppliedInv
<1>9. applied \in Seq((1 .. MaxRuns) \X (Nat \X Nat)) /\ DOMAIN applied = 1 .. Len(applied)
  BY DEF IInv, TypeOK
<1>10. ASSUME cont = "applied" /\ r # 0 PROVE AppliedInv' /\ (Orderly' => VerdictFitsLeg')
  <2>1. Decides(d) /\ Settled(r) /\ \A i \in DOMAIN applied : applied[i][1] # r
    BY <1>1, <1>8, <1>10 DEF Decides, HandsInv
  <2>2. /\ DOMAIN applied' = 1 .. Len(applied) + 1
        /\ applied'[Len(applied) + 1] = <<r, Place(card)>>
        /\ \A i \in DOMAIN applied : applied'[i] = applied[i]
    BY <1>1, <1>9, <1>10
  <2>3. \A i \in DOMAIN applied' : i \in DOMAIN applied \/ i = Len(applied) + 1
    BY <1>9, <2>2
  <2>4. AppliedInv'
    <3>1. (\A i \in DOMAIN applied : Settled(applied[i][1]))'
      BY <1>1, <2>1, <2>2, <2>3 DEF VerdictInv, AppliedInv, Settled
    <3>2. AppliedOnce'
      BY <2>1, <2>2, <2>3 DEF AppliedOnce, VerdictInv, AppliedInv
    <3>3. QED
      BY <1>7, <3>1, <3>2 DEF AppliedInv
  <2>5. Orderly' => VerdictFitsLeg'
    <3> SUFFICES ASSUME Orderly PROVE VerdictFitsLeg'
      BY <1>1 DEF Orderly
    <3>1. JustInv(d) /\ VerdictFitsLeg
      BY Hands DEF VerdictInv, VerdictsAreJust
    <3>2. runs[r].place = Place(card)
      BY <1>1, <1>10, <2>1, <3>1 DEF JustInv
    <3>3. QED
      BY <1>1, <2>2, <2>3, <3>1, <3>2 DEF VerdictFitsLeg
  <2>6. QED
    BY <2>4, <2>5
<1>11. ASSUME ~ (cont = "applied" /\ r # 0) PROVE AppliedInv' /\ (Orderly' => VerdictFitsLeg')
  <2>1. applied' = applied
    BY <1>1, <1>11
  <2>2. AppliedInv'
    BY <1>1, <1>7, <2>1 DEF VerdictInv, AppliedInv, AppliedOnce, Settled
  <2>3. Orderly' => VerdictFitsLeg'
    BY <1>1, <2>1 DEF Orderly, VerdictInv, VerdictsAreJust, VerdictFitsLeg
  <2>4. QED
    BY <2>2, <2>3
<1>12. AppliedInv' /\ (Orderly' => VerdictFitsLeg')
  BY <1>10, <1>11
<1>13. Orderly' => PlaceInv' /\ VerdictsAreJust'
  <2> SUFFICES ASSUME Orderly PROVE PlaceInv' /\ VerdictsAreJust'
    BY <1>1 DEF Orderly
  <2>1. JustInv(d) /\ ~ InReach(d)
    BY <1>1, Hands DEF InReach, InHand
  <2>2. ~ Unsettled /\ ~ Unsettled'
    BY <1>1, <2>1 DEF JustInv, Unsettled, Latest
  <2>3. card'.status # "killed"
    BY <1>1, <1>2, <2>1 DEF JustInv
  <2>4. PlaceInv'
    BY <1>7, <2>2 DEF PlaceInv
  <2>5. VerdictsAreJust'
    BY <1>1, <1>12, <2>3 DEF Orderly, VerdictsAreJust, KilledMeansKill
  <2>6. QED
    BY <2>4, <2>5
<1>14. presses' = 0 => QuietInv'
  BY <1>1, <1>2, <1>3, <1>5, AlikeSame, QuietStays
<1>15. QED
  BY <1>12, <1>13, <1>14 DEF VerdictInv

LEMMA WaitMore ==
  ASSUME IInv, IInv', VerdictInv, NEW d \in Drivers, WaitForRun(d)
  PROVE  VerdictInv'
<1> DEFINE n == driver[d].run
           r == runs[n]
<1>1. /\ driver[d].pc = "wait" /\ driver[d] \in DriverState
      /\ UNCHANGED <<card, presses, wish, applied>>
  BY Types DEF WaitForRun, At
<1>2. InHand(d) /\ Unsettled /\ n = Latest /\ n \in DOMAIN runs /\ r \in Run /\ n # 0
  <2>1. InHand(d)
    BY <1>1 DEF InHand
  <2>2. QED
    BY <2>1, Hands, Types
<1>3. PICK v : WaitEnds(d, v) /\
        \/ r.status \in FinalRun /\ runs' = runs /\ (v = r.outcome \/ v = "failed")
        \/ card.status # "running" /\ runs' = runs
        \/ /\ r.supPid /\ r.sup = "dead" /\ v = "failed"
           /\ runs' = [runs EXCEPT ![n].status = "orphaned"]
  BY DEF WaitForRun
<1> DEFINE w == [driver[d] EXCEPT !.pc = "settle", !.verdict = v]
<1>4. driver' = [driver EXCEPT ![d] = w]
  BY <1>1, <1>3, Types DEF WaitEnds
<1>5. w.pc = "settle" /\ w.verdict = v /\ w.run = n
  BY <1>1 DEF DriverState
<1> HIDE DEF w, n, r
<1>6. driver'[d] = w /\ \A e \in Drivers \ {d} : driver'[e] = driver[e]
  BY <1>4, Types
<1>7. InHand(d)'
  BY <1>2, <1>5, <1>6 DEF InHand
<1>8. \A m \in DOMAIN runs :
        \/ runs'[m] = runs[m]
        \/ m = n /\ r.sup = "dead" /\ runs'[m] = [runs[m] EXCEPT !.status = "orphaned"]
  BY <1>3
<1>9. Len(runs') = Len(runs) /\ DOMAIN runs' = DOMAIN runs
  BY <1>2, <1>3, Types
<1>10. \A m \in DOMAIN runs :
         /\ runs'[m].settled = runs[m].settled /\ runs'[m].place = runs[m].place
         /\ runs'[m].killRequested = runs[m].killRequested
         /\ runs'[m].outcome = runs[m].outcome /\ runs'[m].sup = runs[m].sup
         /\ runs'[m].supPid = runs[m].supPid /\ runs'[m].launcher = runs[m].launcher
         /\ runs'[m].agent = runs[m].agent
         /\ \/ runs'[m].status = runs[m].status
            \/ m = n /\ r.sup = "dead" /\ runs'[m].status = "orphaned"
  <2> SUFFICES ASSUME NEW m \in DOMAIN runs
               PROVE  /\ runs'[m].settled = runs[m].settled /\ runs'[m].place = runs[m].place
                      /\ runs'[m].killRequested = runs[m].killRequested
                      /\ runs'[m].outcome = runs[m].outcome /\ runs'[m].sup = runs[m].sup
                      /\ runs'[m].supPid = runs[m].supPid /\ runs'[m].launcher = runs[m].launcher
                      /\ runs'[m].agent = runs[m].agent
                      /\ \/ runs'[m].status = runs[m].status
                         \/ m = n /\ r.sup = "dead" /\ runs'[m].status = "orphaned"
    OBVIOUS
  <2>1. runs[m] \in Run
    BY Types
  <2>2. QED
    BY <1>8, <2>1 DEF Run
<1>11. SameBooks
  BY <1>9, <1>10 DEF SameBooks
<1>12. HandsInv(d)'
  BY <1>2, <1>5, <1>6, <1>7, <1>11, BooksKept DEF HandsInv, Decides
<1>13. Orderly /\ PlaceInv => JustInv(d)'
  <2> SUFFICES ASSUME Orderly, PlaceInv PROVE JustInv(d)'
    OBVIOUS
  <2>1. card.status = "running" => v # "killed" /\ runs[n].place = Place(card)
    BY <1>2, <1>3 DEF PlaceInv, r
  <2>2. n \in DOMAIN runs' /\ runs'[n].place = runs[n].place
    BY <1>2, <1>9, <1>10
  <2>3. QED
    BY <1>1, <1>5, <1>6, <1>7, <2>1, <2>2 DEF JustInv, InReach
<1>14. presses = 0 => QuietInv'
  <2> SUFFICES ASSUME presses = 0 PROVE QuietInv'
    OBVIOUS
  <2>1. QuietInv /\ PlaceInv
    BY Hands DEF VerdictInv
  <2>2. card.status = "running"
    BY <1>2, <2>1 DEF PlaceInv, RunsAnAgent
  <2>3. runs'[n].status \in FinalRun
    BY <1>2, <1>3, <1>10, <2>2 DEF FinalRun, r, Run
  <2>4. ASSUME NEW m \in DOMAIN runs PROVE QuietRun(m)'
    <3>1. QuietRun(m) /\ (m = n => r = runs[m])
      BY <2>1 DEF QuietInv, r
    <3>2. Latest' = Latest /\ "orphaned" \in FinalRun
      BY <1>9 DEF Latest, FinalRun
    <3>3. QED
      BY <1>10, <3>1, <3>2 DEF QuietRun
  <2>5. ASSUME NEW e \in Drivers \ {d} PROVE driver'[e].pc # "settle"
    BY <1>1, <1>6, OthersRest
  <2>6. QED
    BY <1>5, <1>6, <1>9, <2>3, <2>4, <2>5 DEF QuietInv
<1>15. Orderly /\ PlaceInv /\ Unsettled /\ card.status = "running" =>
         ~ runs'[Latest].killRequested /\ runs'[Latest].outcome # "killed"
  BY <1>2, <1>10 DEF PlaceInv
<1>16. QED
  BY <1>1, <1>4, <1>7, <1>11, <1>12, <1>13, <1>14, <1>15, HolderKeeps

LEMMA SettleMore ==
  ASSUME IInv, IInv', VerdictInv, NEW d \in Drivers, SettleRun(d)
  PROVE  VerdictInv'
<1>0. PICK n : n = driver[d].run
  OBVIOUS
<1> DEFINE w == [driver[d] EXCEPT !.pc = "fresh"]
<1>1. /\ driver[d].pc = "settle" /\ driver[d] \in DriverState
      /\ UNCHANGED <<card, presses, wish, applied>>
      /\ driver' = [driver EXCEPT ![d] = w]
      /\ runs' = IF n = 0 THEN runs ELSE [runs EXCEPT ![n].settled = TRUE]
  BY <1>0, Types DEF SettleRun, At, Goto
<1>2. w.pc = "fresh" /\ w.run = n /\ w.verdict = driver[d].verdict
  BY <1>0, <1>1 DEF DriverState
<1> HIDE DEF w
<1>3. driver'[d] = w /\ \A e \in Drivers \ {d} : driver'[e] = driver[e]
  BY <1>1, Types
<1>4. \A e \in Drivers \ {d} : driver'[e].pc \in {"idle", "dead"}
  BY <1>1, <1>3, OthersRest
<1>5. n # 0 => /\ Unsettled /\ n = Latest /\ n \in DOMAIN runs /\ ~ runs[n].settled
  <2>1. n # 0 => InHand(d)
    BY <1>0, <1>1 DEF InHand
  <2>2. QED
    BY <1>0, <2>1, Hands
<1>6. \A m \in DOMAIN runs :
        \/ runs'[m] = runs[m]
        \/ m = n /\ n # 0 /\ runs'[m] = [runs[m] EXCEPT !.settled = TRUE]
  <2>1. CASE n = 0
    BY <1>1, <2>1
  <2>2. CASE n # 0
    <3>1. runs' = [runs EXCEPT ![n].settled = TRUE]
      BY <1>1, <2>2
    <3>2. QED
      BY <2>2, <3>1, Types
  <2>3. QED
    BY <2>1, <2>2
<1>7. Len(runs') = Len(runs) /\ DOMAIN runs' = DOMAIN runs /\ Latest' = Latest
      /\ (runs = << >> <=> runs' = << >>)
  BY <1>1, <1>5, Types DEF Latest
<1>8. \A m \in DOMAIN runs :
        /\ runs'[m].place = runs[m].place /\ runs'[m].status = runs[m].status
        /\ runs'[m].supPid = runs[m].supPid /\ runs'[m].launcher = runs[m].launcher
        /\ runs'[m].sup = runs[m].sup /\ runs'[m].agent = runs[m].agent
        /\ runs'[m].settled <=> runs[m].settled \/ (m = n /\ n # 0)
  <2> SUFFICES ASSUME NEW m \in DOMAIN runs
               PROVE  /\ runs'[m].place = runs[m].place /\ runs'[m].status = runs[m].status
                      /\ runs'[m].supPid = runs[m].supPid /\ runs'[m].launcher = runs[m].launcher
                      /\ runs'[m].sup = runs[m].sup /\ runs'[m].agent = runs[m].agent
                      /\ runs'[m].settled <=> runs[m].settled \/ (m = n /\ n # 0)
    OBVIOUS
  <2>1. runs[m] \in Run
    BY Types
  <2>2. CASE ~ (m = n /\ n # 0)
    BY <1>6, <2>2
  <2>3. CASE m = n /\ n # 0
    <3>1. runs'[m] = [runs[m] EXCEPT !.settled = TRUE]
      BY <1>1, <2>3
    <3>2. QED
      BY <2>1, <2>3, <3>1 DEF Run
  <2>4. QED
    BY <2>2, <2>3
<1>9. AppliedInv'
  <2>1. (\A i \in DOMAIN applied : Settled(applied[i][1]))' /\ AppliedOnce'
    BY <1>1, <1>7, <1>8 DEF VerdictInv, AppliedInv, Settled, AppliedOnce
  <2>2. HandsInv(d)'
    <3>1. ASSUME n # 0
          PROVE  Settled(n)' /\ \A i \in DOMAIN applied : applied[i][1] # n
      <4>1. Settled(n)'
        BY <1>5, <1>7, <1>8, <3>1 DEF Settled
      <4>2. \A i \in DOMAIN applied : Settled(applied[i][1])
        BY DEF VerdictInv, AppliedInv
      <4>3. ~ Settled(n)
        BY <1>5, <3>1 DEF Settled
      <4>4. QED
        BY <4>1, <4>2, <4>3
    <3>2. QED
      BY <1>1, <1>2, <1>3, <3>1 DEF HandsInv, InHand, Decides
  <2>3. \A e \in Drivers \ {d} : HandsInv(e)'
    BY <1>4 DEF HandsInv, InHand, Decides
  <2>4. QED
    BY <2>1, <2>2, <2>3 DEF AppliedInv
<1>10. Orderly' => PlaceInv' /\ VerdictsAreJust'
  <2> SUFFICES ASSUME Orderly PROVE PlaceInv' /\ VerdictsAreJust'
    BY <1>1 DEF Orderly
  <2>1. JustInv(d) /\ VerdictsAreJust
    BY Hands DEF VerdictInv
  <2>2. ~ Unsettled'
    <3>1. CASE n = 0
      <4>1. ~ InReach(d)
        BY <1>0, <1>1, <3>1 DEF InReach, InHand
      <4>2. QED
        BY <1>1, <2>1, <3>1, <4>1 DEF JustInv, Unsettled, Latest
    <3>2. CASE n # 0
      BY <1>5, <1>7, <1>8, <3>2 DEF Unsettled
    <3>3. QED
      BY <3>1, <3>2
  <2>3. JustInv(d)'
    <3>1. card.status = "running" =>
            /\ driver[d].verdict # "killed"
            /\ n # 0 => n \in DOMAIN runs' /\ runs'[n].place = Place(card)
      BY <1>0, <1>1, <1>7, <1>8, <2>1 DEF JustInv
    <3>2. QED
      BY <1>1, <1>2, <1>3, <2>2, <3>1 DEF JustInv
  <2>4. \A e \in Drivers \ {d} : JustInv(e)'
    BY <1>4, <2>2 DEF JustInv, Decides
  <2>5. VerdictsAreJust'
    <3>1. \A i \in DOMAIN applied : applied[i][1] \in DOMAIN runs
      BY DEF VerdictInv, AppliedInv, Settled
    <3>2. QED
      BY <1>1, <1>8, <2>1, <3>1 DEF VerdictsAreJust, VerdictFitsLeg, KilledMeansKill
  <2>6. QED
    BY <2>2, <2>3, <2>4, <2>5 DEF PlaceInv
<1>11. presses' = 0 => QuietInv'
  <2> SUFFICES ASSUME presses = 0 PROVE QuietInv'
    BY <1>1
  <2>1. QuietInv
    BY DEF VerdictInv
  <2>2. n # 0 => runs[n].status \in FinalRun
    BY <1>0, <1>1, <2>1 DEF QuietInv
  <2>3. \A m \in DOMAIN runs : QuietRun(m)'
    BY <1>7, <1>8, <2>1, <2>2 DEF QuietInv, QuietRun
  <2>4. \A e \in Drivers : driver'[e].pc # "settle"
    BY <1>2, <1>3, <1>4
  <2>5. QED
    BY <1>7, <2>3, <2>4 DEF QuietInv
<1>12. QED
  BY <1>9, <1>10, <1>11 DEF VerdictInv

LEMMA LaunchMore ==
  ASSUME IInv, IInv', VerdictInv, NEW d \in Drivers, Launch(d)
  PROVE  VerdictInv'
<1> DEFINE live == \E n \in DOMAIN runs : runs[n].status \in ActiveRun /\ SupervisorAlive(runs[n])
<1>1. /\ driver[d].pc = "prep" /\ driver[d] \in DriverState
      /\ ~ InHand(d) /\ ~ InReach(d)
      /\ UNCHANGED <<card, presses, wish, applied>>
  BY Types DEF Launch, At, InHand, InReach
<1>2. Orderly => JustInv(d) /\ PlaceInv /\ ~ Unsettled
  BY <1>1, Hands DEF JustInv
<1>3. ASSUME live PROVE VerdictInv'
  <2> DEFINE w == [driver[d] EXCEPT !.pc = "settle", !.run = 0, !.verdict = "launch_failed"]
  <2>1. driver' = [driver EXCEPT ![d] = w] /\ runs' = runs
    BY <1>1, <1>3, Types DEF Launch
  <2>2. w.pc = "settle" /\ w.run = 0 /\ w.verdict = "launch_failed"
    BY <1>1 DEF DriverState
  <2> HIDE DEF w
  <2>3. driver'[d] = w /\ (Unsettled' <=> Unsettled)
    BY <2>1, Types DEF Unsettled, Latest
  <2>4. HandsInv(d)'
    BY <2>2, <2>3 DEF HandsInv, InHand, Decides
  <2>5. Orderly /\ PlaceInv => JustInv(d)'
    BY <1>2, <2>2, <2>3 DEF JustInv
  <2>6. presses = 0 => QuietInv'
    BY <1>1, <2>1, <2>2, <2>3, Types, AlikeSame, QuietStays
  <2>7. Orderly /\ PlaceInv /\ Unsettled /\ card.status = "running" =>
          ~ runs'[Latest].killRequested /\ runs'[Latest].outcome # "killed"
    BY <1>2
  <2>8. QED
    BY <1>1, <2>1, <2>4, <2>5, <2>6, <2>7, AlikeSame, HolderKeeps
<1>4. ASSUME ~ live PROVE VerdictInv'
  <2>0. PICK k : k = Len(runs) + 1
    OBVIOUS
  <2> DEFINE old == [n \in DOMAIN runs |-> IF runs[n].status \in ActiveRun
                                           THEN [runs[n] EXCEPT !.status = "orphaned"]
                                           ELSE runs[n]]
             w == [driver[d] EXCEPT !.pc = "launching", !.run = k]
  <2>1. driver' = [driver EXCEPT ![d] = w] /\ runs' = Append(old, NewRun(d))
    BY <1>1, <1>4, <2>0, Types DEF Launch
  <2>2. w.pc = "launching" /\ w.run = k
    BY <1>1 DEF DriverState
  <2>3. \A n \in DOMAIN runs :
          /\ old[n].settled = runs[n].settled /\ old[n].place = runs[n].place
          /\ runs[n].status \notin ActiveRun => old[n] = runs[n]
    <3> SUFFICES ASSUME NEW n \in DOMAIN runs
                 PROVE  /\ old[n].settled = runs[n].settled /\ old[n].place = runs[n].place
                        /\ runs[n].status \notin ActiveRun => old[n] = runs[n]
      OBVIOUS
    <3>1. runs[n] \in Run
      BY Types
    <3>2. QED
      BY <3>1 DEF Run
  <2>4. old \in Seq({old[n] : n \in DOMAIN runs}) /\ Len(old) = Len(runs)
    <3>1. old \in [1 .. Len(runs) -> {old[n] : n \in DOMAIN runs}]
      BY Types
    <3>2. QED
      BY <3>1, Types
  <2> HIDE DEF old, w
  <2>5. /\ Len(runs') = k /\ DOMAIN runs' = 1 .. k
        /\ runs'[k] = NewRun(d)
        /\ \A n \in DOMAIN runs : runs'[n] = old[n] /\ n \in DOMAIN runs' /\ n < k
    BY <2>0, <2>1, <2>4, Types
  <2>6. driver'[d] = w /\ \A e \in Drivers \ {d} : driver'[e].pc \in {"idle", "dead"}
    BY <1>1, <2>1, OthersRest, Types
  <2>7. Latest' = k /\ k \in DOMAIN runs' /\ k # 0 /\ runs' # << >>
        /\ (\A n \in DOMAIN runs' : n = k \/ n \in DOMAIN runs)
    BY <2>0, <2>5, Types DEF Latest
  <2>8. Unsettled' /\ InHand(d)'
    BY <2>2, <2>5, <2>6, <2>7 DEF Unsettled, NewRun, InHand
  <2>9. AppliedInv'
    <3>1. (\A i \in DOMAIN applied : Settled(applied[i][1]))' /\ AppliedOnce'
      BY <1>1, <2>3, <2>5 DEF VerdictInv, AppliedInv, Settled, AppliedOnce
    <3>2. \A e \in Drivers : HandsInv(e)'
      BY <2>2, <2>6, <2>7, <2>8 DEF HandsInv, InHand, Decides
    <3>3. QED
      BY <3>1, <3>2 DEF AppliedInv
  <2>10. Orderly' => PlaceInv' /\ VerdictsAreJust'
    <3> SUFFICES ASSUME Orderly PROVE PlaceInv' /\ VerdictsAreJust'
      BY <1>1 DEF Orderly
    <3>1. presses = 0 => RunsAnAgent
      BY <1>1, <1>2 DEF JustInv
    <3>2. card.status = "running" => /\ runs'[k].place = Place(card)
                                     /\ ~ runs'[k].killRequested /\ runs'[k].outcome # "killed"
      BY <1>1, <1>2, <2>5 DEF JustInv, NewRun
    <3>3. \A e \in Drivers : JustInv(e)'
      BY <2>2, <2>6 DEF JustInv, InReach, InHand, Decides
    <3>4. PlaceInv'
      BY <1>1, <2>7, <2>8, <3>1, <3>2, <3>3 DEF PlaceInv, RunsAnAgent
    <3>5. VerdictsAreJust'
      <4>1. \A i \in DOMAIN applied : applied[i][1] \in DOMAIN runs
        BY DEF VerdictInv, AppliedInv, Settled
      <4>2. QED
        BY <1>1, <2>3, <2>5, <4>1 DEF VerdictInv, VerdictsAreJust, VerdictFitsLeg, KilledMeansKill
    <3>6. QED
      BY <3>4, <3>5
  <2>11. presses' = 0 => QuietInv'
    <3> SUFFICES ASSUME presses = 0 PROVE QuietInv'
      BY <1>1
    <3>1. QuietInv /\ ~ Unsettled
      BY <1>2, Hands DEF VerdictInv
    <3>2. ASSUME NEW n \in DOMAIN runs PROVE QuietRun(n)'
      <4>1. QuietRun(n) /\ n \in Nat /\ (n < Latest \/ n = Latest)
        BY <3>1, Types DEF QuietInv, Latest
      <4>2. runs[n].settled
        BY <3>1, <4>1, Types DEF QuietRun, Unsettled, Latest
      <4>3. runs[n].status \in FinalRun /\ runs[n].status \notin ActiveRun
        BY <4>1, <4>2 DEF QuietRun, FinalRun, ActiveRun
      <4>4. runs'[n] = runs[n]
        BY <2>3, <2>5, <4>3
      <4>5. QED
        BY <4>1, <4>2, <4>4 DEF QuietRun
    <3>3. QuietRun(k)'
      BY <2>5, <2>7 DEF QuietRun, NewRun, FinalRun
    <3>4. \A e \in Drivers : driver'[e].pc # "settle"
      BY <2>2, <2>6
    <3>5. QED
      BY <2>7, <3>2, <3>3, <3>4 DEF QuietInv
  <2>12. QED
    BY <2>9, <2>10, <2>11 DEF VerdictInv
<1>5. QED
  BY <1>3, <1>4

\* A step of a run's processes: what it may change of the run.
LEMMA RunStepTo ==
  ASSUME IInv, NEW n \in DOMAIN runs,
         \/ Spawn(n) \/ RecordSupervisor(n) \/ RecordAgent(n)
         \/ SpawnAgent(n, "alive") \/ SpawnAgent(n, "failed")
         \/ AgentExits(n) \/ TimerFires(n)
         \/ \E o \in AgentVerdicts : SupervisorEnds(n, o)
  PROVE  \E r :
           /\ runs' = [runs EXCEPT ![n] = r]
           /\ r.settled = runs[n].settled /\ r.place = runs[n].place
           /\ r.killRequested = runs[n].killRequested
           /\ ~ runs[n].killRequested /\ runs[n].outcome # "killed" => r.outcome # "killed"
           /\ QuietRun(n) =>
                /\ r.launcher = "spawning" => r.sup = "none"
                /\ r.sup = "none" => r.agent = "none"
                /\ r.supPid => r.launcher = "done"
                /\ r.status \in FinalRun => r.sup = "dead"
                /\ runs[n].status \in FinalRun => r.status \in FinalRun
<1> DEFINE q == runs[n]
           Good(r) ==
             /\ runs' = [runs EXCEPT ![n] = r]
             /\ r.settled = q.settled /\ r.place = q.place
             /\ r.killRequested = q.killRequested
             /\ ~ q.killRequested /\ q.outcome # "killed" => r.outcome # "killed"
             /\ QuietRun(n) =>
                  /\ r.launcher = "spawning" => r.sup = "none"
                  /\ r.sup = "none" => r.agent = "none"
                  /\ r.supPid => r.launcher = "done"
                  /\ r.status \in FinalRun => r.sup = "dead"
                  /\ q.status \in FinalRun => r.status \in FinalRun
<1>1. runs[n] \in Run
  BY Types
<1>2. CASE Spawn(n)
  <2> DEFINE r == [q EXCEPT !.launcher = "recording", !.sup = "starting"]
  <2>1. runs' = [runs EXCEPT ![n] = r] /\ q.launcher = "spawning"
    BY <1>2 DEF Spawn
  <2>2. Good(r)
    BY <1>1, <2>1 DEF Run, QuietRun
  <2>3. QED
    BY <2>2
<1>3. CASE RecordSupervisor(n)
  <2> DEFINE r == [q EXCEPT !.launcher = "done", !.supPid = TRUE]
  <2>1. runs' = [runs EXCEPT ![n] = r] /\ q.launcher = "recording"
    BY <1>3 DEF RecordSupervisor
  <2>2. Good(r)
    BY <1>1, <2>1 DEF Run, QuietRun
  <2>3. QED
    BY <2>2
<1>4. CASE RecordAgent(n)
  <2> DEFINE r == [q EXCEPT !.status = "running", !.sup = "watching",
                            !.agentPid = runs[n].agent # "failed"]
  <2>1. runs' = [runs EXCEPT ![n] = r] /\ q.sup = "starting" /\ "running" \notin FinalRun
    BY <1>4 DEF RecordAgent, FinalRun
  <2>2. Good(r)
    BY <1>1, <2>1 DEF Run, QuietRun
  <2>3. QED
    BY <2>2
<1>5. ASSUME NEW a \in {"alive", "failed"}, SpawnAgent(n, a) PROVE \E r : Good(r)
  <2> DEFINE r == [q EXCEPT !.agent = a]
  <2>1. runs' = [runs EXCEPT ![n] = r] /\ q.sup = "starting"
    BY <1>5 DEF SpawnAgent
  <2>2. Good(r)
    BY <1>1, <2>1 DEF Run, QuietRun
  <2>3. QED
    BY <2>2
<1>6. CASE AgentExits(n)
  <2> DEFINE r == [q EXCEPT !.agent = "dead"]
  <2>1. runs' = [runs EXCEPT ![n] = r] /\ q.agent = "alive"
    BY <1>6 DEF AgentExits
  <2>2. Good(r)
    BY <1>1, <2>1 DEF Run, QuietRun
  <2>3. QED
    BY <2>2
<1>7. CASE TimerFires(n)
  <2> DEFINE r == [q EXCEPT !.timedOut = TRUE, !.agent = "dead"]
  <2>1. runs' = [runs EXCEPT ![n] = r] /\ q.sup = "watching"
    BY <1>7 DEF TimerFires
  <2>2. Good(r)
    BY <1>1, <2>1 DEF Run, QuietRun
  <2>3. QED
    BY <2>2
<1>8. ASSUME NEW o \in AgentVerdicts, SupervisorEnds(n, o) PROVE \E r : Good(r)
  <2> DEFINE outcome == Classified(q, o)
             status == FinalStatus(q, outcome)
             r == [q EXCEPT !.status = status, !.outcome = outcome, !.sup = "dead"]
  <2>1. runs' = [runs EXCEPT ![n] = r] /\ q.sup = "watching"
    BY <1>8 DEF SupervisorEnds
  <2>2. status \in FinalRun
    BY <1>1, SupervisorEndsTyped
  <2>3. ~ q.killRequested => outcome # "killed"
    BY VerdictsAssumption DEF Classified
  <2> HIDE DEF outcome, status
  <2>4. Good(r)
    BY <1>1, <2>1, <2>2, <2>3 DEF Run, QuietRun
  <2>5. QED
    BY <2>4
<1>9. \E r : Good(r)
  BY <1>2, <1>3, <1>4, <1>5, <1>6, <1>7, <1>8
<1>10. QED
  BY <1>9

\* QuietInv survives what lets every run be quiet and keeps the runs that are over.
LEMMA QuietKept ==
  ASSUME IInv, VerdictInv, presses' = presses, Len(runs') = Len(runs), DOMAIN runs' = DOMAIN runs,
         \A n \in DOMAIN runs :
           /\ QuietRun(n) => QuietRun(n)'
           /\ QuietRun(n) /\ runs[n].status \in FinalRun => runs'[n].status \in FinalRun,
         \A e \in Drivers : driver'[e] = driver[e] \/ driver'[e].pc = "dead"
  PROVE  presses' = 0 => QuietInv'
<1> SUFFICES ASSUME presses = 0 PROVE QuietInv'
  OBVIOUS
<1>1. QuietInv
  BY DEF VerdictInv
<1>2. \A n \in DOMAIN runs' : QuietRun(n)'
  BY <1>1 DEF QuietInv
<1>3. ASSUME NEW e \in Drivers, driver'[e].pc = "settle", driver'[e].run # 0
      PROVE  runs'[driver'[e].run].status \in FinalRun
  <2>1. driver'[e] = driver[e] /\ InHand(e)
    BY <1>3 DEF InHand
  <2>2. driver[e].run \in DOMAIN runs
    BY <2>1, Hands
  <2>3. QED
    BY <1>1, <1>3, <2>1, <2>2 DEF QuietInv
<1>4. QED
  BY <1>2, <1>3 DEF QuietInv

LEMMA RunStepMore ==
  ASSUME IInv, IInv', VerdictInv, RunStep
  PROVE  VerdictInv'
<1>1. PICK n \in DOMAIN runs :
        \/ Spawn(n) \/ RecordSupervisor(n) \/ RecordAgent(n)
        \/ SpawnAgent(n, "alive") \/ SpawnAgent(n, "failed")
        \/ AgentExits(n) \/ TimerFires(n)
        \/ \E o \in AgentVerdicts : SupervisorEnds(n, o)
  BY DEF RunStep
<1>2. UNCHANGED <<card, driver, presses, wish, applied>>
  BY DEF RunStep
<1>3. PICK r :
           /\ runs' = [runs EXCEPT ![n] = r]
           /\ r.settled = runs[n].settled /\ r.place = runs[n].place
           /\ r.killRequested = runs[n].killRequested
           /\ ~ runs[n].killRequested /\ runs[n].outcome # "killed" => r.outcome # "killed"
           /\ QuietRun(n) =>
                /\ r.launcher = "spawning" => r.sup = "none"
                /\ r.sup = "none" => r.agent = "none"
                /\ r.supPid => r.launcher = "done"
                /\ r.status \in FinalRun => r.sup = "dead"
                /\ runs[n].status \in FinalRun => r.status \in FinalRun
  BY <1>1, RunStepTo
<1>4. Len(runs') = Len(runs) /\ DOMAIN runs' = DOMAIN runs /\ runs'[n] = r
      /\ \A m \in DOMAIN runs \ {n} : runs'[m] = runs[m]
  BY <1>3, Types
<1>5. SameBooks
  BY <1>3, <1>4 DEF SameBooks
<1>6. AppliedInv'
  BY <1>2, <1>5, AppliedStays DEF VerdictInv
<1>7. Orderly /\ PlaceInv /\ Unsettled /\ card.status = "running" =>
        ~ runs'[Latest].killRequested /\ runs'[Latest].outcome # "killed"
  <2>1. Unsettled => Latest \in DOMAIN runs
    BY Types DEF Unsettled, Latest
  <2>2. QED
    BY <1>3, <1>4, <2>1 DEF PlaceInv
<1>8. Orderly' => PlaceInv' /\ VerdictsAreJust'
  <2>1. \A e \in Drivers : InHand(e)' <=> InHand(e)
    BY <1>2 DEF InHand
  <2>2. QED
    BY <1>2, <1>5, <1>7, <2>1, JustStays
<1>9. presses' = 0 => QuietInv'
  <2>1. ASSUME NEW m \in DOMAIN runs
        PROVE  /\ QuietRun(m) => QuietRun(m)'
               /\ QuietRun(m) /\ runs[m].status \in FinalRun => runs'[m].status \in FinalRun
    <3>1. Latest' = Latest
      BY <1>4 DEF Latest
    <3>2. CASE m # n
      BY <1>4, <3>1, <3>2 DEF QuietRun
    <3>3. CASE m = n
      BY <1>3, <1>4, <3>1, <3>3 DEF QuietRun
    <3>4. QED
      BY <3>2, <3>3
  <2>2. QED
    BY <1>2, <1>4, <2>1, QuietKept
<1>10. QED
  BY <1>6, <1>8, <1>9 DEF VerdictInv

LEMMA RunFaultMore ==
  ASSUME IInv, IInv', VerdictInv, NEW n \in DOMAIN runs,
         SupervisorDies(n) \/ SupervisorRefuses(n) \/ AgentUnkillable(n)
  PROVE  VerdictInv'
<1>1. runs[n] \in Run /\ UNCHANGED <<card, driver, presses, wish, applied>>
  BY Types DEF SupervisorDies, SupervisorRefuses, AgentUnkillable
<1>2. PICK s \in {runs[n].status, "failed", "killed"} :
        runs' = [runs EXCEPT ![n].status = s, ![n].sup = "dead"]
        /\ runs[n].sup \in {"starting", "watching"}
  <2>1. CASE SupervisorDies(n)
    <3>1. runs' = [runs EXCEPT ![n] = [runs[n] EXCEPT !.sup = "dead"]]
          /\ runs[n].sup \in {"starting", "watching"}
      BY <2>1 DEF SupervisorDies, SupervisorRuns
    <3>2. [runs[n] EXCEPT !.sup = "dead"]
            = [runs[n] EXCEPT !.status = runs[n].status, !.sup = "dead"]
      BY <1>1 DEF Run
    <3>3. QED
      BY <3>1, <3>2
  <2>2. CASE SupervisorRefuses(n)
    BY <2>2 DEF SupervisorRefuses
  <2>3. CASE AgentUnkillable(n)
    BY <2>3 DEF AgentUnkillable
  <2>4. QED
    BY <2>1, <2>2, <2>3
<1> DEFINE r == [runs[n] EXCEPT !.status = s, !.sup = "dead"]
<1>3. runs' = [runs EXCEPT ![n] = r]
  BY <1>2
<1>4. /\ r.settled = runs[n].settled /\ r.place = runs[n].place
      /\ r.killRequested = runs[n].killRequested /\ r.outcome = runs[n].outcome
      /\ r.status = s /\ r.sup = "dead" /\ r.launcher = runs[n].launcher
      /\ r.supPid = runs[n].supPid
  BY <1>1 DEF Run
<1> HIDE DEF r
<1>5. Len(runs') = Len(runs) /\ DOMAIN runs' = DOMAIN runs /\ runs'[n] = r
      /\ \A m \in DOMAIN runs \ {n} : runs'[m] = runs[m]
  BY <1>3, Types
<1>6. SameBooks
  BY <1>4, <1>5 DEF SameBooks
<1>7. AppliedInv'
  BY <1>1, <1>6, AppliedStays DEF VerdictInv
<1>8. Orderly' => PlaceInv' /\ VerdictsAreJust'
  <2>1. Unsettled => Latest \in DOMAIN runs
    BY Types DEF Unsettled, Latest
  <2>2. Orderly /\ PlaceInv /\ Unsettled /\ card.status = "running" =>
          ~ runs'[Latest].killRequested /\ runs'[Latest].outcome # "killed"
    BY <1>4, <1>5, <2>1 DEF PlaceInv
  <2>3. \A e \in Drivers : InHand(e)' <=> InHand(e)
    BY <1>1 DEF InHand
  <2>4. QED
    BY <1>1, <1>6, <2>2, <2>3, JustStays
<1>9. presses' = 0 => QuietInv'
  <2>1. ASSUME NEW m \in DOMAIN runs
        PROVE  /\ QuietRun(m) => QuietRun(m)'
               /\ QuietRun(m) /\ runs[m].status \in FinalRun => runs'[m].status \in FinalRun
    <3>1. Latest' = Latest /\ {"failed", "killed"} \subseteq FinalRun
      BY <1>5 DEF Latest, FinalRun
    <3>2. CASE m # n
      BY <1>5, <3>1, <3>2 DEF QuietRun
    <3>3. CASE m = n
      BY <1>2, <1>4, <1>5, <3>1, <3>3 DEF QuietRun
    <3>4. QED
      BY <3>2, <3>3
  <2>2. QED
    BY <1>1, <1>5, <2>1, QuietKept
<1>10. QED
  BY <1>7, <1>8, <1>9 DEF VerdictInv

\* What a death leaves of a run: its books and its status; its processes may be dead.
LEMMA DeathsSpare ==
  ASSUME IInv, HostDies \/ \E d \in Drivers : DriverDies(d)
  PROVE  \A n \in DOMAIN runs :
        /\ runs'[n].settled = runs[n].settled /\ runs'[n].place = runs[n].place
        /\ runs'[n].killRequested = runs[n].killRequested
        /\ runs'[n].outcome = runs[n].outcome /\ runs'[n].status = runs[n].status
        /\ runs'[n].supPid = runs[n].supPid
        /\ \/ runs'[n].launcher = runs[n].launcher
           \/ runs'[n].launcher = "dead" /\ runs[n].launcher # "done"
        /\ \/ runs'[n].sup = runs[n].sup
           \/ runs'[n].sup = "dead" /\ runs[n].sup # "none"
        /\ \/ runs'[n].agent = runs[n].agent
           \/ runs'[n].agent = "dead" /\ runs[n].agent = "alive"
<1> DEFINE Spared(r, q) ==
             /\ r.settled = q.settled /\ r.place = q.place
             /\ r.killRequested = q.killRequested
             /\ r.outcome = q.outcome /\ r.status = q.status /\ r.supPid = q.supPid
             /\ r.launcher = q.launcher \/ (r.launcher = "dead" /\ q.launcher # "done")
             /\ r.sup = q.sup \/ (r.sup = "dead" /\ q.sup # "none")
             /\ r.agent = q.agent \/ (r.agent = "dead" /\ q.agent = "alive")
<1> SUFFICES ASSUME NEW n \in DOMAIN runs PROVE Spared(runs'[n], runs[n])
  OBVIOUS
<1>1. runs[n] \in Run
  BY Types
<1>2. ASSUME NEW D PROVE /\ Disowned(runs[n], D) = runs[n]
                            \/ Disowned(runs[n], D) = [runs[n] EXCEPT !.driver = "dead"]
                         /\ Disowned(runs[n], D) \in Run
                         /\ Spared(Disowned(runs[n], D), runs[n])
  BY <1>1 DEF Disowned, Run
<1>3. CASE HostDies
  <2> DEFINE q == Disowned(runs[n], Drivers)
  <2>1. runs'[n] = [q EXCEPT !.launcher = IF @ = "done" THEN "done" ELSE "dead",
                             !.sup = IF @ = "none" THEN "none" ELSE "dead",
                             !.agent = IF @ = "alive" THEN "dead" ELSE @]
    BY <1>3 DEF HostDies
  <2>2. q \in Run /\ Spared(q, runs[n])
    BY <1>2
  <2>3. q.launcher = runs[n].launcher /\ q.sup = runs[n].sup /\ q.agent = runs[n].agent
    BY <1>1 DEF Disowned, Run
  <2> HIDE DEF q
  <2>4. QED
    BY <2>1, <2>2, <2>3 DEF Run
<1>4. ASSUME NEW d \in Drivers, DriverDies(d) PROVE Spared(runs'[n], runs[n])
  BY <1>2, <1>4 DEF DriverDies
<1>5. QED
  BY <1>3, <1>4

\* A kill asks for the end of a run: it settles nothing and moves nothing.
LEMMA KillSpares ==
  ASSUME IInv
  PROVE  /\ DOMAIN KillActiveRun = DOMAIN runs
         /\ \A n \in DOMAIN runs : /\ KillActiveRun[n].settled = runs[n].settled
                                   /\ KillActiveRun[n].place = runs[n].place
<1>1. ASSUME NEW r \in Run PROVE KillRun(r).settled = r.settled /\ KillRun(r).place = r.place
  BY DEF KillRun, Run
<1>2. QED
  BY <1>1, Types DEF KillActiveRun

\* After a button no card runs, and only Kill leaves it killed.
LEMMA PressStops ==
  ASSUME NEW a \in HumanActions, NEW c \in Cards, CanPress(a, c)
  PROVE  /\ Pressed(a, c).status # "running"
         /\ Pressed(a, c).status = "killed" => a = "kill"
<1> DEFINE Stops(d) == d.status # "running" /\ (d.status = "killed" => a = "kill")
<1>1. \A i : Arrive(c, i).status \in {"waiting_human", "queued"}
  BY DEF Arrive, Cards
<1>2. Advance(c, c.station).status \in {"waiting_human", "queued", "done"}
  BY <1>1 DEF Advance, Cards
<1>3. Rerun(c).status \in {"waiting_human", "queued"}
  BY <1>1 DEF Rerun, Arrive, Cards
<1>4. CASE a \in {"pause", "take_over", "resume"}
  BY <1>4 DEF Pressed, Pause, TakeOver, Resume, Cards
<1>5. CASE a \in {"kill", "handoff_now"}
  BY <1>5 DEF Pressed, Kill, HandoffNow, Cards
<1>6. CASE a = "reassign"
  BY <1>6 DEF Pressed, Reassign, Cards
<1>7. CASE a = "approve"
  BY <1>2, <1>7 DEF Pressed, Approve, Cards
<1>8. CASE a = "rerun"
  BY <1>3, <1>8 DEF Pressed
<1>9. QED
  BY <1>4, <1>5, <1>6, <1>7, <1>8 DEF HumanActions

\* A driver dies, or the machine does: nobody is in reach of a button (Orderly), every run keeps
\* its books, and no run is over that was not.
LEMMA DeathsMore ==
  ASSUME IInv, IInv', VerdictInv, HostDies \/ \E d \in Drivers : DriverDies(d)
  PROVE  VerdictInv'
<1>1. /\ UNCHANGED <<card, presses, wish, applied>>
      /\ Faults \cap {"driver", "host"} # {}
  BY DEF HostDies, DriverDies, Fault
<1>2. \A e \in Drivers : driver'[e] = driver[e] \/ driver'[e].pc = "dead"
  <2>1. [Idle EXCEPT !.pc = "dead"].pc = "dead"
    BY DEF Idle
  <2>2. CASE HostDies
    BY <2>1, <2>2 DEF HostDies
  <2>3. ASSUME NEW d \in Drivers, DriverDies(d)
        PROVE  \A e \in Drivers : driver'[e] = driver[e] \/ driver'[e].pc = "dead"
    BY <2>1, <2>3, Types DEF DriverDies
  <2>4. QED
    BY <2>2, <2>3
<1>3. DOMAIN runs' = DOMAIN runs /\ Len(runs') = Len(runs)
  <2>1. /\ runs' \in Seq(Run) /\ DOMAIN runs' = 1 .. Len(runs') /\ Len(runs') \in Nat
        /\ DOMAIN runs = 1 .. Len(runs) /\ Len(runs) \in Nat
    BY Types DEF IInv, TypeOK
  <2>2. DOMAIN runs' = DOMAIN runs
    BY DEF HostDies, DriverDies
  <2>3. \A a, b \in Nat : 1 .. a = 1 .. b => a = b
    <3> SUFFICES ASSUME NEW a \in Nat, NEW b \in Nat, 1 .. a = 1 .. b, a # b PROVE FALSE
      OBVIOUS
    <3>1. a < b => b \in 1 .. b /\ b \notin 1 .. a
      OBVIOUS
    <3>2. b < a => a \in 1 .. a /\ a \notin 1 .. b
      OBVIOUS
    <3>3. QED
      BY <3>1, <3>2
  <2>4. QED
    BY <2>1, <2>2, <2>3
<1>4. \A n \in DOMAIN runs :
        /\ runs'[n].settled = runs[n].settled /\ runs'[n].place = runs[n].place
        /\ runs'[n].killRequested = runs[n].killRequested
        /\ runs'[n].outcome = runs[n].outcome /\ runs'[n].status = runs[n].status
        /\ runs'[n].supPid = runs[n].supPid
        /\ \/ runs'[n].launcher = runs[n].launcher
           \/ runs'[n].launcher = "dead" /\ runs[n].launcher # "done"
        /\ \/ runs'[n].sup = runs[n].sup
           \/ runs'[n].sup = "dead" /\ runs[n].sup # "none"
        /\ \/ runs'[n].agent = runs[n].agent
           \/ runs'[n].agent = "dead" /\ runs[n].agent = "alive"
  BY DeathsSpare
<1>5. SameBooks
  BY <1>3, <1>4 DEF SameBooks
<1>6. AppliedInv'
  <2>1. \A e \in Drivers : driver'[e].pc = "dead" => HandsInv(e)'
    BY DEF HandsInv, InHand, Decides
  <2>2. QED
    BY <1>1, <1>2, <1>5, <2>1, AppliedStays DEF VerdictInv
<1>7. Orderly' => PlaceInv' /\ VerdictsAreJust'
  <2>1. \A e \in Drivers : driver'[e].pc = "dead" => JustInv(e)'
    BY DEF JustInv, InReach, Decides
  <2>2. Orderly /\ PlaceInv /\ Unsettled /\ card.status = "running" =>
          ~ runs'[Latest].killRequested /\ runs'[Latest].outcome # "killed"
    <3>1. Unsettled => Latest \in DOMAIN runs
      BY Types DEF Unsettled, Latest
    <3>2. QED
      BY <1>4, <3>1 DEF PlaceInv
  <2>3. QED
    BY <1>1, <1>2, <1>5, <2>1, <2>2, JustStays
<1>8. presses' = 0 => QuietInv'
  <2>1. Latest' = Latest
    BY <1>3 DEF Latest
  <2>2. ASSUME NEW m \in DOMAIN runs
        PROVE  /\ QuietRun(m) => QuietRun(m)'
               /\ QuietRun(m) /\ runs[m].status \in FinalRun => runs'[m].status \in FinalRun
    BY <1>4, <2>1 DEF QuietRun
  <2>3. QED
    BY <1>1, <1>2, <1>3, <2>2, QuietKept
<1>9. QED
  BY <1>6, <1>7, <1>8 DEF VerdictInv

\* A human presses a button on the board: the card stops running, and no driver is about to write.
LEMMA HumanMore ==
  ASSUME HumanAt = "board", IInv, IInv', VerdictInv, Human
  PROVE  VerdictInv'
<1>1. PICK a \in HumanActions : HumanOnBoard(a)
  BY Types DEF Human, HumanRead, HumanWrite, HumanKillsRun
<1>2. /\ CanPress(a, card) /\ card' = Pressed(a, card) /\ wish' = a
      /\ presses' = presses + 1
      /\ runs' = runs \/ runs' = KillActiveRun
      /\ UNCHANGED <<driver, applied>>
  BY <1>1 DEF HumanOnBoard
<1>3. /\ presses \in Nat /\ presses' # 0 /\ card \in Cards
      /\ Drivers = {Board} /\ driver[Board].pc # "write"
  <2>1. presses \in 0 .. HumanBudget /\ presses < HumanBudget
    BY <1>1 DEF HumanOnBoard, IInv, TypeOK
  <2>2. Drivers = {Board}
    BY <2>1, Types, BoardAssumption
  <2>3. QED
    BY <1>1, <1>2, <2>1, <2>2, Types DEF HumanOnBoard, BoardAwaits
<1>4. card'.status # "running" /\ (card'.status = "killed" => a = "kill")
  BY <1>2, <1>3, PressStops
<1>5. /\ DOMAIN runs' = DOMAIN runs /\ Len(runs') = Len(runs)
      /\ \A n \in DOMAIN runs : /\ runs'[n].settled = runs[n].settled
                                /\ runs'[n].place = runs[n].place
  BY <1>2, KillSpares, KillTyped, Types
<1>6. SameBooks
  BY <1>5 DEF SameBooks
<1>7. AppliedInv'
  BY <1>2, <1>6, AppliedStays DEF VerdictInv
<1>8. Orderly' => PlaceInv' /\ VerdictsAreJust'
  <2> SUFFICES ASSUME Orderly' PROVE PlaceInv' /\ VerdictsAreJust'
    OBVIOUS
  <2>1. Orderly /\ Faults \cap {"driver", "host"} = {}
    BY <1>3 DEF Orderly
  <2>2. PlaceInv /\ VerdictsAreJust
    BY <2>1 DEF VerdictInv
  <2>3. Unsettled' <=> Unsettled
    BY <1>6, BooksKept
  <2>4. \A e \in Drivers : InHand(e)' <=> InHand(e)
    BY <1>2 DEF InHand
  <2>5. ASSUME NEW e \in Drivers PROVE JustInv(e)'
    <3>1. JustInv(e) /\ driver'[e] = driver[e] /\ driver[e].pc # "write"
      BY <1>2, <1>3, <2>2 DEF PlaceInv
    <3>2. InReach(e)' <=> InReach(e)
      BY <1>2 DEF InReach, InHand
    <3>3. QED
      BY <1>3, <1>4, <2>3, <3>1, <3>2 DEF JustInv
  <2>6. PlaceInv'
    BY <1>3, <1>4, <2>2, <2>3, <2>4, <2>5 DEF PlaceInv
  <2>7. VerdictsAreJust'
    <3>1. \A i \in DOMAIN applied : applied[i][1] \in DOMAIN runs
      BY DEF VerdictInv, AppliedInv, Settled
    <3>2. QED
      BY <1>2, <1>4, <1>5, <2>2, <3>1 DEF VerdictsAreJust, VerdictFitsLeg, KilledMeansKill
  <2>8. QED
    BY <2>6, <2>7
<1>9. QED
  BY <1>3, <1>7, <1>8 DEF VerdictInv

-----------------------------------------------------------------------------
(* The verdicts: what is proved.                                           *)

LEMMA InitVerdict == Init => VerdictInv
<1> SUFFICES ASSUME Init PROVE VerdictInv
  OBVIOUS
<1>1. runs = << >> /\ applied = << >> /\ presses = 0
      /\ \A d \in Drivers : driver[d].pc = "idle"
  BY DEF Init, Idle
<1>2. ~ Unsettled
  BY <1>1 DEF Unsettled
<1>3. card.status # "killed"
  BY DEF Init, Enqueue, Arrive, NewCard
<1>4. AppliedInv
  BY <1>1 DEF AppliedInv, HandsInv, InHand, Decides, AppliedOnce
<1>5. PlaceInv
  BY <1>1, <1>2 DEF PlaceInv, JustInv, Decides
<1>6. VerdictsAreJust
  BY <1>1, <1>3 DEF VerdictsAreJust, VerdictFitsLeg, KilledMeansKill
<1>7. QuietInv
  BY <1>1 DEF QuietInv
<1>8. QED
  BY <1>4, <1>5, <1>6, <1>7 DEF VerdictInv

LEMMA StepVerdict ==
  ASSUME HumanAt = "board"
  PROVE  IInv /\ IInv' /\ VerdictInv /\ [Next]_vars => VerdictInv'
<1> SUFFICES ASSUME IInv, IInv', VerdictInv, [Next]_vars PROVE VerdictInv'
  OBVIOUS
<1>1. ASSUME NEW d \in Drivers, DriverStep(d) \/ Restart(d) PROVE VerdictInv'
  BY <1>1, AsideKeeps, AttachMore, LaunchMore, LaunchedMore, WaitMore, SettleMore, FreshMore,
     WriteMore DEF DriverStep, Aside
<1>2. CASE RunStep
  BY <1>2, RunStepMore
<1>3. CASE Human
  BY <1>3, HumanMore
<1>4. CASE FaultStep
  BY <1>4, RunFaultMore, DeathsMore DEF FaultStep
<1>5. CASE UNCHANGED vars
  BY <1>5 DEF vars, VerdictInv, AppliedInv, HandsInv, InHand, Decides, Settled, AppliedOnce,
       Orderly, PlaceInv, JustInv, InReach, RunsAnAgent, VerdictsAreJust, VerdictFitsLeg,
       KilledMeansKill, QuietInv, QuietRun, Unsettled, Latest
<1>6. QED
  BY <1>1, <1>2, <1>3, <1>4, <1>5 DEF Next

\* The invariant of the verdicts: whose run it is, what it was launched for, who may apply it.
THEOREM VerdictInvariance ==
  ASSUME HumanAt = "board"
  PROVE  Spec => []VerdictInv
BY InitIInv, StepIInv, InitVerdict, StepVerdict, PTL DEF Spec

\* A verdict moves the card only at the place its run was launched for, and nothing but a human's
\* Kill kills it: whatever dies as long as nobody presses a button, and whatever is pressed as
\* long as no driver dies.
THEOREM VerdictsAreJustThm ==
  ASSUME HumanAt = "board", HumanBudget = 0 \/ Faults \cap {"driver", "host"} = {}
  PROVE  Spec => []VerdictsAreJust
<1>1. IInv /\ VerdictInv => VerdictsAreJust
  <2> SUFFICES ASSUME IInv, VerdictInv PROVE VerdictsAreJust
    OBVIOUS
  <2>1. presses \in 0 .. HumanBudget
    BY DEF IInv, TypeOK
  <2>2. Orderly
    BY <2>1 DEF Orderly
  <2>3. QED
    BY <2>2 DEF VerdictInv
<1>2. QED
  BY <1>1, Invariance, VerdictInvariance, PTL

\* No two agents work on the card at once while no button is pressed, and no verdict is ever
\* applied twice: whatever dies and comes back, and whoever drives.
THEOREM NothingTwiceThm ==
  ASSUME HumanAt = "board"
  PROVE  Spec => []NothingTwice
<1>1. IInv /\ VerdictInv => NothingTwice
  <2> SUFFICES ASSUME IInv, VerdictInv PROVE NothingTwice
    OBVIOUS
  <2>1. ASSUME presses = 0, NEW m \in LiveAgents, NEW n \in LiveAgents, m < n
        PROVE  "dead" \in {runs[m].sup, runs[n].sup}
    <3>1. QuietRun(m) /\ m < Latest
      BY <2>1, Types DEF VerdictInv, QuietInv, LiveAgents, Latest
    <3>2. QED
      BY <3>1 DEF QuietRun
  <2>2. OneAgent
    <3>1. \A m, n \in LiveAgents : m \in Nat /\ n \in Nat
      BY Types DEF LiveAgents
    <3>2. QED
      BY <2>1, <3>1 DEF OneAgent
  <2>3. QED
    BY <2>2 DEF NothingTwice, VerdictInv, AppliedInv
<1>2. QED
  BY <1>1, Invariance, VerdictInvariance, PTL
=============================================================================
