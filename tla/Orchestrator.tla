---------------------------- MODULE Orchestrator ----------------------------
(***************************************************************************)
(* One background card driven by real processes: the driver loop of        *)
(* src/orchestrator.mjs with the station handlers of src/stations/, the    *)
(* launcher and the supervisor of src/runner.mjs, the agent they run, and  *)
(* a human who presses buttons on the board or on the command line.        *)
(*                                                                         *)
(* Every read and every write of card.json and run.json is a step of its   *)
(* own, because each is made by another process than the next one.  A      *)
(* ledger update writes only the fields its transition changed (`apply`),  *)
(* over whatever the file holds by then.                                   *)
(*                                                                         *)
(* A board process is one event loop: a human who acts there acts between  *)
(* two awaits of the driver that lives in the same process.  A human on    *)
(* the command line is a process like any other.                           *)
(***************************************************************************)
EXTENDS Chain

CONSTANTS
  Drivers,        \* processes that may drive the card: the board, `leg card run`
  Board,          \* the one of them that is the board
  HumanAt,        \* "board" or "cli": where the human acts
  AgentVerdicts,  \* what an agent that ends by itself may be classified as
  Faults,         \* the kinds of fault that may happen
  FaultBudget,    \* how many faults a behaviour may have
  HumanBudget,    \* how many buttons a human presses
  MaxRuns         \* bound on the runs of a card

FaultKinds == {"driver", "host", "supervisor", "refuse", "unkillable"}

ASSUME DriversAssumption == Board \in Drivers /\ {"none", "dead"} \cap Drivers = {}
ASSUME HumanAtAssumption == HumanAt \in {"board", "cli"}
\* A human action on the board is atomic for the driver in that process only.
ASSUME BoardAssumption == HumanAt = "board" => (Drivers = {Board} \/ HumanBudget = 0)
ASSUME VerdictsAssumption == AgentVerdicts \subseteq Outcomes \ {"killed", "stalled"}
ASSUME FaultsAssumption == Faults \subseteq FaultKinds
ASSUME BoundsAssumption == {FaultBudget, HumanBudget, MaxRuns} \subseteq Nat

VARIABLES
  card,     \* card.json
  runs,     \* runs/1/run.json, runs/2/run.json, ... and the processes of each
  lock,     \* driver.lock: "none", the driver it names, or "dead" (a dead pid)
  driver,   \* the local state of every driver
  human,    \* the local state of a human action
  presses,  \* buttons pressed so far
  faults,   \* faults so far
  wish,     \* history: the last human action that took effect
  applied   \* history: <<run, place of the card>> of every applied verdict

vars == <<card, runs, lock, driver, human, presses, faults, wish, applied>>

ActiveRun == {"launching", "running"}
FinalRun == {"exited", "killed", "failed", "orphaned"}
Run ==
  [status : ActiveRun \union FinalRun,
   outcome : Outcomes \union {"none"},
   supPid : BOOLEAN,       \* supervisor_pid is recorded
   agentPid : BOOLEAN,     \* agent_pid is recorded
   killRequested : BOOLEAN,
   settled : BOOLEAN,      \* settled_at
   driver : Drivers \union {"dead"},
   launcher : {"spawning", "recording", "done", "dead"},   \* the launch process
   sup : {"none", "starting", "watching", "dead"},         \* the supervisor process
   agent : {"none", "alive", "dead", "failed"},            \* the agent process
   timedOut : BOOLEAN,     \* the supervisor's killedByTimer
   place : Nat \X Nat]     \* history: the station and leg it was launched for

DriverPcs ==
  {"idle", "dead", "top", "start", "started", "bundle", "write", "attach", "prep",
   "launching", "wait", "settle", "fresh", "applied", "testing", "green",
   "landing", "landed"}
HumanActions ==
  {"pause", "take_over", "resume", "kill", "reassign", "handoff_now", "approve", "rerun"}

Place(c) == <<c.station, c.leg>>
NoCard == NewCard(<< >>, {})
Idle == [pc |-> "idle", seen |-> NoCard, next |-> NoCard, cont |-> "idle",
         run |-> 0, verdict |-> "none"]
HumanIdle == [pc |-> "idle", action |-> "none", seen |-> NoCard, next |-> NoCard]

Init ==
  /\ \E p \in Pipelines : card = Enqueue(NewCard(p, {}))
  /\ runs = << >>
  /\ lock = "none"
  /\ driver = [d \in Drivers |-> Idle]
  /\ human = HumanIdle
  /\ presses = 0
  /\ faults = 0
  /\ wish = "none"
  /\ applied = << >>

-----------------------------------------------------------------------------
(* Reading and writing the files.                                          *)

\* `apply`: the fields the transition changed, over the card as it is now.
Patch(now, before, next) ==
  [f \in DOMAIN now |-> IF next[f] # before[f] THEN next[f] ELSE now[f]]

Latest == Len(runs)
Unsettled == runs # << >> /\ ~ runs[Latest].settled
Orphaned == Unsettled /\ runs[Latest].driver = "dead"
SupervisorRuns(r) == r.sup \in {"starting", "watching"}
SupervisorAlive(r) == r.supPid /\ SupervisorRuns(r)

\* killActiveRun on one run: the agent if its pid is known, else the
\* supervisor with its process group, else only the request.
KillRun(r) ==
  IF r.status \notin ActiveRun THEN r
  ELSE IF r.agentPid THEN [r EXCEPT !.killRequested = TRUE, !.agent = "dead"]
  ELSE IF SupervisorAlive(r)
  THEN [r EXCEPT !.killRequested = TRUE, !.sup = "dead",
                 !.agent = IF @ = "alive" THEN "dead" ELSE @]
  ELSE [r EXCEPT !.killRequested = TRUE]
KillActiveRun == [n \in DOMAIN runs |-> KillRun(runs[n])]

-----------------------------------------------------------------------------
(* The driver.  d is at pc; Goto moves it on, Release ends runCard.        *)

At(d, pc) == driver[d].pc = pc
Goto(d, pc) == driver' = [driver EXCEPT ![d].pc = pc]
Release(d) ==
  /\ driver' = [driver EXCEPT ![d] = Idle]
  /\ lock' = IF lock = d THEN "none" ELSE lock

\* The half of `step` that writes what the half that read computed.
WillWrite(d, c, next, cont) ==
  driver' = [driver EXCEPT ![d].pc = "write", ![d].seen = c, ![d].next = next,
                           ![d].cont = cont]

\* A transition that throws ends runCard; the claim is released.
Step(d, can, next, cont) ==
  IF can
  THEN WillWrite(d, card, next, cont) /\ UNCHANGED lock
  ELSE Release(d)

Write(d) ==
  /\ At(d, "write")
  /\ card' = Patch(card, driver[d].seen, driver[d].next)
  /\ driver' = [driver EXCEPT ![d] = [Idle EXCEPT !.pc = driver[d].cont]]
  /\ applied' = IF driver[d].cont = "applied" /\ driver[d].run # 0
                THEN Append(applied, <<driver[d].run, Place(card)>>) ELSE applied
  /\ UNCHANGED <<runs, lock, human, presses, faults, wish>>

\* (mutant) a card that crashed in mid-handoff is not picked up
Runnable_NotHandingOff ==
  \/ card.status = "queued"
  \/ card.status = "running" /\ (Kind(card) # "agent" \/ ~ Unsettled \/ Orphaned)
\* A scheduler tick finds the card to start or to re-attach to (a person may
\* run it, too), and claimDriver takes the lock unless a live process has it.
Runnable ==
  \/ card.status = "queued"
  \/ card.status = "handing_off"
  \/ card.status = "running" /\ (Kind(card) # "agent" \/ ~ Unsettled \/ Orphaned)
\* (mutant) the card is claimed whoever drives it
Claim_Unlocked(d) ==
  /\ At(d, "idle")
  /\ Runnable
  /\ lock' = d
  /\ Goto(d, "top")
  /\ UNCHANGED <<card, runs, human, presses, faults, wish, applied>>
Claim(d) ==
  /\ At(d, "idle")
  /\ Runnable
  /\ lock \in {"none", "dead"}
  /\ lock' = d
  /\ Goto(d, "top")
  /\ UNCHANGED <<card, runs, human, presses, faults, wish, applied>>

\* Where driveCard goes with a running card.
Handler(c) ==
  CASE Kind(c) = "agent" -> "attach"
    [] Kind(c) = "test" -> "testing"
    [] Kind(c) = "land" -> "landing"
    [] OTHER -> "idle"
Enter(d) ==
  IF card.status = "running" /\ Handler(card) # "idle"
  THEN /\ driver' = [driver EXCEPT ![d].pc = Handler(card), ![d].seen = card]
       /\ UNCHANGED lock
  ELSE Release(d)

Top(d) ==
  /\ At(d, "top")
  /\ CASE card.status = "handing_off" -> Goto(d, "bundle") /\ UNCHANGED lock
       [] card.status = "queued" -> Goto(d, "start") /\ UNCHANGED lock
       [] OTHER -> Enter(d)
  /\ UNCHANGED <<card, runs, human, presses, faults, wish, applied>>

StartRead(d) ==
  /\ At(d, "start")
  /\ Step(d, CanStart(card), Start(card), "started")
  /\ UNCHANGED <<card, runs, human, presses, faults, wish, applied>>

Started(d) ==
  /\ At(d, "started")
  /\ Enter(d)
  /\ UNCHANGED <<card, runs, human, presses, faults, wish, applied>>

BundleRead(d) ==
  /\ At(d, "bundle")
  /\ Step(d, CanBundleWritten(card), BundleWritten(card), "top")
  /\ UNCHANGED <<card, runs, human, presses, faults, wish, applied>>

\* (mutant) a run a dead driver left behind is not attached to
Attach_AlwaysLaunches(d) ==
  /\ At(d, "attach")
  /\ Goto(d, "prep")
  /\ UNCHANGED <<card, runs, lock, human, presses, faults, wish, applied>>
\* The agent station: attach to the run nobody settled, or start a leg.
Attach(d) ==
  /\ At(d, "attach")
  /\ IF ~ Unsettled
     THEN Goto(d, "prep") /\ UNCHANGED <<runs, lock>>
     ELSE IF runs[Latest].driver \notin {d, "dead"}
     THEN Release(d) /\ UNCHANGED runs
     ELSE /\ runs' = [runs EXCEPT ![Latest].driver = d]
          /\ driver' = [driver EXCEPT ![d].pc = "wait", ![d].run = Latest]
          /\ UNCHANGED lock
  /\ UNCHANGED <<card, human, presses, faults, wish, applied>>

\* `runner launch`: refuse beside a live run, else write off the dead ones and
\* write the new run before anything is spawned.
NewRun(d) ==
  [status |-> "launching", outcome |-> "none", supPid |-> FALSE, agentPid |-> FALSE,
   killRequested |-> FALSE, settled |-> FALSE, driver |-> d, launcher |-> "spawning",
   sup |-> "none", agent |-> "none", timedOut |-> FALSE, place |-> Place(driver[d].seen)]
Launch(d) ==
  /\ At(d, "prep")
  /\ IF \E n \in DOMAIN runs : runs[n].status \in ActiveRun /\ SupervisorAlive(runs[n])
     THEN /\ driver' = [driver EXCEPT ![d].pc = "settle", ![d].run = 0,
                                      ![d].verdict = "launch_failed"]
          /\ UNCHANGED runs
     ELSE /\ Len(runs) < MaxRuns
          /\ runs' = Append([n \in DOMAIN runs |->
                               IF runs[n].status \in ActiveRun
                               THEN [runs[n] EXCEPT !.status = "orphaned"]
                               ELSE runs[n]],
                            NewRun(d))
          /\ driver' = [driver EXCEPT ![d].pc = "launching", ![d].run = Len(runs) + 1]
  /\ UNCHANGED <<card, lock, human, presses, faults, wish, applied>>

\* The launch returned: the resume flag the leg was started with is cleared.
Launched(d) ==
  /\ At(d, "launching")
  /\ runs[driver[d].run].launcher = "done"
  /\ card' = IF driver[d].seen.resume THEN [card EXCEPT !.resume = FALSE] ELSE card
  /\ Goto(d, "wait")
  /\ UNCHANGED <<runs, lock, human, presses, faults, wish, applied>>

\* waitForRun: the run is final; or a human moved the card and no supervisor is
\* left to wait for; or the supervisor has been dead for five seconds.
WaitEnds(d, verdict) ==
  driver' = [driver EXCEPT ![d].pc = "settle", ![d].verdict = verdict]
\* (mutant) a human's action does not end the wait
WaitForRun_NoInterrupt(d) ==
  /\ At(d, "wait")
  /\ LET r == runs[driver[d].run]
     IN  r.status \in FinalRun /\ WaitEnds(d, r.outcome)
  /\ UNCHANGED <<card, runs, lock, human, presses, faults, wish, applied>>
WaitForRun(d) ==
  /\ At(d, "wait")
  /\ LET n == driver[d].run
         r == runs[n]
     IN  \/ /\ r.status \in FinalRun
            /\ WaitEnds(d, IF r.status = "orphaned" /\ r.outcome = "none"
                           THEN "failed" ELSE r.outcome)
            /\ UNCHANGED runs
         \/ /\ r.status \in ActiveRun /\ ~ SupervisorAlive(r)
            /\ card.status # "running"
            /\ WaitEnds(d, "killed")
            /\ UNCHANGED runs
         \/ /\ r.status \in ActiveRun /\ r.supPid /\ r.sup = "dead"
            /\ card.status = "running"
            /\ runs' = [runs EXCEPT ![n].status = "orphaned"]
            /\ WaitEnds(d, "failed")
  /\ UNCHANGED <<card, lock, human, presses, faults, wish, applied>>

\* (mutant) settled_at is never written
SettleRun_Never(d) ==
  /\ At(d, "settle")
  /\ Goto(d, "fresh")
  /\ UNCHANGED <<card, runs, lock, human, presses, faults, wish, applied>>
SettleRun(d) ==
  /\ At(d, "settle")
  /\ runs' = IF driver[d].run = 0 THEN runs
             ELSE [runs EXCEPT ![driver[d].run].settled = TRUE]
  /\ Goto(d, "fresh")
  /\ UNCHANGED <<card, lock, human, presses, faults, wish, applied>>

\* The card may have been moved by a human while the leg ran.
Fresh(d) ==
  /\ At(d, "fresh")
  /\ LET verdict == driver[d].verdict
     IN  CASE card.status = "running" ->
                Step(d, CanLegResult(card) /\ verdict # "none",
                     LegResult(card, verdict), "applied")
           [] card.status = "handing_off" -> Goto(d, "bundle") /\ UNCHANGED lock
           [] card.status = "queued" -> Goto(d, "top") /\ UNCHANGED lock
           [] OTHER -> Release(d)
  /\ UNCHANGED <<card, runs, human, presses, faults, wish, applied>>

Applied(d) ==
  /\ At(d, "applied")
  /\ Goto(d, IF card.status = "handing_off" THEN "bundle" ELSE "top")
  /\ UNCHANGED <<card, runs, lock, human, presses, faults, wish, applied>>

\* (mutant) the result is applied to the card as it was before the suite ran
TestDone_Stale(d, isGreen) ==
  /\ At(d, "testing")
  /\ WillWrite(d, driver[d].seen, TestResult(driver[d].seen, isGreen), "top")
  /\ UNCHANGED <<card, runs, lock, human, presses, faults, wish, applied>>
\* The test station, once the suite ended: a card a human moved is left alone;
\* a red one is bounced with the card as it was read before the bundle was
\* written, a green one goes through `step`.
TestDone(d, isGreen) ==
  /\ At(d, "testing")
  /\ IF card.status # "running"
     THEN IF card.status = "queued" THEN Goto(d, "top") /\ UNCHANGED lock ELSE Release(d)
     ELSE IF isGreen THEN Goto(d, "green") /\ UNCHANGED lock
     ELSE Step(d, CanTestResult(card), TestResult(card, FALSE), "top")
  /\ UNCHANGED <<card, runs, human, presses, faults, wish, applied>>
Green(d) ==
  /\ At(d, "green")
  /\ Step(d, CanTestResult(card), TestResult(card, TRUE), "top")
  /\ UNCHANGED <<card, runs, human, presses, faults, wish, applied>>

LandDone(d, verdict) ==
  /\ At(d, "landing")
  /\ IF card.status # "running"
     THEN Release(d)
     ELSE /\ driver' = [driver EXCEPT ![d].pc = "landed", ![d].verdict = verdict]
          /\ UNCHANGED lock
  /\ UNCHANGED <<card, runs, human, presses, faults, wish, applied>>
Landed(d) ==
  /\ At(d, "landed")
  /\ Step(d, CanLandResult(card), LandResult(card, driver[d].verdict), "top")
  /\ UNCHANGED <<card, runs, human, presses, faults, wish, applied>>

DriverStep(d) ==
  \/ Claim(d) \/ Top(d) \/ StartRead(d) \/ Started(d) \/ BundleRead(d) \/ Write(d)
  \/ Attach(d) \/ Launch(d) \/ Launched(d) \/ WaitForRun(d) \/ SettleRun(d)
  \/ Fresh(d) \/ Applied(d) \/ Green(d) \/ Landed(d)
  \/ \E g \in BOOLEAN : TestDone(d, g)
  \/ \E v \in LandVerdicts : LandDone(d, v)

-----------------------------------------------------------------------------
(* The launch process and the supervisor of run n.                         *)

Spawn(n) ==
  /\ runs[n].launcher = "spawning"
  /\ runs' = [runs EXCEPT ![n].launcher = "recording", ![n].sup = "starting"]
RecordSupervisor(n) ==
  /\ runs[n].launcher = "recording"
  /\ runs' = [runs EXCEPT ![n].launcher = "done", ![n].supPid = TRUE]

SpawnAgent(n, result) ==
  /\ runs[n].sup = "starting" /\ runs[n].agent = "none"
  /\ runs' = [runs EXCEPT ![n].agent = result]
RecordAgent(n) ==
  /\ runs[n].sup = "starting" /\ runs[n].agent # "none"
  /\ runs' = [runs EXCEPT ![n].status = "running", ![n].sup = "watching",
                          ![n].agentPid = runs[n].agent # "failed"]

AgentExits(n) ==
  /\ runs[n].agent = "alive"
  /\ runs' = [runs EXCEPT ![n].agent = "dead"]

\* The kill timer of a running leg.
TimerFires(n) ==
  /\ runs[n].sup = "watching" /\ runs[n].agent = "alive"
  /\ runs' = [runs EXCEPT ![n].timedOut = TRUE, ![n].agent = "dead"]

\* The supervisor classifies the exit (src/limits.mjs `classify`): a spawn error
\* first, an auth signal next, then a human's kill, then the kill timer.
Classified(r, natural) ==
  IF r.agent = "failed" THEN "launch_failed"
  ELSE IF natural = "auth_failed" THEN "auth_failed"
  ELSE IF r.killRequested THEN "killed"
  ELSE IF r.timedOut THEN "stalled"
  ELSE natural
FinalStatus(r, outcome) ==
  IF r.agent = "failed" THEN "failed"
  ELSE IF r.timedOut \/ outcome = "killed" THEN "killed"
  ELSE "exited"
SupervisorEnds(n, natural) ==
  LET r == runs[n]
      outcome == Classified(r, natural)
  IN  /\ r.sup = "watching" /\ r.agent \in {"dead", "failed"}
      /\ runs' = [runs EXCEPT ![n].status = FinalStatus(r, outcome),
                              ![n].outcome = outcome, ![n].sup = "dead"]

RunStep ==
  /\ \E n \in DOMAIN runs :
       \/ Spawn(n) \/ RecordSupervisor(n) \/ RecordAgent(n)
       \/ SpawnAgent(n, "alive") \/ SpawnAgent(n, "failed")
       \/ AgentExits(n) \/ TimerFires(n)
       \/ \E o \in AgentVerdicts : SupervisorEnds(n, o)
  /\ UNCHANGED <<card, lock, driver, human, presses, faults, wish, applied>>

-----------------------------------------------------------------------------
(* The human.                                                              *)

CanPress(a, c) ==
  CASE a = "pause" -> CanPause(c)
    [] a = "take_over" -> CanTakeOver(c) /\ Kind(c) = "agent"
    [] a = "resume" -> CanResume(c)
    [] a = "kill" -> CanKill(c)
    [] a = "reassign" -> CanReassign(c)
    [] a = "handoff_now" -> CanHandoffNow(c)
    [] a = "approve" -> CanApprove(c)
    [] a = "rerun" -> CanRerun(c)
Pressed(a, c) ==
  CASE a = "pause" -> Pause(c)
    [] a = "take_over" -> TakeOver(c)
    [] a = "resume" -> Resume(c)
    [] a = "kill" -> Kill(c)
    [] a = "reassign" -> Reassign(c)
    [] a = "handoff_now" -> HandoffNow(c)
    [] a = "approve" -> Approve(c)
    [] a = "rerun" -> Rerun(c)
StopsTheRun(a, before) ==
  a \in {"kill", "pause", "reassign", "handoff_now", "take_over"} /\ before.status = "running"

\* humanAction from the command line: read, write, then kill the run.
HumanRead(a) ==
  /\ HumanAt = "cli"
  /\ human.pc = "idle" /\ presses < HumanBudget
  /\ CanPress(a, card)
  /\ human' = [pc |-> "write", action |-> a, seen |-> card, next |-> Pressed(a, card)]
  /\ presses' = presses + 1
  /\ UNCHANGED <<card, runs, lock, driver, faults, wish, applied>>
HumanWrite ==
  /\ human.pc = "write"
  /\ card' = Patch(card, human.seen, human.next)
  /\ wish' = human.action
  /\ human' = IF StopsTheRun(human.action, human.seen)
              THEN [human EXCEPT !.pc = "kill"] ELSE HumanIdle
  /\ UNCHANGED <<runs, lock, driver, presses, faults, applied>>
HumanKillsRun ==
  /\ human.pc = "kill"
  /\ runs' = KillActiveRun
  /\ human' = HumanIdle
  /\ UNCHANGED <<card, lock, driver, presses, faults, wish, applied>>

\* humanAction on the board: one turn of the event loop the driver lives in,
\* which comes only where that driver awaits something.
\* (mutant) one more await, inside `step`
BoardAwaits_InStep ==
  driver[Board].pc \in {"idle", "prep", "wait", "testing", "landing", "write"}
BoardAwaits == driver[Board].pc \in {"idle", "prep", "wait", "testing", "landing"}
HumanOnBoard(a) ==
  /\ HumanAt = "board" /\ BoardAwaits
  /\ presses < HumanBudget
  /\ CanPress(a, card)
  /\ card' = Pressed(a, card)
  /\ runs' = IF StopsTheRun(a, card) THEN KillActiveRun ELSE runs
  /\ wish' = a
  /\ presses' = presses + 1
  /\ UNCHANGED <<lock, driver, human, faults, applied>>

Human ==
  \/ \E a \in HumanActions : HumanRead(a) \/ HumanOnBoard(a)
  \/ HumanWrite \/ HumanKillsRun

-----------------------------------------------------------------------------
(* Faults.                                                                 *)

Fault(kind) == kind \in Faults /\ faults < FaultBudget /\ faults' = faults + 1

\* A driver process dies: what it wrote names a dead pid from then on.
Disowned(r, D) == IF r.driver \in D THEN [r EXCEPT !.driver = "dead"] ELSE r
DriverDies(d) ==
  /\ Fault("driver")
  /\ ~ At(d, "dead")
  /\ driver' = [driver EXCEPT ![d] = [Idle EXCEPT !.pc = "dead"]]
  /\ lock' = IF lock = d THEN "dead" ELSE lock
  /\ runs' = [n \in DOMAIN runs |-> Disowned(runs[n], {d})]
  /\ UNCHANGED <<card, human, presses, wish, applied>>

\* The machine goes down: every process on it dies.
HostDies ==
  /\ Fault("host")
  /\ driver' = [d \in Drivers |-> [Idle EXCEPT !.pc = "dead"]]
  /\ lock' = IF lock = "none" THEN "none" ELSE "dead"
  /\ runs' = [n \in DOMAIN runs |->
                [Disowned(runs[n], Drivers) EXCEPT
                   !.launcher = IF @ = "done" THEN "done" ELSE "dead",
                   !.sup = IF @ = "none" THEN "none" ELSE "dead",
                   !.agent = IF @ = "alive" THEN "dead" ELSE @]]
  /\ human' = HumanIdle
  /\ UNCHANGED <<card, presses, wish, applied>>

\* Somebody starts Leg again.
Restart(d) ==
  /\ At(d, "dead")
  /\ driver' = [driver EXCEPT ![d] = Idle]
  /\ UNCHANGED <<card, runs, lock, human, presses, faults, wish, applied>>

SupervisorDies(n) ==
  /\ Fault("supervisor")
  /\ SupervisorRuns(runs[n])
  /\ runs' = [runs EXCEPT ![n].sup = "dead"]
  /\ UNCHANGED <<card, lock, driver, human, presses, wish, applied>>

\* The adapter forbids the mode the leg asks for: nothing is spawned.
SupervisorRefuses(n) ==
  /\ Fault("refuse")
  /\ runs[n].sup = "starting" /\ runs[n].agent = "none"
  /\ runs' = [runs EXCEPT ![n].status = "failed", ![n].sup = "dead"]
  /\ UNCHANGED <<card, lock, driver, human, presses, wish, applied>>

\* The agent survives both kills of the kill timer.
AgentUnkillable(n) ==
  /\ Fault("unkillable")
  /\ runs[n].sup = "watching" /\ runs[n].agent = "alive"
  /\ runs' = [runs EXCEPT ![n].status = "killed", ![n].sup = "dead"]
  /\ UNCHANGED <<card, lock, driver, human, presses, wish, applied>>

FaultStep ==
  \/ \E d \in Drivers : DriverDies(d)
  \/ HostDies
  \/ \E n \in DOMAIN runs : SupervisorDies(n) \/ SupervisorRefuses(n) \/ AgentUnkillable(n)

Next ==
  \/ \E d \in Drivers : DriverStep(d) \/ Restart(d)
  \/ RunStep
  \/ Human
  \/ FaultStep

\* Processes run; the board's scheduler ticks and is started again when it
\* died; an agent ends, by itself or by the kill timer; a human who began an
\* action finishes it, but nothing makes one begin.
Fairness ==
  /\ WF_vars(DriverStep(Board) \/ Restart(Board))
  /\ \A d \in Drivers : WF_vars(DriverStep(d) /\ ~ At(d, "idle"))
  /\ WF_vars(RunStep)
  /\ WF_vars(HumanWrite \/ HumanKillsRun)

Spec == Init /\ [][Next]_vars
FairSpec == Spec /\ Fairness

-----------------------------------------------------------------------------
(* Properties.                                                             *)

SeenCards == Cards \union {NoCard}
DriverState ==
  [pc : DriverPcs, seen : SeenCards, next : SeenCards, cont : DriverPcs, run : 0 .. MaxRuns,
   verdict : Outcomes \union LandVerdicts \union {"none"}]
TypeOK ==
  /\ card \in Cards
  /\ runs \in Seq(Run) /\ Len(runs) <= MaxRuns
  /\ lock \in Drivers \union {"none", "dead"}
  /\ driver \in [Drivers -> DriverState]
  /\ human \in [pc : {"idle", "write", "kill"}, action : HumanActions \union {"none"},
                seen : SeenCards, next : SeenCards]
  /\ presses \in 0 .. HumanBudget
  /\ faults \in 0 .. FaultBudget
  /\ wish \in HumanActions \union {"none"}
  /\ applied \in Seq((1 .. MaxRuns) \X (Nat \X Nat))

\* A verdict moves the card only while the card stands on the leg its run was
\* launched for: never a later leg, station or round (stations/agent.mjs).
VerdictFitsLeg == \A i \in DOMAIN applied : runs[applied[i][1]].place = applied[i][2]

\* No verdict moves the card twice, whichever drivers came and went (settled_at).
AppliedOnce == \A i, j \in DOMAIN applied : i # j => applied[i][1] # applied[j][1]

\* Before another leg is launched the verdict of the last one has moved the
\* card, unless a human moved it (the scheduler re-attaches "so a finished run's
\* verdict is applied").
VerdictsAreApplied ==
  \A n \in DOMAIN runs :
    (n < Latest /\ runs[n].outcome # "none" /\ wish = "none")
      => \E i \in DOMAIN applied : applied[i][1] = n

\* A run that is over has a verdict to move the card by (runner.mjs supervise).
FinalHasVerdict ==
  \A n \in DOMAIN runs :
    runs[n].status \in {"exited", "killed", "failed"} => runs[n].outcome # "none"

\* No two agents work in the card's worktree at once, whichever drivers come and go and whatever
\* dies (orchestrator.mjs reattach, waitForRun, runner.mjs launch), but for one whose supervisor is
\* gone, which the driver takes for dead, and what a human's button leaves (StoppedMeansQuiet).
LiveAgents == {n \in DOMAIN runs : runs[n].agent = "alive"}
OneAgent ==
  presses = 0 => \A m, n \in LiveAgents : m = n \/ "dead" \in {runs[m].sup, runs[n].sup}

\* Nothing is done twice: no two agents, no verdict applied again.
NothingTwice == OneAgent /\ AppliedOnce

\* Once a human stopped the card it stays stopped: no write of a driver that
\* looked at the card before undoes the decision (test.mjs, ledger.mjs update).
HumanDecisionStands ==
  /\ wish = "kill" => card.status = "killed"
  /\ wish \in {"pause", "take_over"} => card.status = "paused"

\* A card is killed by a human's Kill and by nothing else.
KilledMeansKill == card.status = "killed" => wish = "kill"

\* A verdict is applied to what it was earned on, and a human's decision is never laid to an agent.
VerdictsAreJust == VerdictFitsLeg /\ KilledMeansKill

\* Under a card a human stopped no agent works on, except one that was told to
\* die and whose death is in progress (orchestrator.mjs killActiveRun).
StoppedMeansQuiet ==
  (card.status \in {"killed", "paused"} /\ human.pc = "idle")
    => \A n \in LiveAgents : runs[n].killRequested

\* Whatever the processes do, card.json changes only by legal transitions of the
\* chain machine from the card it holds: a read, a transition and a write that
\* are three steps of a driver act as one (orchestrator.mjs step, apply).  The
\* flag of a resumed leg is cleared on the side.
CardFollowsChain ==
  [][Transition(card, card') \/ card' = [card EXCEPT !.resume = FALSE]]_card

\* The inductive invariant of a card whose human is on the board.  Who works
\* holds the lock; what is about to be written was made, by a legal transition,
\* of the card as it still is.
DriverInv(d) ==
  LET me == driver[d]
  IN  /\ me.pc \notin {"idle", "dead"} => lock = d
      /\ me.pc = "write" =>
           /\ me.seen = card
           /\ card.status \in {"queued", "running", "handing_off"}
           /\ Transition(card, me.next)
           /\ me.cont \in {"started", "top", "applied"}
      /\ me.pc \in {"launching", "wait"} => me.run \in DOMAIN runs
      /\ me.pc \in {"settle", "fresh"} => me.verdict \in Outcomes \union {"none"}
      /\ me.pc = "landed" => me.verdict \in LandVerdicts
IInv ==
  /\ TypeOK
  /\ WellFormed(card)
  /\ human.pc = "idle"
  /\ \A d \in Drivers : DriverInv(d)
  /\ HumanDecisionStands

\* The invariant behind AppliedOnce: a verdict that moved the card is of a settled run, and the
\* verdict in a driver's hands has not moved it.
InHand(d) ==
  \/ driver[d].pc \in {"launching", "wait"}
  \/ driver[d].pc = "settle" /\ driver[d].run # 0
Decides(d) ==
  \/ driver[d].pc = "fresh"
  \/ driver[d].pc = "write" /\ driver[d].cont = "applied"
Settled(n) == n \in DOMAIN runs /\ runs[n].settled
HandsInv(d) ==
  /\ InHand(d) => Unsettled /\ driver[d].run = Latest
  /\ Decides(d) /\ driver[d].run # 0 =>
       Settled(driver[d].run) /\ \A i \in DOMAIN applied : applied[i][1] # driver[d].run
AppliedInv ==
  /\ \A i \in DOMAIN applied : Settled(applied[i][1])
  /\ \A d \in Drivers : HandsInv(d)
  /\ AppliedOnce

\* Nobody's press meets a dead driver: what a human does to a card whose driver died is
\* judged by the verdict of a run that was launched before (README, Findings).
Orderly == presses = 0 \/ Faults \cap {"driver", "host"} = {}

\* The invariant behind VerdictsAreJust.  The run nobody settled is the last one, in the hands of
\* a driver or waiting for one; while the card runs it was launched for the place the card is at,
\* and no human asked for its end.  So was the run whose verdict is in a driver's hands.
InReach(d) == InHand(d) \/ driver[d].pc \in {"idle", "dead", "top", "attach"}
RunsAnAgent == card.status = "running" /\ Kind(card) = "agent"
JustInv(d) ==
  LET me == driver[d]
  IN  /\ ~ InReach(d) => ~ Unsettled
      /\ me.pc \in {"attach", "prep"} /\ card.status = "running" => Place(me.seen) = Place(card)
      /\ me.pc \in {"attach", "prep"} /\ presses = 0 => RunsAnAgent
      /\ (me.pc = "settle" \/ Decides(d)) /\ card.status = "running" =>
             /\ me.pc # "write" => me.verdict # "killed"
             /\ me.run # 0 => me.run \in DOMAIN runs /\ runs[me.run].place = Place(card)
      /\ me.pc = "write" => /\ me.next.status # "killed"
                            /\ me.cont = "applied" => card.status = "running"
PlaceInv ==
  /\ Unsettled /\ presses = 0 => RunsAnAgent
  /\ Unsettled /\ Faults \cap {"driver", "host"} = {} => \E d \in Drivers : InHand(d)
  /\ Unsettled /\ card.status = "running" =>
       /\ runs[Latest].place = Place(card)
       /\ ~ runs[Latest].killRequested
       /\ runs[Latest].outcome # "killed"
  /\ \A d \in Drivers : JustInv(d)

\* The invariant behind OneAgent, while no human pressed a button: a run that is over has no
\* supervisor, a run that is settled is over, and so is every run but the last.
QuietRun(n) ==
  LET r == runs[n]
  IN  /\ r.launcher = "spawning" => r.sup = "none"
      /\ r.sup = "none" => r.agent = "none"
      /\ r.supPid => r.launcher = "done"
      /\ r.status \in FinalRun => r.sup = "dead"
      /\ r.settled => r.status \in FinalRun
      /\ n < Latest => r.settled
QuietInv ==
  /\ \A n \in DOMAIN runs : QuietRun(n)
  /\ \A d \in Drivers :
       driver[d].pc = "settle" /\ driver[d].run # 0 => runs[driver[d].run].status \in FinalRun

VerdictInv ==
  /\ AppliedInv
  /\ Orderly => PlaceInv /\ VerdictsAreJust
  /\ presses = 0 => QuietInv

\* Every card comes to rest, whatever dies and whoever presses; unless the machine goes down
\* between a launch and the record of its supervisor, which a driver then waits for
\* (orchestrator.mjs waitForRun, runner.mjs launch).
LostLaunch == \E n \in DOMAIN runs : runs[n].status \in ActiveRun /\ runs[n].launcher = "dead"
Rests == <>[](card.status \notin {"queued", "running", "handing_off"} \/ LostLaunch)
=============================================================================
