# LegCli: a TLA+ verification of the card, its processes and what stands around them

LegCli runs coding agents on *cards* and in *terminals*. A card is a record on
disk (`card.json`) with a pipeline of *stations* (agent, human, test, land); an
agent station has a *chain* of legs, one agent after another, that hand work
over. A terminal is one interactive agent that Leg restarts as another one when
it stops at its usage limit. Many processes write the same few files: the board
(an HTTP server with the scheduler in it), `leg card run` on a command line, the
launcher and the supervisor of every agent run, one runner per terminal, the
hooks of the agents, other `leg` commands, and humans pressing buttons. This
directory models that machinery, checks it with TLC and proves its core, and
some of what stands around it, with TLAPS.

Paths below are relative to the repository; the implementation is under
`src/`, the command line is `bin/leg.mjs`.

## 1. Inventory

| Component | Code | State it keeps | Operations | Hard part |
|---|---|---|---|---|
| Card state machine | `src/chain.mjs`, `src/pipeline.mjs` | none (pure): `transition(card, event)` | 14 actions: enqueue, start, leg_result, bundle_written, test_result, land_result and eight buttons | long sequences of legal calls |
| Ledger and store | `src/ledger.mjs`, `src/store.mjs` | `cards/<id>/card.json`, `events.jsonl` | create, update (locked read-modify-write), append | readers act on what they read earlier |
| Orchestrator | `src/orchestrator.mjs`, `src/stations/*.mjs` | `driver.lock`, the local state of one `runCard` | claim, drive, run a leg, wait, settle, apply, human actions, kill | interleavings, crashes, stale reads |
| Runner and supervisor | `src/runner.mjs`, `src/limits.mjs` | `runs/<n>/run.json`, two detached processes | launch, supervise, time out, classify, stop | process death between two writes |
| Scheduler and leases | `src/scheduler.mjs`, `src/leases.mjs` | pidfile, in-flight map | tick: pick, block, start, re-attach | caps and conflicts read from files |
| File locks | `src/fsx.mjs` | `*.lock` | `withFileLock`, `writeJsonAtomic` | stealing, the unlocked fallback |
| Merge queue | `src/mergequeue.mjs` | queue files per repository | enqueue, turn, rebase, test, fast-forward | stale turns, trunk moving |
| Landing of terminals | `src/land.mjs` | a land lock, git refs, a queue | commit, rebase, test, update-ref, fixes | one step of several failing |
| Attach loop | `src/attach.mjs`, `src/wait.mjs`, `src/sessions.mjs` | session record, requests | start a leg, watch, hand off, wait, end | readings of different ages |
| Usage ladder | `src/usage*.mjs`, `src/preferences.mjs`, `src/accounts.mjs` | a record per login, preferences | observe, poll, choose the next rung, edit the ladder | late writers, two spellings of one wish |
| Hand-off bundles and resume | `src/resume.mjs`, `src/bundle.mjs`, `src/handoff.mjs` | `.leg/RESUME.md`, bundles | write, stamp, judge | a stamp older than what it names |
| Taps | `src/taps/*.mjs` | offsets into other programs' files | bind, read, fold | half lines, replaced files, other terminals |
| Board server and its page | `src/server.mjs`, `src/board/*.js` | open streams, fingerprints; drawers, questions, drafts | push, fetch, answer | messages and answers in any order |
| Launcher | `src/launcher.mjs`, `ensureBoard` of `src/attach.mjs` | `leg.pid`, the address | up, down, status, start if absent | a stale pidfile, two starters |
| Sharing | `src/share.mjs`, `src/auth.mjs` | `share.json`, streams | on, off, add, remove, rotate | a revoked link with an open stream |
| Trust | `src/trust.mjs` | the agents' own config files | record an answer before a launch | two writers, a refusal |
| Licence | `src/license.mjs` | two files | trial, activate, renew | a renewal that races a choice |
| Harness transfer | `src/harness/*.mjs` | ownership record, bundle, files of agents | capture, compare, apply, prune | a hand edit, a death between two files |
| History | `src/history/*.mjs` | the conversation index | refresh, list, continue | a stolen lock, a moving list |
| Worktrees | `src/worktree.mjs` and its callers | checkouts, records | create, adopt, take over, remove | a look, and a removal later |
| Sync | `src/sync/*` | cursors | outgoing notifications | not modelled |

How they interact. The scheduler ticks every second, reads every card, and
starts `runCard` in its own process for the ones it may start or re-attach to.
`runCard` claims the card (`driver.lock`), walks it through its stations, and
for an agent leg spawns `runner launch`, which writes `run.json` and spawns a
detached supervisor, which spawns the agent. The driver then polls `run.json`
and `card.json`. A human changes `card.json` first and kills the run second. A
terminal's runner polls its own record, which hooks, the usage poller and the
board's buttons write. Nothing is signalled in memory between processes:
everything goes through files that are read at one time and acted on at another.

What makes each part correct: a card is done only when every station passed for
the work it holds; a button's effect is not undone by a process that looked
earlier; a verdict moves the card once, on the leg it was earned on; at most
one agent works in a worktree; whatever dies, the card comes to rest; one holder
of a lock or a turn at a time; trunk advances only to tested commits and loses
none; what a terminal's card shows is true of the agent that runs; a leg starts
only where the ladder allows; a page catches up with what it shows; a board that
listens can be found and stopped; a no the user gave stays a no; a link taken
back ends; a hand edit is not overwritten; no work is removed that is nowhere
else.

`PROJECT.json` lists every component with its status, and the hazards at the
lines where they bite.

## 2. The modules

    Chain  <--- Card          <--- MCCard             (TLC)
      ^          ^------------ CardProofs             (TLAPS)
      |--- ChainProofs <------ CardProofs, OrchestratorProofs
      |--- Orchestrator <----- MCOrchestrator         (TLC)
                 ^------------ OrchestratorProofs     (TLAPS)

    MergeQueue <-------------- MCMergeQueue, MergeQueueProofs
    Scheduler  <-------------- MCScheduler, SchedulerProofs
    Subsequences <--- Settings, HistoryCell
    Settings, UsageRecord <--- Ladder <--- MCLadder
    Stream <--- Page <-------- MCPage
    Terminal, TerminalLand <-- MCTerminals <--- TerminalsProofs
    Launcher, Trust, Sharing, Licence <--- MCSurroundings
    Resume, Taps, RuntimeTap, UsagePoll, UsageRecord <--- MCFeeds
    Harness, History, HistoryCell, Worktrees, Checkouts <--- MCRecords
    Claims (refines AtomicCard), Ladder, MCRecords <--- RecordsProofs
    Page, MCSurroundings, MCFeeds <--- SurroundingsProofs

Components that share no variable are explored by one run each by itself: in
`MCTerminals`, `MCSurroundings`, `MCFeeds` and `MCRecords` the variable `part`
says which component a behaviour is about, and the variables of the others rest.

**Chain** is `transition` of `src/chain.mjs`: for each action `X` a guard
`CanX(c)` (the `throw illegal` conditions) and the card `X(c)` it returns, all
on a record with the fields the machine tests. A station is its kind, whether
it is named `build` (`bounceTarget` prefers such a station) and the length of its
chain; the chain entries with `approve: true` are a set of pairs in the card.

**Card** gives one card a life: every driver transition and every button is an
atomic step. History variables say what the properties need: `green` (stations
whose latest pass still stands), `tried` (legs started since the card came to
the station), `granted` (gated legs a human released).

**Orchestrator** takes the atomicity away. Every read and every write of
`card.json` and `run.json` is a step. A driver is a program counter in
`driveCard`/`runLeg`/`waitForRun` and the station handlers:

| pc | code |
|---|---|
| `top`, `start`, `started`, `bundle` | the loop of `driveCard` |
| `write` | the second half of `step`, the locked `update` with `apply`: only the fields the transition changed are written, over what the file holds by then (`Patch`) |
| `attach`, `prep`, `launching`, `wait`, `settle`, `fresh`, `applied` | `stations/agent.mjs`, `runLeg`, `waitForRun` |
| `testing`, `green`, `landing`, `landed` | `stations/test.mjs`, the land station |
| `dead` | the process died; `Restart` starts another |

A run is the fields of its `run.json` and the three processes behind it
(launcher, supervisor, agent), each with steps of its own: `Spawn`,
`RecordSupervisor`, `SpawnAgent`, `RecordAgent`, `AgentExits`, `TimerFires`,
`SupervisorEnds`. A human on the command line is a process (`HumanRead`,
`HumanWrite`, `HumanKillsRun`); a human on the board acts in one turn of the
event loop the driver lives in, so only while that driver awaits
(`BoardAwaits`). Faults are separate actions with a budget: a driver dies, the
machine dies, a supervisor dies, the adapter refuses the launch, an agent
survives its kill.

Abstracted: prompts, contracts, bundles, diffs and snapshots (their text),
times (a timeout may fire whenever its condition holds), `leg` events, and the
choice of the adapter. `landing` stands for whatever the merge queue answers.
The claim file is one atomic lock here.

**Claims** is `claimDriver` (`orchestrator.mjs`) and `withFileLock` (`fsx.mjs`)
file operation by file operation, and **AtomicCard** the atomic update it is
shown to implement until a lock is torn.

**MergeQueue** is `src/mergequeue.mjs` with several processes landing into one
repository. `land` appends to the promise chain of its process (`queue`); the
head of a chain polls for the turn (`claim`, `stale`), reading and writing the
claim file under a lock file (`guard`) that can be stolen or given up on
(`fsx.mjs` `withFileLock`). `landNow` is one action per git command: `Check`,
`Begin` (`trunkBefore`), `Rebase`, `TestDone`, `Merge`, with the one retry. A
commit is the sequence of changes that led to it, so "is an ancestor" is "is a
prefix", and a rebase puts a card's own changes, those trunk lacks, on top of
trunk. What others do is in `World`: commits in the root and in a worktree,
a checkout in the root, the death of a process, a holder that stalls with the
guard, each with a budget. Abstracted: which check bounced and its text, the
contents of commits (a conflict may always come), the clock (a claim is stale
or it is not).

**Scheduler** is the pidfile, the tick (read all, pick, start and re-attach) and
the life of a driver between two awaits, with `leg card run` beside it; a card
born from a terminal waits until that terminal has stopped. Whether two lease
patterns overlap is a constant.

**TerminalLand** is `landSession`: commit, guards, the target lock, the scratch
worktree, tests, fast-forward or `update-ref`, reset; the dry run, the fixes,
the queue, the removal of a terminal; and agents, humans and card landings that
use git in between. **Terminal** is the attach loop: spawn, tick, hand-off,
claim of the next login, all-out wait, with the record's other writers.

**UsageRecord** is what is known of one login, **UsagePoll** who reads its
endpoint and what the cards are told, **Settings** the ladder and the older
order in `preferences.json` and `accounts.json` and everybody who writes them,
**Ladder** the walk over it, hand-off after hand-off.

**Stream** is what a page knows (`createSse`, the routes that answer with a
view, `connectSse`); **Page** is what the reader sees on it: questions under
rows, expanded terminals, details, drafts.

**Launcher** is the board as a process: the pidfile, what listens where, the
child that is started and waited for. **Trust** the answers recorded in the
agents' own files, **Sharing** the roster and the streams, **Licence** the trial
and the key.

**Resume** is the hand-off file of a checkout and its stamp, **Taps** how a
terminal hears what its agent writes, **RuntimeTap** the events of a runtime.

**Harness** is the transfer of one client's working environment to another,
**History** the conversation index, **HistoryCell** the page of it on the board,
**Worktrees** who works in which checkout and who may remove it, **Checkouts**
the list of them the board serves.

An operator whose comment begins with `(mutant)` is not part of a model: it is
the definition after it with one plausible bug, and `PROJECT.json` says which
property finds that bug.

## 3. What the runs check

Twelve runs; all of them pass. No run lasts longer than four minutes.

| Run | What it shows | Instance and bounds | States |
|---|---|---|---|
| `card_invariants` | a done card earned every station with the work it holds; a chain is exhausted only when tried in full; every automatic step decreases a measure; once humans are silent the card comes to rest | six pipelines (agent, human, test and land stations, chains of one to three legs), every set of gated entries, three attempts, unlimited buttons | 52,048 |
| `orch_board` | a verdict moves the card only at the leg its run was launched for; a stopped card stays stopped; `card.json` moves only as the chain machine allows | build with two legs, then test; the board drives; a human on the board presses two buttons; five runs | 2,620,390 |
| `orch_rests` | one agent at a time, no verdict applied twice; with fair scheduling the card comes to rest | one or three stations; the board and a `leg card run`; a human at a command line; two of: driver death, host death, supervisor death, refused launch, unkillable agent | 1,741,962 |
| `merge_queue` | trunk takes only tested commits, no change lands twice, `landed` work is on a branch, every landing is answered | two landings, two processes, any two of: commit in the root, commit in a worktree, checkout, death, stall, another try | 392,788 |
| `claims` | who may drive; the log follows the card; the locked update implements an atomic one until a lock is torn | three processes, one update each, two tries for a lock, one death, one stall | 140,447 |
| `scheduler` | cap, leases and live terminals are respected but for named exceptions; a queued card is started one day | four cards (two share a lease, one lands, one was born in a terminal), cap two, the board and a `leg card run`, one button, one death | 592,605 |
| `terminals` | a card shows, and an agent is stopped by, what is true of that agent; what ended stays ended; what is asked is done. Landings exclude each other and lose nothing; every landing is answered | two logins, two legs, two acts of others; two terminals landing, one change each, three of: commit, checkout, edit, restart, land, dry run, fix; git may refuse at every step of a landing | 286,988 |
| `ladder` | where a walled terminal goes is open, paid for only with leave, and by the ladder it was given | four agents, a second login of one, two models, two saved ladders, one typed one, three events, clock to two | 695,967 |
| `page` | a page comes to show what there is but for named exceptions; nothing that arrives takes a question, a draft or an expansion from its reader | two terminals, one card, three outside changes, one break, two messages on the wire | 494,163 |
| `surroundings` | the board can be found and stopped; a no stays a no; a link taken back ends; a licence is the one that was chosen | three commands and one mishap; two launches in two directories; two people, three commands on the roster, two pages; days up to five with a trial of two | 3,184,861 |
| `feeds` | a terminal hears what its own agent wrote; a hand-off is the last; what cards show of usage was measured | two terminals in each part, two logins, one death | 4,787,805 |
| `records` | an edit of hers has its copy, or was saved in the instant before an overwrite; the index loses what could not be read and nothing else; rows come once; no work is removed that is nowhere else | two legs, two sources, policies `warn` and `strict` (`sync` takes the steps of `strict` and differs only in what the answer says of going on), two events from outside; three transcripts of two conversations, two refreshers, one event outside the terminals; two sessions and a card; three checkouts | 5,117,040 |

`surroundings` explores four components, `feeds` and `records` five each, one at a
time; the counts are their sums.

Properties that are conjunctions of what a reader would ask separately:
`CardIsOwn` (percentages and limit), `LandingsAreSafe` (exclusion and work),
`BoardIsKept` (recorded, and shared), `CarriedIsTrue` (pointer, bundle, taps),
`UsageTells` (the record, the poller, the cards), `HarnessHolds`,
`HistoryHolds`, `TreesHold`, `CellHolds`; each names its parts beside its
definition.

Why the bounds are enough:

- *Pipelines.* The machine looks at the kind of a station, at whether a leg
  follows, at whether a build station lies before it. Two agent stations
  around a test, a human station and a land station make every case of
  `bounceTarget`, `advance` and `TargetLeg`.
- *MaxLandAttempts* 2 or 3: one bounce that is allowed and one that is the last.
  It is 3 in the code.
- *Buttons* 1 or 2: a button, and a second one that meets its half-finished
  effect (Pause, then Resume while the old agent still dies).
- *Faults* 1 or 2: a crash, and a crash of the recovery. `orch_rests` runs under
  the action constraint `OneTrouble`: a button, faults and a second driver are
  not mixed in one behaviour. It restricts those three alone, never a step that
  is assumed fair, so the liveness property is checked as stated.
- *Two of everything that competes* (landings, terminals, launches, pages,
  refreshes), and three where a third can profit from what the second left
  behind (claims, commands around a board).
- *MaxOutside* 2 and 3: the merge queue's retry needs one commit, and the second
  meets the retry, the takeover of its turn, or a crash in it. With three, and
  without the liveness property, 3,020,315 states changed nothing.
- Where a bound is only there to make a run finite (runs, legs, acts, days,
  clocks), it is a guard of the action it bounds and is named in the module.
- The theorems of section 5 know none of these bounds.

### What does not hold

Statements of the repository's own comments, documents and tests that the models
show not to be so. They are no runs; each can be looked at with the
configuration named, or by adding the property to the run's configuration.

- *Kill while a leg is prepared* (`StoppedMeansQuiet` of `Orchestrator`).
  Kill while `runLeg` awaits `renderContract`: no run exists to be killed, the
  launch goes on, an agent works under the killed card.
- *A verdict of a killed run* (`VerdictsAreJust` in `MCOrchBoard.cfg` with
  `Faults = {"driver"}`, `FaultBudget = 1`). A human reassigns, which kills the run;
  the board dies before it has settled it; the board that starts next attaches
  to the unsettled run, whatever leg it is of (`stations/agent.mjs:16`), and
  applies its verdict to the requeued card.
- *A gate skipped* (`GatedLegNeedsApproval` of `Card`). Take over, then Resume,
  takes a card from `needs_approval` to `queued` without an Approve
  (`chain.mjs:207`).
- *Two land at once* (`OneLandAtATime` of `MergeQueue`). Trunk moves, the landing
  rebases and tests again, its claim, good for one test budget, is stale, and
  another process takes the turn. `TrunkAdvances` is why that does less harm than
  it might: the fast-forward, not the turn, keeps an untested commit off trunk.
- *Landed beside trunk* (`LandedIsOnTrunk`). The root leaves trunk between
  `landNow`'s look and its fast-forward: another branch moves.
- *A terminal's base* (`LandedWasTested`, `TrunkFastForwards`, `LandsSerialize` of
  `TerminalLand`; `docs/board-guide.md:428`, `test/guarded-landing.test.mjs:90`).
  The tests run on what is in the worktree, the base may be moved by an
  update-ref over a commit it gained meanwhile, and a dry run and a landing of one
  terminal give back each other's lock. `TrunkKeeps`, `WorkIsKept` and `OneLanding`
  name those windows as the only ones.
- *A Land that is never answered* (`docs/board-guide.md:428`: "the panel's sentence
  shows the result"). `landSession` notes `landing` and marks the terminal in
  flight, then commits outside its `try` (`land.mjs:518-525`); when git refuses
  (an `index.lock` of the agent still at work, a hook; `mergequeue.mjs:32-35`) the
  rejection is only logged (`server.mjs:1412-1413`). The terminal stays `landing`,
  another Land is refused with "already landing" (`land.mjs:420`), and only a
  restart of the board clears it. `TerminalLand.Enter` may end in `stuck`, which
  `LandingIsAnswered` names; every refusal of git after it (`GitFails`) is answered.
- *The first rung that is back* (`FirstBack` of `Ladder`; `docs/concepts.md:225`).
  `usage.mjs:629` keeps only the first rung per login that is out.
- *The order and the ladder* (`docs/configuration.md:138-145`). Which of the two
  spellings wins, and how much of a ladder with one bad rung is kept, is not what
  the document says (`preferences.mjs:168-174`, `209-210`).
- *A terminal that waits* (`ResumedAgentLives`, `SavedOrderIsConsumed` of
  `Terminal`). An agent that waited for its reset itself and goes on can be killed
  for the limit it waited for; an order saved under the claim's lock may be passed
  over.
- *Trust* (`docs/ERRORS.md:430`). A deliberate `DO_NOT_TRUST` is not recognised:
  `trust.mjs:358` knows `DENY`, `DONT_TRUST` and `false`. `AnswersStand` has it as
  a named exception.
- *Harness* (`docs/harness.md`: "a file Leg did not create is never overwritten").
  `rules()` writes `AGENTS.md` and `GEMINI.md` it has no record of, with a backup;
  after a death between a file and the ownership record Leg's own item counts as
  the user's for ever.
- *A backup before every overwrite* (`docs/harness.md:161`, `205`). `makeWriter` reads
  a file, copies it and writes it in three steps (vendored `common.cjs:188-217`); an
  edit saved between the copy and the write has no copy and is gone. `NothingIsLost`
  names it (`edits.raced`) as the only one.
- *`attention`* (`docs/harness.md:138`). A component that fails gives `error`:
  `index.mjs:226` adds it to the list of what needs attention, and `:234` does not
  change the state of a row that is `error`. Besides a hand edit, a deny or ask the
  destination cannot express and a skills directory that is a link give
  `attention`; the document does not name the last.
- *The index keeps what it had* (the comment at `history/index.mjs:131-133`). That
  holds for a provider that throws, in a refresh that is not full. A directory that
  cannot be read scans as an empty one, for its errors are swallowed
  (`history/common.mjs:2-21`), and all entries of the store are dropped; a file that
  does not parse, one being written for instance, is dropped (`providers/claude.mjs:131`,
  `codex.mjs:93`, `grok.mjs:93`); a full refresh (`leg history refresh --full`, or
  `full: true` of the board's route) starts from nothing (`index.mjs:113`), so a store
  that throws loses its entries. A later refresh that can read brings them back.
  `IndexMovesForward` names these (`away`) as the only losses.
- *History*. A refresh that takes longer than the lock's 5 s writes beside the
  thief; two `continue` of one conversation at once both start.
- *Worktrees*. `leg card rm` looks at no status; Resume and `--resume-card` ask
  nothing about a terminal in the checkout (`attach.mjs:422` says nothing else
  runs there); a checkout git refuses to remove loses its record.
- *Launcher*. `up` takes any board's answer for its child's; with `LEG_TOKEN` set
  it gets 401 and kills the board it started (`launcher.mjs:116`); a stale pidfile
  whose number was given to another process makes `down` kill a stranger. These
  are the exceptions `BoardIsRecorded` names.
- *Licence* (`license.mjs:183`). A renewal answered after another key was
  activated, or the key removed, writes over that choice.
- *Usage*. A fallback reading that succeeds does not clear `record.error`; one
  that is refused late may overwrite what the board was told.
- *Scheduler* (`server.mjs:1780`). A board whose scheduler was refused at its start
  never tries again.

## 4. Fairness

Nothing makes a human act, a fault happen, a command be given or a particular
outcome come. What is assumed fair is what runs by itself:

- `Card`: the driver's steps. `ComesToRest` speaks of behaviours in which the
  human falls silent.
- `Orchestrator`: the board's driver takes its steps and is started again when it
  died (a service; the scheduler ticks every second, each await is a timer, a poll
  or a child with a timeout); another driver finishes what it began, and nothing
  starts it again; run processes go on, an agent ends by itself or by the
  supervisor's timer; a human action that was begun is finished.
- `MergeQueue`: each landing's steps (tests end or are timed out, polling goes
  on), the ageing of a dead holder's claim; taking the guard is strongly fair: a
  caller tries sixty times while others hold it for two file writes, and after
  the last try it goes on without.
- `Scheduler`: each scheduler boots and ticks, each process drives what it holds
  and is restarted, an await ends, a terminal stops.
- `Terminal`: the runner's timers, the hook processes, the clocks of the walls.
  `TerminalLand`: the landing's steps, the dry run's end, the drain. In
  `MCTerminals` each of these in its own part.
- `Page`: the server's pushes, the health tick, answers that are under way, the
  reconnection; and the reader answers a question that is put to her.
- `Claims`, `Ladder` and the remaining parts: none; their properties are safety.

## 5. What is proved

Every invariant that a run checks is proved for every value of the constants: any
pipelines, cards, processes, terminals, logins, people, commands, ladders, and no
bound on faults or on what is done outside. So are the action properties, but
for those section 6 names. Each proof module carries one inductive invariant per
component; TLC checked each of them on the component's instance before it was
proved.

`ChainProofs`: each operator of the chain machine keeps a card's fields in their
types (`TransitionWellFormed`), for every pipeline, every set of gated entries and
every cap.

`CardProofs`: `IInv` is the conjunction of types, `PlaceInv` (the station and the
leg exist, a handing-off card has exactly the next entry to go to, a card at the
cap is over), `GreenInv` (every station before the current one is green) and
`TriedInv` (every leg before the current one was tried). `DoneIsEarned` is not
inductive alone: a card is done when it leaves the last station, so what must be
carried is that the stations behind it are green at every moment, and a bounce,
which goes back, must not leave a green one behind the stale ones.
`DriverStepsDecrease` follows with a lexicographic measure <<attempts left,
stations left, active, legs left, phase>>.

`OrchestratorProofs`, first invariant (`IInv`, with the human on the board):
whoever is not idle or dead holds the lock, so only one driver works; at `write` a
driver's `seen` is the card as it is and `next` a transition of it; a human on the
board acts only at an await, and `write` is none. From it `HumanDecisionStands` and
`CardFollowsChain`. `BoardAssumption` says that with a human on the board either
the board is the only driver or nobody presses; for `HumanAt = "cli"` the two
theorems are false, as a button between a driver's read and its write shows.

`OrchestratorProofs`, second invariant (`VerdictInv`): `AppliedInv` (a verdict
that was applied is settled, and whose it is), and, while no fault meets a button,
`PlaceInv` (the run a driver waits for was launched for the place the card is at),
and, while no button is pressed, `QuietInv` (whose processes live).
`VerdictsAreJustThm` assumes the human on the board and either no button or no
death of a driver or host: with both the property is false (section 3).
`NothingTwiceThm` assumes the human on the board: with a human at a command line
the patch of one process may mix with another's fields, and no inductive
invariant was found; `orch_rests` checks that case.

`MergeQueueProofs`, first invariant: a landing in its tests or before its
fast-forward has a branch that is the rebased commit plus commits made in its
own worktree, and before the fast-forward that rebased commit was tested. The
turn does not occur in the argument: a stale or lost turn cannot put an untested
commit on trunk. Second invariant (`LandInv`): a branch is a stretch of trunk
and then its card's own changes, none of them on trunk, one of them its work
unless trunk has it; what was said to have landed stays where it went. It gives
`LandingsAreTrue`.

`RecordsProofs` on `Claims`: the types, who may drive (`OneDriverHolds`), the log
(`LogFollows`), and the refinement `UpdatesAreAtomic`: the update of `card.json`,
file operation by file operation, implements `AtomicCard` until a lock is torn.

`RecordsProofs` on `Settings` and `Ladder`: `SettingsInv` says that the two
spellings of a ladder agree wherever Leg wrote both, in what a start has read and
on the record from its first moment, whatever the file holds by then; with what
`salvage` and `ladderFor` keep of a list it gives `WalkIsGiven`. `LadderInv` adds that
a terminal is on an agent Leg knows. `LegsAreAllowed` relates the login a leg
begins on to the record as it was asked and to the rules of the rung: the proof
goes through `nextRung` and `ladderRung` for a ladder of any length, so it says of
every rung that was passed over why it was.

`RecordsProofs` on `HistoryCell`: `CellInv` says of the newest request under way that
it has the filter and the last row of now (`LoadsInv`), of an answer that it is a
page of the list of now unless something moved (`PagesInv`), and of the rows shown
that they are a prefix of what passes the filter, unless they are about to be
replaced, something moved or a load failed (`RowsInv`). Without the first two
`CellHolds` is not inductive: an answer to an older question could be joined to
the rows.

`RecordsProofs` on the other parts of `MCRecords`, each with its own invariant while the
rest stands still:

- `HarnessInv`: whoever is in a section holds the lock, and what an apply has not come
  to yet is as the record has it (`SectionsInv`); neither the record nor what an apply
  remembers calls a text of hers Leg's, and each of her edits that is noted there has a
  copy if she still counts on it (`MemoryInv`, with `CopiesKept` and `Fresh`); a file is
  copied or written for what was read of it, and what is about to be overwritten has its
  copy or was saved after it (`HeldInv`); the bundle is the one recorded last and no
  older than its hash (`CaptureInv`); until something happens from outside nothing drifts
  (`DriftInv`). `HeldInv` carries the argument over the user's steps between look, copy
  and write. It gives `HarnessHolds`.
- `HistoryInv`: no reading in the index, or in what a refresh has read, is newer than
  its file, unless that was missing or not readable at some time, and what is so now is
  known to be (`StampInv`); and while no lock was outlived whoever refreshes holds it,
  and what it has of a store it scanned, or took over from the last index, is no older
  than the index (`RefreshInv`). What the fold over the
  terminals makes of a row (`RowTells`) is shown for any number of them by a least
  counterexample, as `Owner` of a checkout is; the verdict of `leg history continue` and
  the row both follow from it. It gives `HistoryHolds`.
- `TreesInv`: where each terminal, card and agent sits (`SeatsInv`, `JobsInv`, `AgentInv`); a
  checkout that is there is the one its owner's record names, or was let go (`HereInv`);
  what the board or a command line looked at before a removal was clean, unless forced
  (`OpsInv`); and who shares a checkout, or will when a waiting card starts, was put
  there by hand (`TwoInv`, `ForeignInv`, `WaitInv`, `PairsInv`). That `OneWriter` was not inductive without
  an exemption showed a case no run had reached: `end-as-card` asked for twice before
  its terminal has stopped makes two cards that adopt one checkout
  (`server.mjs:1468`); the model counts it among what is done by hand.
- `CheckoutsInv`: a list in the making asks few processes at once and loses nothing of
  what it is to ask (`PoolInv`); nobody waits for a list that is not in the making, and
  what is in the making knows the most (`NewsInv`). With `TreesInv` it gives `TreesHold`.

The lemmas these share are on what `filter` leaves of a list. `Subsequences` writes
it by positions (`Kept(s, K)`), since the recursive definition of the library cannot
be reasoned about by induction here: `KeptAscends` gives the ascending map from the
new positions to the old ones, by the bijection between a finite set of numbers and
an initial stretch, and the lemmas on prefixes, on a list without repetitions and
on its first occurrences follow from it.

`SchedulerProofs`: `SchedInv` says of every card a tick has committed itself to
(running, picked, or about to be driven) that all of them were compared and
counted together at a tick; the cap follows by an injection of the picked cards
into the free places. It gives `StartsAreSound`.

`SurroundingsProofs` on the parts of `MCSurroundings`: `LicenceInv` (the days on which
the trial opened the gates lie in its window, and a renewal that no choice raced is of
the key on file); `ShareInv` (an open stream's
link was in the roster the board last read, and the board reads again when the
file is newer); `TrustInv` (a launch about to write holds a copy that differs
from the file only where another launch overtook it, and two write one file only
past a dead lock); `LauncherInv` (a board that listens is recorded, or its
starter still waits for it, or it is noted why not; after `share` one listens, or
will, or a command has yet to look).

`SurroundingsProofs` on `RuntimeTap`: `RuntimeInv` relates what the tap has counted
to what the runtime has in flight (`InFlight`): while no event was swallowed, an open
turn and each open tool are among what was said to be open, and there are no more
open subagents than that. `TapIsTrue` is not inductive without it, and needs one thing of the
runtime, which is outside the repository: it gives a new subagent an identity it
has not used. The model keeps those identities in the history variable `started`.

`SurroundingsProofs` on `Taps` and `Resume`: `TapsInv` says of a tail, unless a poll
failed or the file was replaced, that the piece of a line it holds begins a line and is
all it has read and not acted on, and that what it was due is what it got and the whole
lines of the rest (`HearInv`); of what it was to read, read or holds, that it is of this
leg unless the file was found, or has another user (`OwnInv`). A read may end inside a
line, so "what was got is what was due" is not inductive: the piece that is held must be
carried, with where it begins. `ResumeInv` relates a record to where its terminal
is (`RecordsKept`), stamps to the checkout (`StampsInv`: a stamp that still agrees is of
the files as they are, unless a dirty file was edited again), what the file says to who
has yet to write it (`NamesInv`), and what a start has judged to the terminals it listed
(`JudgedInv`). They give `CarriedIsTrue`.

`SurroundingsProofs` on `UsagePoll` and `UsageRecord`: `PollInv` says that a card a round
has listed shows what the round found or is in what it has left to tell, that a slot
which tells holds what the record holds, and that the promise of the next poll stands
while the timer waits, and after it fires for as long as the answer takes; the last
needs the grace of `usage.mjs:97` to outlast an answer (`PollAssumption`). `UsageInv`
says that neither the wall nor the opening of a record is newer than what was observed
last, that a standing wall is no older than the opening, and that a word against a
login or a model is what its record says unless a later word covers it. They give
`UsageTells`.

`SurroundingsProofs` on `Page`: `DrawerIsOwn` for any number of terminals and answers
under way; `ReaderIsLeft` is an action property and follows action by action.

`TerminalsProofs`: two components. `LegInv`: while an agent runs, the record names
its login, what its hooks report is of that login, and whatever says it is at a
limit (record, tick, log, hook) has grounds in this leg, unless a hook of a killed
agent wrote late; a final status before the runner is over is such a hook's. It
gives `CardIsOwn` and `FinalStays`. `LandInv`: whoever is past the lock holds the
lock file, and a dry run that waits holds it alone; what was on a branch when its
scratch worktree was built goes into the new commit, is on the base already, or
came late; and while the base has not moved, the scratch commit is ahead of it.
`WorkIsKept` alone is not inductive: the reset replaces the branch by the scratch
commit, so what that commit contains must be carried from the moment it was
built. The lemmas `ForkIs`, `ScratchKeeps` and `RebaseKeeps` say what a cherry-pick
and a rebase keep: the positions a branch shares with its base are an initial
stretch, since the set that is counted is closed downward, and numbering the
changes to be replayed by counting them is a bijection (`Ranks`). It gives
`LandingsAreSafe` and `TrunkKeeps`.

Assumptions on constants are those the modules name: a pipeline is normalised as
`pipeline.mjs` does it, caps are positive, identities are distinct from the
sentinels. TLC evaluates all of them in the runs.

## 6. What is only model-checked

Liveness: `ComesToRest`, `Rests`, `EveryLandingIsAnswered`, `QueuedStarts`,
`TerminalAnswers`, `LandingIsAnswered`, `PageCatchesUp`; the prover does neither
fairness nor ENABLED.

Safety that is not proved: `NothingTwice` with a human at a command line, where no
inductive invariant was found (section 5).

## 7. What is not modelled, and why

Text, in every component: prompts, contracts, bundles' contents, diffs, digests,
redaction, wording. Time is a condition that may come whenever it can, or a small
clock. Git and the agents are external. Beyond that:

- *Orchestrator, runner*: the sweep command, file snapshots.
- *Claims*: the claim of a process that already holds it, errors other than
  "exists", other systems' permission errors.
- *Scheduler*: `leg scheduler stop` (`bin/leg.mjs:625`).
- *TerminalLand*: the push to origin, a conflict left by `rebase_now`, the expiry of
  the lock and the wait for it; an exception other than git's in the preparation of a
  landing.
- *Terminal*: starting a leg and resetting its record are one step; its own usage
  reading, the contents of the harness and of bundles; a stale wall of codex.
- *Ladder, Settings*: the refusals of the harness policy (they are in `Terminal`),
  spellings; a locked write of preferences is one step; the directories of accounts.
- *UsageRecord, UsagePoll*: the forecast, payloads, the machine's sleep.
- *Taps, Resume*: the formats of transcripts, the text of the hand-off file.
  *RuntimeTap*: the rewind after a truncation (`taps/mod.mjs:84`); its poll is not wired
  anywhere in the program yet (`mod.mjs:309`).
- *HistoryCell*: the load of a submitted form, a `more` retried after a failure.
- *Page*: the floor view, layout, toasts, usage parts, card events' high-water mark.
- *Launcher*: how a browser is opened. *Trust*: spellings of paths; the agents'
  own writes are atomic. *Sharing*: TLS, the rate limiter. *Licence*: a signature
  is membership in a set.
- *Harness*: one destination client, a fixed source; read-only commands. Inside one
  look the test for a file and the read of it (`generic.cjs:373`, `common.cjs:189`) are
  one step; an edit taken back to the very text Leg wrote is not told apart from none.
  *History*: titles, transcripts, provider paths. *Worktrees*: directories removed
  by hand, ignored files, the guard `landingNow`. `FewProcesses` of *Checkouts* bounds
  the processes of one query; `leg history continue`, like the cases named as by hand,
  starts in the conversation's directory without a checkout of its own.
- *Sync*: outgoing notifications whose only effect is outside the program.

## 8. The plan

1. Proofs: `NothingTwice` with the human at a command line.
2. The floor view and the toasts of the page; `leg scheduler stop`; the push to
   origin after a landing.
